------------------------------ MODULE Content ------------------------------
(***************************************************************************)
(* What the app holds of a message: one row per mail, and how much of it.  *)
(*                                                                         *)
(* A server shows a mail in several folders.  The walk fetches each copy,  *)
(* in full or, past the content window or the size cap, its headers alone, *)
(* and ingest_raw decides which row those bytes are: the Message-ID        *)
(* proposes, and the content, where the row knows it, disposes.  The       *)
(* window slides and the indexer's thread prunes what it leaves behind; a  *)
(* recheck walks everything again; and mail read back while the server was *)
(* still putting it together is fetched again by the sweep.                *)
(*                                                                         *)
(* One account.  How placements follow the server's moves is in Placement, *)
(* what threads are in Threads.                                            *)
(***************************************************************************)
EXTENDS Integers, Sequences, FiniteSets

CONSTANTS
    Folder, Mail,
    Id(_),          \* a mail's Message-ID; NoId if it has none
    Headers(_),        \* what its headers say: sender, subject, time
    Sent,           \* mail the account sends: the server puts it together in steps
    Large,          \* mail bigger than max_message_bytes
    NoId,
    MaxRow,         \* bound: Message rows
    Budgets         \* bounds: arrive, leave, slide, config, recheck, fail

VARIABLES
    copies,         \* the server's: <<folder, mail>>
    stage,          \* of each mail on the server: see Part
    old,            \* mail received before the window's cutoff
    config,         \* meerail.toml: is there a window, is there a cap?
    rows,           \* Message rows
    place,          \* the row each copy is placed against, 0 if none
    rewalk,         \* copies the cursors have been rewound behind
    memo,           \* _refetched, in the agent's memory: copy -> size
    sweep,          \* a repair under way: copy -> the size the server reported
    kept,           \* history: copies walked in full, that window and cap have kept since
    lagged,         \* history: copies fetched again while the server still answered short
    left            \* what is left of the budget

server == <<copies, stage, old>>
vars   == <<server, config, rows, place, rewalk, memo, sweep, kept, lagged, left>>

Copy     == Folder \X Mail
NoSweep  == [c \in {} |-> 0]
Spend(k) == left[k] > 0 /\ left' = [left EXCEPT ![k] = @ - 1]

Short == 1
Full  == 2
\* The bytes the server answers with, and the RFC822.SIZE it reports: a sent mail
\* may be listed with its full size while its attachments are still missing.
Part(m) == IF stage[m] = 2 THEN "whole" ELSE "part"
Size(m) == IF stage[m] = 0 THEN Short ELSE Full

Rows    == DOMAIN rows
Gone    == [mail |-> 0, key |-> <<>>, hash |-> <<>>, status |-> "gone"]
Live(r) == rows[r].status # "gone"

Init ==
    /\ copies \in {{}, {<<f, m>> : f \in Folder, m \in Mail \ Sent}}
    /\ stage = [m \in Mail |-> IF m \in Sent THEN 0 ELSE 2]
    /\ old = {} /\ config \in [window : BOOLEAN, cap : {Large # {}}]
    /\ rows = <<>> /\ place = [c \in Copy |-> 0] /\ rewalk = {}
    /\ memo = [c \in Copy |-> 0] /\ sweep = NoSweep
    /\ kept = {} /\ lagged = {}
    /\ left \in Budgets

(***************************************************************************)
(* Storing: core/mail/store.py.                                            *)
(***************************************************************************)
\* content_key: a hash of the bytes that were fetched, whatever part they are.
content_key(m, part) == <<m, part>>
dedup_key(m, part)   == IF Id(m) = NoId THEN content_key(m, part) ELSE <<Id(m)>>

Held(key) == {r \in Rows : Live(r) /\ rows[r].key = key}

\* Variant: the Message-ID is enough.
same_id(r, m, part) == TRUE

same_message(r, m, part) ==
    IF rows[r].hash # <<>> THEN rows[r].hash = content_key(m, part)
    ELSE Headers(rows[r].mail) = Headers(m)

\* Another message wears this one's id: this one is filed under its bytes.
shared_id(m, part) == \E r \in Held(dedup_key(m, part)) : ~same_message(r, m, part)

found(m, part) ==
    IF shared_id(m, part) \/ Held(dedup_key(m, part)) = {}
    THEN Held(content_key(m, part)) ELSE Held(dedup_key(m, part))

\* Variant: content is written once, and a pruned row has had its own.
fill_skipped(r, m, part) ==
    IF part # "head" /\ rows[r].status = "skipped"
    THEN [rows[r] EXCEPT !.hash = content_key(m, part), !.status = "full"] ELSE rows[r]

\* A row with no body takes the one that has come.
fill_in(r, m, part) ==
    IF part # "head" /\ rows[r].status # "full"
    THEN [rows[r] EXCEPT !.hash = content_key(m, part), !.status = "full"] ELSE rows[r]

created(m, part) ==
    [mail |-> m,
     key  |-> IF shared_id(m, part) THEN content_key(m, part) ELSE dedup_key(m, part),
     hash |-> IF part = "head" THEN <<>> ELSE content_key(m, part),
     status |-> IF part = "head" THEN "skipped" ELSE "full"]

ingest_raw(c, m, part) ==
    IF found(m, part) = {}
    THEN /\ Len(rows) < MaxRow
         /\ rows' = Append(rows, created(m, part))
         /\ place' = [place EXCEPT ![c] = Len(rows) + 1]
    ELSE \E r \in found(m, part) :
         /\ rows' = [rows EXCEPT ![r] = fill_in(r, m, part)]
         /\ place' = [place EXCEPT ![c] = r]

(***************************************************************************)
(* The walk: agent/sync.py.                                                *)
(***************************************************************************)
\* _store_chunk: headers alone for what is too old or too large.
need_headers(m) == (config.window /\ m \in old) \/ (config.cap /\ m \in Large)

Walk(c) ==
    LET m == c[2] IN
    /\ c \in copies /\ (place[c] = 0 \/ c \in rewalk)
    /\ ingest_raw(c, m, IF need_headers(m) THEN "head" ELSE Part(m))
    /\ rewalk' = rewalk \ {c}
    /\ kept' = IF need_headers(m) THEN kept ELSE kept \cup {c}
    /\ UNCHANGED <<server, config, memo, sweep, lagged, left>>

\* request_recheck and reset_cursor, for every folder
Recheck ==
    /\ rewalk = {} /\ rewalk' = {c \in Copy : place[c] # 0} /\ rewalk' # {}
    /\ Spend("recheck")
    /\ UNCHANGED <<server, config, rows, place, memo, sweep, kept, lagged>>

(***************************************************************************)
(* The repair of what was stored short, riding the sweep.                  *)
(***************************************************************************)
stored_size(r) == IF rows[r].hash[2] = "part" THEN Short ELSE Full

find_short_content(f) ==
    {c \in copies : /\ c[1] = f /\ place[c] # 0 /\ rows[place[c]].status = "full"
                    /\ Size(c[2]) > stored_size(place[c])
                    /\ memo[c] # Size(c[2])}

FindShort(f) ==
    /\ sweep = NoSweep /\ find_short_content(f) # {}
    /\ sweep' = [c \in find_short_content(f) |-> Size(c[2])]
    /\ UNCHANGED <<server, config, rows, place, rewalk, memo, kept, lagged, left>>

\* Variant: the attempt is remembered whether or not it was answered.
memo_at_once == [c \in Copy |-> IF c \in DOMAIN sweep THEN sweep[c] ELSE memo[c]]

\* The fetch fails: nothing is written to the memo on the way out.
memo_on_failure == memo

RefetchFails ==
    /\ sweep # NoSweep /\ sweep' = NoSweep
    /\ memo' = memo_on_failure
    /\ Spend("fail")
    /\ UNCHANGED <<server, config, rows, place, rewalk, kept, lagged>>

\* restore_content, of whatever row the copy is placed against by now.
restore_content ==
    rows' = [r \in Rows |->
        IF \E c \in DOMAIN sweep \cap copies : place[c] = r
        THEN LET m == (CHOOSE c \in DOMAIN sweep \cap copies : place[c] = r)[2] IN
             [rows[r] EXCEPT !.hash = content_key(m, Part(m)), !.status = "full"]
        ELSE rows[r]]

Refetch ==
    /\ sweep # NoSweep /\ sweep' = NoSweep
    /\ restore_content
    /\ memo' = [c \in Copy |-> IF c \in DOMAIN sweep THEN sweep[c] ELSE memo[c]]
    /\ lagged' = lagged \cup {c \in DOMAIN sweep : Part(c[2]) = "part"}
    /\ UNCHANGED <<server, config, place, rewalk, kept, left>>

(***************************************************************************)
(* The window, the agent's configuration, and the orphans.                 *)
(***************************************************************************)
\* prune_expired_content, on the indexer's thread; strip_content keeps the hash.
Prune(r) ==
    /\ config.window /\ rows[r].status = "full" /\ rows[r].mail \in old
    /\ rows' = [rows EXCEPT ![r].status = "pruned"]
    /\ UNCHANGED <<server, config, place, rewalk, memo, sweep, kept, lagged, left>>

\* A month goes by.
Slide(m) ==
    /\ m \notin old /\ old' = old \cup {m}
    /\ kept' = IF config.window THEN {c \in kept : c[2] # m} ELSE kept
    /\ Spend("slide")
    /\ UNCHANGED <<copies, stage, config, rows, place, rewalk, memo, sweep, lagged>>

\* The file is edited and the agent started again: what it had in memory is gone.
Configure(w, k) ==
    /\ config' = [window |-> w, cap |-> k /\ Large # {}] /\ config' # config
    /\ memo' = [c \in Copy |-> 0] /\ sweep' = NoSweep
    /\ kept' = {c \in kept : ~(w /\ c[2] \in old) /\ ~(k /\ c[2] \in Large)}
    /\ Spend("config")
    /\ UNCHANGED <<server, rows, place, rewalk, lagged>>

\* delete_orphan_messages, a day after the last placement went
Collect(r) ==
    /\ Live(r) /\ \A c \in Copy : place[c] # r
    /\ rows' = [rows EXCEPT ![r] = Gone]
    /\ UNCHANGED <<server, config, place, rewalk, memo, sweep, kept, lagged, left>>

(***************************************************************************)
(* The server.                                                             *)
(***************************************************************************)
Arrive(c) ==
    /\ c \notin copies /\ copies' = copies \cup {c}
    /\ Spend("arrive")
    /\ UNCHANGED <<stage, old, config, rows, place, rewalk, memo, sweep, kept, lagged>>

Assemble(m) ==
    /\ stage[m] < 2 /\ stage' = [stage EXCEPT ![m] = @ + 1]
    /\ UNCHANGED <<copies, old, config, rows, place, rewalk, memo, sweep, kept, lagged, left>>

\* A label is taken off, and the sweep has seen it go.
Leave(c) ==
    /\ c \in copies /\ copies' = copies \ {c}
    /\ place' = [place EXCEPT ![c] = 0]
    /\ rewalk' = rewalk \ {c} /\ kept' = kept \ {c}
    /\ Spend("leave")
    /\ UNCHANGED <<stage, old, config, rows, memo, sweep, lagged>>

Next ==
    \/ \E c \in Copy : Walk(c) \/ Arrive(c) \/ Leave(c)
    \/ \E f \in Folder : FindShort(f)
    \/ \E m \in Mail : Slide(m) \/ Assemble(m)
    \/ \E r \in Rows : Prune(r) \/ Collect(r)
    \/ Recheck \/ RefetchFails \/ Refetch
    \/ \E w, k \in BOOLEAN : Configure(w, k)

Spec == Init /\ [][Next]_vars

\* A pass walks every folder and sweeps it; the server finishes what it began.
Repair == Refetch \/ \E f \in Folder : FindShort(f)
Steady == \E c \in Copy : Walk(c)
Assembles == \E m \in Mail : Assemble(m)
Fairness == WF_vars(Repair) /\ WF_vars(Steady) /\ WF_vars(Assembles)

(***************************************************************************)
(* Properties.                                                             *)
(***************************************************************************)
\* What a folder shows in a mail's place is that mail: whoever else wears its
\* Message-ID, and whatever became of either (same_message, ingest_raw).
OwnContent ==
    \A c \in Copy : place[c] # 0 =>
        /\ Live(place[c]) /\ rows[place[c]].mail = c[2]
        /\ rows[place[c]].hash # <<>> => rows[place[c]].hash[1] = c[2]

\* Mail the window keeps, and has kept since it was walked, can be read: widening
\* the window and walking again is not a one-way door (fill_in, Prune).
Readable == \A c \in kept : rows[place[c]].status = "full"

\* Mail stored before the server had put it together is whole in the end, unless the
\* server also answered the second fetch of it short (_repair_short_content).
Clipped(c) ==
    /\ place[c] # 0 /\ rows[place[c]].status = "full" /\ stage[c[2]] = 2
    /\ rows[place[c]].hash[2] = "part"
NoneClipped == \A c \in Copy : Clipped(c) => c \in lagged

\* "Re-ingesting is idempotent ... without duplicating anything that survived":
\* one mail, one row (reset_cursor, ingest_raw).
OneRow == \A r, s \in Rows : r # s /\ Live(r) /\ Live(s) => rows[r].mail # rows[s].mail
=============================================================================
