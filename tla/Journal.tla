------------------------------ MODULE Journal ------------------------------
(***************************************************************************)
(* Several installs of meerail agreeing on reminders through one log.      *)
(*                                                                         *)
(* A journal server numbers sealed records and hands them back in order.   *)
(* Every install keeps its own reminders, an outbox of records it owes the *)
(* log, a cursor into it and the records it read but cannot apply yet.     *)
(* Two threads of an install talk to the server: the journal loop, which   *)
(* drains the outbox and pulls the log, and the reminder tick, which       *)
(* claims a due reminder in the log, pulls to see whose claim is first,    *)
(* and fires.  Both pull, and each in a session of its own.                *)
(*                                                                         *)
(* The server is the serialized one (SQLite, its default): an append is    *)
(* one step.  Sealing, the passphrase and the spaces are left out, and so  *)
(* is the mail a reminder parks and brings back: applying a record moves   *)
(* none.  An account_prefs record is kept for its place in a snapshot.     *)
(***************************************************************************)
EXTENDS Integers, Sequences, FiniteSets, SequencesExt

CONSTANTS
    Install,      \* installs sharing the journal
    Key,          \* conversations a reminder can be set on
    Worker,       \* which threads run: subset of {"loop", "tick"}
    Slot,         \* bound: reminder rows an install makes for a conversation
    Horizon,      \* bound: deadlines are 1..Horizon
    Page,         \* records the client posts, and fetches, in one request
    MaxBatch,     \* records the server takes in one request
    Overlap,      \* may another transaction of an install commit inside a pull's?
    Ready,        \* what an install may at first have of a conversation
    Parked,       \* is a reminder already set, and read by everybody?
    Faults,       \* what may go wrong: subset of {"down", "reply", "lapse", "prune"}
    MaxVerb,      \* bound: reminders set or taken back by users
    MaxFault,     \* bound: faults
    MaxSnapshot   \* bound: snapshots posted

ASSUME SlotAssumption   == IsFiniteSet(Slot) /\ Slot = 1..Cardinality(Slot)
ASSUME WorkerAssumption == Worker \subseteq {"loop", "tick"}
ASSUME ReadyAssumption  == Ready \subseteq {"nothing", "message", "folder"} /\ Ready # {}
ASSUME OverlapAssumption == Overlap \in BOOLEAN
ASSUME FaultAssumption  == Faults \subseteq {"down", "reply", "lapse", "prune"}
ASSUME SizeAssumption   == Page \in Nat \ {0} /\ MaxBatch \in Nat \ {0} /\ Horizon \in Nat
ASSUME BoundAssumption  == MaxVerb \in Nat /\ MaxFault \in Nat /\ MaxSnapshot \in Nat

VARIABLES
    log, floor,   \* the server: every record ever numbered, the first one held
    outbox,       \* records an install owes the log
    rows,         \* reminders: a table per install and conversation
    deferred,     \* numbers of the records waiting in journal_deferred
    cursor,
    ready,        \* what the install's own mail sync has brought so far
    frame,        \* each thread's place in its pass
    now,
    said,         \* history: the last verb a user of this install was told of
    brought,      \* history: times a tick fired the conversation's reminder
    verbs, faults, snapshots

server == <<log, floor>>
local  == <<outbox, rows, deferred, cursor>>
bounds == <<verbs, faults, snapshots>>
vars   == <<server, local, ready, frame, now, said, brought, bounds>>

-----------------------------------------------------------------------------
\* word says a record is a user's, or a tick's, own, the first time it is
\* posted: not one repeated by a snapshot or after a lost reply.  The code
\* does not know it.
Ops    == {"set", "cancel", "fired", "claim", "prefs"}
Record == [op : Ops, key : Key, due : 0..Horizon, by : Install, word : BOOLEAN, snapshot : BOOLEAN]

\* Row: a reminder; claim, by and held are claim_seq, claim_by and whether
\* claim_at is younger than CLAIM_TTL.
Row == [state : {"none", "pending", "closed"}, due : 0..Horizon,
        claim : Nat, by : Install \cup {"nobody"}, held : BOOLEAN]
NoRow  == [state |-> "none", due |-> 0, claim |-> 0, by |-> "nobody", held |-> FALSE]
Closed == [NoRow EXCEPT !.state = "closed"]
Pending(due) == [NoRow EXCEPT !.state = "pending", !.due = due]

Table == [Slot -> Row]
Count(t)    == Cardinality({s \in Slot : t[s].state # "none"})
Open(t)     == {s \in Slot : t[s].state = "pending"}
Existing(t) == CHOOSE s \in Open(t) : \A u \in Open(t) : s <= u
HasRoom(t)  == Count(t) < Cardinality(Slot)
WithRow(t, row) == IF HasRoom(t) THEN [t EXCEPT ![Count(t) + 1] = row] ELSE t

\* A thread's place in its pass: the claim the tick is about, with the row as
\* it loaded it, the page being read, and a transaction's view of the tables
\* before and after what it has not committed yet.
Idle == [at |-> "idle", key |-> "none", slot |-> 0, seq |-> 0, copy |-> NoRow,
         from |-> 0, upto |-> 0, base |-> <<>>, next |-> <<>>]

\* No thread of the install is inside a pull's transaction, where that matters.
Alone(i) == Overlap \/ \A w \in Worker : frame[i][w].at \notin {"retried", "applied"}

-----------------------------------------------------------------------------
Init ==
    /\ log = IF Parked THEN [n \in 1..Cardinality(Key) |->
                               [op |-> "set", key |-> SetToSeq(Key)[n], due |-> 1,
                                by |-> CHOOSE i \in Install : TRUE, word |-> TRUE,
                                snapshot |-> FALSE]] ELSE <<>>
    /\ floor = 1
    /\ outbox = [i \in Install |-> <<>>]
    /\ rows = [i \in Install |-> [k \in Key |-> [s \in Slot |->
                 IF Parked /\ s = 1 THEN Pending(1) ELSE NoRow]]]
    /\ deferred = [i \in Install |-> {}]
    /\ cursor = [i \in Install |-> Len(log)]
    /\ ready \in [Install -> [Key -> Ready]]
    /\ frame = [i \in Install |-> [w \in Worker |-> Idle]]
    /\ now = 0
    /\ said = [i \in Install |-> [k \in Key |-> "none"]]
    /\ brought = [k \in Key |-> 0]
    /\ verbs = 0 /\ faults = 0 /\ snapshots = 0

-----------------------------------------------------------------------------
(* What a user does.  Each request is one transaction, its record in it.   *)

Owed(op, k, due, i) == [op |-> op, key |-> k, due |-> due, by |-> i,
                        word |-> TRUE, snapshot |-> FALSE]

\* POST remind: a reminder, or a new deadline for the one there is.
SetReminder(i, k, due) ==
    LET t == rows[i][k] IN
    /\ verbs < MaxVerb
    /\ Alone(i)
    /\ ready[i][k] = "folder"
    /\ due > now
    /\ Open(t) # {} \/ HasRoom(t)
    /\ rows' = [rows EXCEPT ![i][k] = IF Open(t) = {} THEN WithRow(t, Pending(due))
                                      ELSE [t EXCEPT ![Existing(t)].due = due]]
    /\ outbox' = [outbox EXCEPT ![i] = Append(@, Owed("set", k, due, i))]
    /\ said' = [said EXCEPT ![i][k] = "set"]
    /\ verbs' = verbs + 1
    /\ UNCHANGED <<server, deferred, cursor, ready, frame, now, brought, faults, snapshots>>

\* DELETE remind, or the undo of the keypress that set it: the mail stays
\* filed ("cancel") or is brought back now ("fired").
ClearReminder(i, k, op) ==
    /\ verbs < MaxVerb
    /\ Alone(i)
    /\ Open(rows[i][k]) # {}
    /\ rows' = [rows EXCEPT ![i][k][Existing(rows[i][k])] = Closed]
    /\ outbox' = [outbox EXCEPT ![i] = Append(@, Owed(op, k, 0, i))]
    /\ said' = [said EXCEPT ![i][k] = "cleared"]
    /\ verbs' = verbs + 1
    /\ UNCHANGED <<server, deferred, cursor, ready, frame, now, brought, faults, snapshots>>

-----------------------------------------------------------------------------
(* Publishing.  A server that cannot be reached, or refuses the request,   *)
(* leaves a drain as it was: the records stay owed and the pass is over.   *)

Fault(kind) ==
    /\ kind \in Faults
    /\ faults < MaxFault
    /\ faults' = faults + 1

At(i, w, place) == w \in Worker /\ frame[i][w].at = place
Goto(i, w, f)   == frame' = [frame EXCEPT ![i][w] = f]

\* A pull goes first to the deferred records, if there are any.
PullFrom(i, f) == [f EXCEPT !.at = IF deferred[i] = {} THEN "fetch" ELSE "retry"]

\* Variant: an idle loop does not pull when it had nothing to send.
DrainedIdle(i) == IF outbox[i] = <<>> THEN Idle ELSE PullFrom(i, Idle)

\* Where a pass goes after its drain.
Drained(i) == PullFrom(i, Idle)

\* drain: one request, and the rows marked as sent.
Drain(i) ==
    LET n == IF Len(outbox[i]) < Page THEN Len(outbox[i]) ELSE Page IN
    /\ At(i, "loop", "idle")
    /\ n <= MaxBatch
    /\ log' = log \o SubSeq(outbox[i], 1, n)
    /\ outbox' = [outbox EXCEPT ![i] = SubSeq(@, n + 1, Len(@))]
    /\ Goto(i, "loop", Drained(i))
    /\ UNCHANGED <<floor, rows, deferred, cursor, ready, now, said, brought, bounds>>

\* The server takes the records and the answer is lost, or the install dies
\* before it has written down that they went.
DrainForgotten(i) ==
    LET n == IF Len(outbox[i]) < Page THEN Len(outbox[i]) ELSE Page IN
    /\ At(i, "loop", "idle")
    /\ 0 < n /\ n <= MaxBatch
    /\ Fault("reply")
    /\ log' = log \o SubSeq(outbox[i], 1, n)
    /\ outbox' = [outbox EXCEPT ![i] = [j \in DOMAIN @ |->
                    IF j <= n THEN [@[j] EXCEPT !.word = FALSE] ELSE @[j]]]
    /\ UNCHANGED <<floor, rows, deferred, cursor, ready, frame, now, said, brought, verbs, snapshots>>

Marked(q) == IF q = <<>> THEN q ELSE [q EXCEPT ![Len(q)].snapshot = TRUE]

\* snapshot: this install's pending reminders and its account's looks said
\* again, at startup and daily, before the pass.  The mark goes on the last
\* record its query finds, and what it has itself queued is not flushed yet.
Snapshot(i) ==
    LET held == {<<k, s>> \in Key \X Slot : rows[i][k][s].state = "pending"}
        sets == [n \in 1..Cardinality(held) |->
                   LET ks == SetToSeq(held)[n] IN
                   [Owed("set", ks[1], rows[i][ks[1]][ks[2]].due, i) EXCEPT !.word = FALSE]]
        last == [Owed("prefs", CHOOSE k \in Key : TRUE, 0, i) EXCEPT !.word = FALSE]
    IN
    /\ At(i, "loop", "idle")
    /\ snapshots < MaxSnapshot
    /\ snapshots' = snapshots + 1
    /\ outbox' = [outbox EXCEPT ![i] = Marked(@) \o Append(sets, last)]
    /\ UNCHANGED <<server, rows, deferred, cursor, ready, frame, now, said, brought, verbs, faults>>

\* _prune: records older than the retention window that a snapshot follows.
Prune ==
    /\ Fault("prune")
    /\ \E n \in DOMAIN log :
         /\ floor < n
         /\ \E s \in n..Len(log) : log[s].snapshot
         /\ floor' = n
    /\ UNCHANGED <<log, local, ready, frame, now, said, brought, verbs, snapshots>>

-----------------------------------------------------------------------------
(* Pulling.  Three transactions' worth of steps: the deferred records, then *)
(* pages until a short one.  Each reads the tables in one step and commits  *)
(* in another.                                                              *)

Kept(stored, old, new) == IF new = old THEN stored ELSE new

Written(stored, old, new) == [c \in DOMAIN stored |-> Kept(stored[c], old[c], new[c])]

\* The table after a commit: changed columns written, new rows numbered
\* after those that came to be in between.
Merged(cur, base, next) ==
    LET n == Count(base)
        m == Count(cur)
    IN [s \in Slot |-> CASE s <= n -> Written(cur[s], base[s], next[s])
                         [] n < s /\ s <= m -> cur[s]
                         [] OTHER -> IF s - m + n \in Slot THEN next[s - m + n] ELSE NoRow]

\* Does an install put this record off?  Its account or anchor message may
\* not have synced, and a new reminder needs the folder its mail is in.
Defers(i, rec, t) ==
    /\ rec.op # "prefs"
    /\ \/ ready[i][rec.key] = "nothing"
       \/ ready[i][rec.key] = "message" /\ rec.op = "set" /\ Open(t) = {}

\* Variant: a cancel in the page of its set does not see the row.
AppliedUnflushed(rec, n, t) ==
    IF Open(t) = {} THEN IF rec.op = "set" THEN WithRow(t, Pending(rec.due)) ELSE t
    ELSE LET s == Existing(t) IN
         CASE rec.op = "set" -> [t EXCEPT ![s].due = rec.due]
           [] OTHER -> t

\* _apply_reminder: the conversation's table after record number n.
Applied(rec, n, t) ==
    IF Open(t) = {} THEN IF rec.op = "set" THEN WithRow(t, Pending(rec.due)) ELSE t
    ELSE LET s == Existing(t) IN
         CASE rec.op = "set" -> [t EXCEPT ![s].due = rec.due]
           [] rec.op \in {"cancel", "fired"} -> [t EXCEPT ![s] = Closed]
           [] rec.op = "claim" /\ (~t[s].held \/ n < t[s].claim) ->
                [t EXCEPT ![s].claim = n, ![s].by = rec.by, ![s].held = TRUE]
           [] OTHER -> t

View(i) == [rows |-> rows[i], deferred |-> deferred[i]]

Apply(i, v, n) == [v EXCEPT !.rows[log[n].key] = Applied(log[n], n, @)]

\* A page: a record that cannot be applied yet is parked.
ApplyPage(i, v, from, upto) ==
    FoldLeft(LAMBDA d, n : IF Defers(i, log[n], d.rows[log[n].key])
                           THEN [d EXCEPT !.deferred = @ \cup {n}]
                           ELSE Apply(i, d, n),
             v, [j \in 1..(upto - from + 1) |-> from + j - 1])

\* _retry_deferred: in order, and one that still waits makes those about the
\* same conversation behind it wait as well.
RetryDeferred(i, v) ==
    LET waiting(d, n) == \E b \in d.deferred : b < n /\ log[b].key = log[n].key IN
    FoldLeft(LAMBDA d, n : IF waiting(d, n) \/ Defers(i, log[n], d.rows[log[n].key])
                           THEN d ELSE Apply(i, [d EXCEPT !.deferred = @ \ {n}], n),
             v, SetToSortSeq(v.deferred, <))

PullEnds(i, w) == Goto(i, w, IF w = "loop" THEN Idle ELSE [frame[i][w] EXCEPT !.at = "judge"])

Retry(i, w) ==
    /\ At(i, w, "retry") /\ Alone(i)
    /\ Goto(i, w, [frame[i][w] EXCEPT !.at = "retried", !.base = View(i),
                                      !.next = RetryDeferred(i, View(i))])
    /\ UNCHANGED <<server, local, ready, now, said, brought, bounds>>

\* Its commit.  A record the other thread has taken care of meanwhile fails
\* the update of its count of tries, and with it the pass.
CommitRetry(i, w) ==
    LET f == frame[i][w] IN
    /\ At(i, w, "retried")
    /\ IF f.base.deferred \cap f.next.deferred \subseteq deferred[i]
       THEN /\ rows' = [rows EXCEPT ![i] = [k \in Key |->
                          Merged(@[k], f.base.rows[k], f.next.rows[k])]]
            /\ deferred' = [deferred EXCEPT ![i] = @ \ (f.base.deferred \ f.next.deferred)]
            /\ Goto(i, w, [f EXCEPT !.at = "fetch", !.base = <<>>, !.next = <<>>])
       ELSE Goto(i, w, Idle) /\ UNCHANGED <<rows, deferred>>
    /\ UNCHANGED <<server, outbox, cursor, ready, now, said, brought, bounds>>

\* Has this cursor fallen behind what the server still holds?
Reset(c) == c > 0 /\ c < floor - 1

\* One request to the server: a page, the end of the log, or a reset.
Fetch(i, w) ==
    LET c    == cursor[i]
        from == IF c < floor THEN floor ELSE c + 1
        upto == IF Len(log) < from + Page - 1 THEN Len(log) ELSE from + Page - 1
    IN
    /\ At(i, w, "fetch")
    /\ IF Reset(c)
       THEN cursor' = [cursor EXCEPT ![i] = 0] /\ UNCHANGED frame
       ELSE /\ UNCHANGED cursor
            /\ IF upto < from THEN PullEnds(i, w)
               ELSE Goto(i, w, [frame[i][w] EXCEPT !.at = "fetched", !.from = from, !.upto = upto])
    /\ UNCHANGED <<server, outbox, rows, deferred, ready, now, said, brought, bounds>>

\* The log cannot be read.  The loop tries again on its next pass; the tick,
\* having claimed, fires.
FetchFails(i, w) ==
    /\ At(i, w, "fetch")
    /\ Fault("down")
    /\ Goto(i, w, IF w = "loop" THEN Idle ELSE [frame[i][w] EXCEPT !.at = "granted"])
    /\ UNCHANGED <<server, local, ready, now, said, brought, verbs, snapshots>>

ReadPage(i, w) ==
    LET f == frame[i][w] IN
    /\ At(i, w, "fetched") /\ Alone(i)
    /\ Goto(i, w, [f EXCEPT !.at = "applied", !.base = View(i),
                            !.next = ApplyPage(i, View(i), f.from, f.upto)])
    /\ UNCHANGED <<server, local, ready, now, said, brought, bounds>>

\* Where a page leaves the cursor.
PageEnd(f) == f.upto

\* The page and the cursor past it.  A record both threads parked is a
\* duplicate key, which fails the pass; a short page is the last.
CommitPage(i, w) ==
    LET f == frame[i][w]
        parked == f.next.deferred \ f.base.deferred
    IN
    /\ At(i, w, "applied")
    /\ IF parked \cap deferred[i] = {}
       THEN /\ rows' = [rows EXCEPT ![i] = [k \in Key |->
                          Merged(@[k], f.base.rows[k], f.next.rows[k])]]
            /\ deferred' = [deferred EXCEPT ![i] = @ \cup parked]
            /\ cursor' = [cursor EXCEPT ![i] = PageEnd(f)]
            /\ LET g == [f EXCEPT !.from = 0, !.upto = 0, !.base = <<>>, !.next = <<>>] IN
               Goto(i, w, CASE f.upto - f.from + 1 = Page -> [g EXCEPT !.at = "fetch"]
                            [] w = "loop" -> Idle
                            [] OTHER -> [g EXCEPT !.at = "judge"])
       ELSE Goto(i, w, Idle) /\ UNCHANGED <<rows, deferred, cursor>>
    /\ UNCHANGED <<server, outbox, ready, now, said, brought, bounds>>

-----------------------------------------------------------------------------
(* The reminder tick.                                                      *)

\* Is this reminder to be claimed: due, and not held by another install?
Claimable(i, row) ==
    /\ row.state = "pending"
    /\ row.due <= now
    /\ ~(row.held /\ row.by # i)

\* claim: the record is posted at once, for its number is the answer.
Claim(i, k, s) ==
    LET row == rows[i][k][s] IN
    /\ At(i, "tick", "idle")
    /\ Claimable(i, row)
    /\ log' = Append(log, Owed("claim", k, 0, i))
    /\ Goto(i, "tick", [Idle EXCEPT !.at = "claimed", !.key = k, !.slot = s,
                                    !.seq = Len(log) + 1, !.copy = row])
    /\ UNCHANGED <<floor, local, ready, now, said, brought, bounds>>

\* A claim that gets no answer, whether or not the server took it: the
\* reminder is fired anyway.
ClaimFails(i, k, s) ==
    /\ At(i, "tick", "idle")
    /\ Claimable(i, rows[i][k][s])
    /\ \/ Fault("down") /\ UNCHANGED log
       \/ Fault("reply") /\ log' = Append(log, Owed("claim", k, 0, i))
    /\ Goto(i, "tick", [Idle EXCEPT !.at = "granted", !.key = k, !.slot = s])
    /\ UNCHANGED <<floor, local, ready, now, said, brought, verbs, snapshots>>

\* The claim's number is written on the reminder, over the copy loaded
\* before it was posted.  Then the log is read forward.
RecordClaim(i) ==
    LET f == frame[i]["tick"] IN
    /\ At(i, "tick", "claimed") /\ Alone(i)
    /\ rows' = [rows EXCEPT ![i][f.key][f.slot] =
                  [Written(@, f.copy, [f.copy EXCEPT !.claim = f.seq, !.by = i])
                     EXCEPT !.held = TRUE]]
    /\ Goto(i, "tick", [PullFrom(i, f) EXCEPT !.copy = NoRow])
    /\ UNCHANGED <<server, outbox, deferred, cursor, ready, now, said, brought, bounds>>

\* Variant: whoever has claimed fires.
GrantedAlways(row, seq) == TRUE

Granted(row, seq) == row.claim = 0 \/ row.claim >= seq

\* Whose claim was first?
Judge(i) ==
    LET f == frame[i]["tick"] IN
    /\ At(i, "tick", "judge")
    /\ Goto(i, "tick", IF Granted(rows[i][f.key][f.slot], f.seq)
                       THEN [f EXCEPT !.at = "granted"] ELSE Idle)
    /\ UNCHANGED <<server, local, ready, now, said, brought, bounds>>

\* run_due, under the row's lock: a reminder still pending is fired and its
\* record queued, in one transaction.
Fire(i) ==
    LET f == frame[i]["tick"] IN
    /\ At(i, "tick", "granted") /\ Alone(i)
    /\ IF rows[i][f.key][f.slot].state = "pending"
       THEN /\ rows' = [rows EXCEPT ![i][f.key][f.slot] = Closed]
            /\ outbox' = [outbox EXCEPT ![i] = Append(@, Owed("fired", f.key, 0, i))]
            /\ brought' = [brought EXCEPT ![f.key] = @ + 1]
       ELSE UNCHANGED <<rows, outbox, brought>>
    /\ Goto(i, "tick", Idle)
    /\ UNCHANGED <<server, deferred, cursor, ready, now, said, bounds>>

-----------------------------------------------------------------------------
(* Around them.                                                            *)

\* A deadline comes.
Tick ==
    /\ now < Horizon
    /\ now' = now + 1
    /\ UNCHANGED <<server, local, ready, frame, said, brought, bounds>>

\* The install's mail sync brings the message, or lists the folder.
Arrive(i, k) ==
    /\ \/ ready[i][k] = "nothing" /\ ready' = [ready EXCEPT ![i][k] = "message"]
       \/ ready[i][k] # "folder" /\ ready' = [ready EXCEPT ![i][k] = "folder"]
    /\ UNCHANGED <<server, local, frame, now, said, brought, bounds>>

\* A claim is older than CLAIM_TTL.
ClaimLapses(i, k, s) ==
    /\ rows[i][k][s].held
    /\ Fault("lapse")
    /\ rows' = [rows EXCEPT ![i][k][s].held = FALSE]
    /\ UNCHANGED <<server, outbox, deferred, cursor, ready, frame, now, said, brought, verbs, snapshots>>

-----------------------------------------------------------------------------
Pull(i, w) == Retry(i, w) \/ CommitRetry(i, w) \/ Fetch(i, w) \/ ReadPage(i, w) \/ CommitPage(i, w)

Next ==
    \/ \E i \in Install, k \in Key, due \in 1..Horizon : SetReminder(i, k, due)
    \/ \E i \in Install, k \in Key, op \in {"cancel", "fired"} : ClearReminder(i, k, op)
    \/ \E i \in Install : Drain(i)
    \/ \E i \in Install : DrainForgotten(i)
    \/ \E i \in Install : Snapshot(i)
    \/ Prune
    \/ \E i \in Install, w \in Worker : Retry(i, w)
    \/ \E i \in Install, w \in Worker : CommitRetry(i, w)
    \/ \E i \in Install, w \in Worker : Fetch(i, w)
    \/ \E i \in Install, w \in Worker : FetchFails(i, w)
    \/ \E i \in Install, w \in Worker : ReadPage(i, w)
    \/ \E i \in Install, w \in Worker : CommitPage(i, w)
    \/ \E i \in Install, k \in Key, s \in Slot : Claim(i, k, s)
    \/ \E i \in Install, k \in Key, s \in Slot : ClaimFails(i, k, s)
    \/ \E i \in Install : RecordClaim(i)
    \/ \E i \in Install : Judge(i)
    \/ \E i \in Install : Fire(i)
    \/ Tick
    \/ \E i \in Install, k \in Key : Arrive(i, k)
    \/ \E i \in Install, k \in Key, s \in Slot : ClaimLapses(i, k, s)

Spec == Init /\ [][Next]_vars

\* The journal loop runs for ever, and the server is not down for ever
\* (faults are bounded).
FairSpec == Spec /\ \A i \in Install : WF_vars(Drain(i)) /\ WF_vars(Pull(i, "loop"))

-----------------------------------------------------------------------------
(* Properties.                                                             *)

\* Every variable keeps its type.
TypeOK ==
    /\ log \in Seq(Record) /\ floor \in 1..(Len(log) + 1)
    /\ outbox \in [Install -> Seq(Record)]
    /\ rows \in [Install -> [Key -> Table]]
    /\ deferred \in [Install -> SUBSET DOMAIN log]
    /\ cursor \in [Install -> 0..Len(log)]
    /\ ready \in [Install -> [Key -> {"nothing", "message", "folder"}]]
    /\ \A i \in Install, w \in Worker : frame[i][w].at \in
         {"idle", "retry", "retried", "fetch", "fetched", "applied",
          "claimed", "judge", "granted"}
    /\ now \in 0..Horizon
    /\ said \in [Install -> [Key -> {"none", "set", "cleared"}]]
    /\ brought \in [Key -> Nat]

\* Everything owed has gone up, and this install has read all of it.
Settled(i) ==
    /\ \A j \in Install : outbox[j] = <<>>
    /\ cursor[i] = Len(log)
    /\ deferred[i] = {}
    /\ \A w \in Worker : frame[i][w].at = "idle"

\* The deadlines an install holds for a conversation.
Held(i, k) == {rows[i][k][s].due : s \in Open(rows[i][k])}

\* What the users' own records about a conversation, in the log's order, come to.
Words(k) == {n \in DOMAIN log : /\ log[n].key = k /\ log[n].word
                                /\ log[n].op \in {"set", "cancel", "fired"}}
LastWord(k) ==
    LET last == {n \in Words(k) : \A m \in Words(k) : m <= n} IN
    {log[n].due : n \in {m \in last : log[m].op = "set"}}

\* "The last one about a given thing wins" (app/journal.py): an install that
\* has read everything holds exactly the reminder the last set left, and none
\* after a cancel or a firing; so all installs agree.
LastWordWins ==
    \A i \in Install : Settled(i) => \A k \in Key : Held(i, k) = LastWord(k)

\* A due reminder is brought back by one of the installs that hold it; what
\* goes wrong costs at most one more firing each ("firing twice is a bounded,
\* visible cost", app/journal.py).
FiredOnce == \A k \in Key : brought[k] <= 1 + faults

\* "No marking of some unrelated record that happened to be waiting": what the
\* server may prune behind is the last record of a snapshot.
SnapshotMarksItsOwn == \A n \in DOMAIN log : log[n].snapshot => log[n].op = "prefs"

\* "Nothing is pruned that a snapshot has not superseded": a reminder whose
\* last word set it is still told by a record the server holds.
NothingLost ==
    \A k \in Key : LastWord(k) # {} =>
      \E n \in floor..Len(log) : log[n].op = "set" /\ log[n].key = k

\* What was decided here reaches the log and every install, once the server
\* can be reached again, and waits there only for mail that is not there yet.
EverybodyHears ==
    <>[](\A i \in Install :
           /\ outbox[i] = <<>> /\ cursor[i] = Len(log)
           /\ \A n \in deferred[i] : ready[i][log[n].key] # "folder")

\* A reminder taken back here stays taken back while nobody else sets one.
ClearedIsGone ==
    \A i \in Install, k \in Key : said[i][k] = "cleared" => Open(rows[i][k]) = {}
=============================================================================
