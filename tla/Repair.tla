------------------------------- MODULE Repair -------------------------------
(***************************************************************************)
(* tools/repair_placements.py, run with --apply --forget beside a web app  *)
(* and an agent that keep working.                                         *)
(*                                                                         *)
(* Rows that are one message are merged, and placeholders (placements      *)
(* written ahead of a move that ended long ago) are dropped, or, where no  *)
(* folder holds the mail, the server is asked and the row deleted.  What   *)
(* the tool judges by it has read earlier; it locks the rows it merges or  *)
(* deletes and reads again what waits on them.                             *)
(*                                                                         *)
(* One account; all its mail carries one Message-ID, the case the tool is  *)
(* for.  Flags are in Placement, the walk's other storing in Content.      *)
(***************************************************************************)
EXTENDS Naturals, Sequences, FiniteSets

CONSTANTS
    Folder,
    All,            \* those with role "all"
    Letter(_),      \* the mail that some bytes are: Bridge writes one in several ways
    Starts,         \* what earlier versions may have left: see Init
    MaxUid, MaxRow, \* bounds: UIDs given out, Message rows
    Budgets         \* bounds: press, remind, world, fail

VARIABLES
    rows,           \* Message rows
    loc,            \* MessageLocation: a uid of 0 stands for the negative ones
    young,          \* the placeholders written or changed less than a day ago
    queue,          \* moves the agent may still act on
    ended,          \* of each row's last move: how long ago, and out of which folder
    reminder,       \* the row a pending reminder names, 0 if there is none
    copies,         \* the server's: [bytes, folder, uid]
    uidnext,
    pc,             \* what the tool is doing
    groups,         \* the sets of twins it has still to merge ...
    skip,           \* ... and the rows of those it leaves alone
    besides,        \* the placeholders it has still to drop
    nowhere,        \* the rows it has still to ask the server about
    asking,         \* the one it is asking about: its claims, folders left, held elsewhere
    backup,         \* letters written to the mbox
    left            \* what is left of the budget

mail == <<rows, loc, young, queue, ended, reminder>>
srv  == <<copies, uidnext>>
tool == <<pc, groups, skip, besides, nowhere, asking, backup>>
vars == <<mail, srv, tool, left>>

Rows     == DOMAIN rows
Live(r)  == rows[r].status # "gone"
Spend(k) == left[k] > 0 /\ left' = [left EXCEPT ![k] = @ - 1]

Ahead(r, f)  == [row |-> r, folder |-> f, uid |-> 0]
Real(r)      == {p \in loc : p.row = r /\ p.uid > 0}
Pending(r)   == {p \in loc : p.row = r /\ p.uid = 0}
Here(r, f)   == \E p \in Real(r) : p.folder = f
Backs(a, p)  == p.uid = 0 /\ a.row = p.row /\ a.to = p.folder
NotAsked     == [row |-> 0, claims |-> {}, folders |-> {}, held |-> FALSE]

\* Rows, the server's copies of them and more, and placeholders nothing stands behind.
Init ==
    /\ \E s \in Starts :
        /\ rows = s.rows
        /\ loc = {Ahead(p[1], p[2]) : p \in s.ahead} \cup s.real
        /\ copies = s.more \cup {[bytes |-> s.rows[p.row].bytes, folder |-> p.folder, uid |-> p.uid] :
                                 p \in s.real}
        /\ uidnext = Cardinality(copies) + 1
        /\ ended = [r \in 1..MaxRow |-> [ago |-> "never", from |-> s.from]]
    /\ young = {} /\ queue = {} /\ reminder = 0
    /\ pc = "off" /\ groups = {} /\ skip = {} /\ besides = {} /\ nowhere = {}
    /\ asking = NotAsked /\ backup = {} /\ left \in Budgets

(***************************************************************************)
(* The web app, the agent and the server, meanwhile.                       *)
(***************************************************************************)
\* A placeholder that goes takes its id with it: the tool finds nothing under it.
Retire(ps) == besides' = {b \in besides : \A p \in ps : b.row # p.row \/ b.folder # p.folder}

\* place_pending: the placeholder that is there already, a new one, or none beside
\* the server's own.
Placed(r, g) == IF Here(r, g) THEN {} ELSE {Ahead(r, g)}

\* move_to, out of a folder the server has it in ...
Press(p, g) ==
    /\ p \in loc /\ p.uid > 0 /\ p.folder \notin All /\ g # p.folder /\ Spend("press")
    /\ queue' = queue \cup {[row |-> p.row, from |-> p.folder, uid |-> p.uid, to |-> g]}
    /\ loc' = (loc \ {p}) \cup Placed(p.row, g)
    /\ young' = young \cup (Placed(p.row, g) \ loc)
    /\ UNCHANGED <<rows, ended, reminder, srv, tool>>

\* ... or, of mail nothing is queued for, out of one it is only said to be in.
Refile(p, g) ==
    /\ p \in loc /\ p.uid = 0 /\ g # p.folder /\ Spend("press")
    /\ ~\E a \in queue : a.row = p.row
    /\ loc' = (loc \ {p}) \cup Placed(p.row, g)
    /\ young' = (young \cup (Placed(p.row, g) \ loc)) \ {p} /\ Retire({p})
    /\ UNCHANGED <<rows, queue, ended, reminder, srv, pc, groups, skip, nowhere, asking, backup>>

Remind(r) ==
    /\ r \in Rows /\ Live(r) /\ reminder = 0 /\ Spend("remind") /\ reminder' = r
    /\ UNCHANGED <<rows, loc, young, queue, ended, srv, tool>>

Fires ==
    /\ reminder # 0 /\ reminder' = 0
    /\ UNCHANGED <<rows, loc, young, queue, ended, srv, tool, left>>

Ended(a) == ended' = [ended EXCEPT ![a.row] = [ago |-> "today", from |-> a.from]]

\* apply_action: the move on the server; one whose mail is gone is stale, and its
\* placeholder with it.
Apply(a) ==
    /\ a \in queue /\ queue' = queue \ {a} /\ Ended(a)
    /\ \/ \E c \in copies : /\ c.folder = a.from /\ c.uid = a.uid /\ uidnext <= MaxUid
                            /\ copies' = (copies \ {c}) \cup {[c EXCEPT !.folder = a.to, !.uid = uidnext]}
                            /\ uidnext' = uidnext + 1
          /\ UNCHANGED <<loc, young, besides>>
       \/ /\ \A c \in copies : c.folder # a.from \/ c.uid # a.uid
          /\ loc' = loc \ {Ahead(a.row, a.to)} /\ young' = young \ {Ahead(a.row, a.to)}
          /\ Retire({Ahead(a.row, a.to)}) /\ UNCHANGED srv
    /\ UNCHANGED <<rows, reminder, pc, groups, skip, nowhere, asking, backup, left>>

\* The row of these bytes: the one the Message-ID names, if it is it, or one filed
\* under its bytes.
Holding(b) ==
    LET same == {r \in Rows : Live(r) /\ rows[r].bytes = b}
        own  == {r \in same : rows[r].own}
    IN IF own # {} THEN own ELSE same

\* ingest_raw and upsert_location, for a copy that has no placement yet.
Walk(c) ==
    /\ c \in copies /\ \A p \in loc : p.uid # c.uid
    /\ \/ Holding(c.bytes) = {} /\ Len(rows) < MaxRow
          /\ rows' = Append(rows, [bytes |-> c.bytes, status |-> "full",
                                   own |-> ~\E r \in Rows : Live(r) /\ rows[r].own])
          /\ loc' = loc \cup {[row |-> Len(rows) + 1, folder |-> c.folder, uid |-> c.uid]}
          /\ UNCHANGED <<young, besides>>
       \/ \E r \in Holding(c.bytes) :
          /\ rows' = [rows EXCEPT ![r].status = "full"]
          /\ loc' = (loc \ {Ahead(r, c.folder)})
                    \cup {[row |-> r, folder |-> c.folder, uid |-> c.uid]}
          /\ young' = young \ {Ahead(r, c.folder)} /\ Retire({Ahead(r, c.folder)})
    /\ UNCHANGED <<queue, ended, reminder, srv, pc, groups, skip, nowhere, asking, backup, left>>

\* prune_vanished
Vanish(p) ==
    /\ p \in loc /\ p.uid > 0 /\ \A c \in copies : c.uid # p.uid
    /\ loc' = loc \ {p}
    /\ UNCHANGED <<rows, young, queue, ended, reminder, srv, tool, left>>

Elsewhere(c) ==
    /\ c \in copies /\ Spend("world")
    /\ \/ copies' = copies \ {c} /\ UNCHANGED uidnext
       \/ \E g \in Folder \ {c.folder} :
          /\ uidnext <= MaxUid /\ uidnext' = uidnext + 1
          /\ copies' = (copies \ {c}) \cup {[c EXCEPT !.folder = g, !.uid = uidnext]}
    /\ UNCHANGED <<mail, tool>>

Day ==
    /\ young' = {}
    /\ ended' = [r \in DOMAIN ended |->
                    IF ended[r].ago = "today" THEN [ended[r] EXCEPT !.ago = "days"] ELSE ended[r]]
    /\ UNCHANGED <<rows, loc, queue, reminder, srv, tool, left>>

(***************************************************************************)
(* The tool: merging.                                                      *)
(***************************************************************************)
\* The bytes without what Bridge makes up.
bridge_neutral_key(b) == Letter(b)

_busy(rs) == reminder \in rs \/ \E a \in queue : a.row \in rs

Twins(a, b) ==
    /\ Live(a) /\ Live(b)
    /\ \/ rows[a].bytes = rows[b].bytes
       \/ /\ rows[a].status = "full" /\ rows[b].status = "full"
          /\ bridge_neutral_key(rows[a].bytes) = bridge_neutral_key(rows[b].bytes)
\* union-find over at most MaxRow rows
Joined(a, b) == \E s \in SUBSET Rows : {a, b} \subseteq s /\ \A t \in SUBSET s :
                    t # {} /\ t # s => \E x \in t, y \in s \ t : Twins(x, y)

_keeper_first(rs) ==
    LET full == {r \in rs : rows[r].status = "full"}
        best == IF full = {} THEN rs ELSE full
        own  == {r \in best : rows[r].own}
    IN CHOOSE r \in IF own = {} THEN best ELSE own :
           \A q \in IF own = {} THEN best ELSE own : r <= q

find_duplicates ==
    /\ pc = "off" /\ pc' = "merge"
    /\ LET sets == {g \in SUBSET {r \in Rows : Live(r)} :
                       /\ Cardinality(g) > 1
                       /\ \E a \in g : g = {b \in Rows : Live(b) /\ Joined(a, b)}}
       IN /\ groups' = {[keeper |-> _keeper_first(g), all |-> g] : g \in {g \in sets : ~_busy(g)}}
          /\ skip' = UNION {g \in sets : _busy(g)}
    /\ UNCHANGED <<mail, srv, besides, nowhere, asking, backup, left>>

\* The placements of a group, on its keeper.
Folded(g) ==
    LET ours == {p \in loc : p.row \in g.all}
        real == {p.folder : p \in {p \in ours : p.uid > 0}}
        own  == {p \in Pending(g.keeper) : Here(g.keeper, p.folder)}
    IN {[p EXCEPT !.row = g.keeper] : p \in {p \in ours : p.uid > 0 \/ p.folder \notin real}} \cup own

merge(g) ==
    /\ pc = "merge" /\ g \in groups /\ groups' = groups \ {g}
    /\ \/ _busy(g.all) /\ skip' = skip \cup g.all /\ UNCHANGED mail
       \/ /\ ~_busy(g.all)
          /\ loc' = {p \in loc : p.row \notin g.all} \cup Folded(g)
          /\ young' = {p \in young : p.row \notin g.all}
                      \cup {p \in Folded(g) : p.uid = 0 /\ p \notin loc}
          /\ rows' = [r \in Rows |-> IF r \in g.all \ {g.keeper}
                                     THEN [rows[r] EXCEPT !.status = "gone"] ELSE rows[r]]
          /\ ended' = [ended EXCEPT ![g.keeper] =
                IF \E r \in g.all \ {g.keeper} : ended[r].ago # "never"
                THEN [@ EXCEPT !.ago = "today"] ELSE @]         \* updated_at, on an update
          /\ UNCHANGED <<queue, reminder, skip>>
    /\ UNCHANGED <<srv, pc, besides, nowhere, asking, backup, left>>

(***************************************************************************)
(* Placeholders.                                                           *)
(***************************************************************************)
find_placeholders ==
    /\ pc = "merge" /\ groups = {} /\ pc' = "drop"
    /\ LET judged == {p \in loc : /\ p.uid = 0 /\ p.row \notin skip /\ p \notin young
                                  /\ ended[p.row].ago # "today"
                                  /\ \A a \in queue : a.row # p.row}
       IN /\ besides' = {p \in judged : Real(p.row) # {}}
          /\ nowhere' = {[row |-> p.row, claims |-> {q.folder : q \in {q \in judged : q.row = p.row}},
                          from |-> ended[p.row].from] : p \in {p \in judged : Real(p.row) = {}}}
    /\ UNCHANGED <<mail, srv, groups, skip, asking, backup, left>>

\* One the server's own placements answer for: whatever stands under its id by now.
drop(p) ==
    /\ pc = "drop" /\ p \in besides /\ besides' = besides \ {p}
    /\ loc' = loc \ {p} /\ young' = young \ {p}
    /\ UNCHANGED <<rows, queue, ended, reminder, srv, pc, groups, skip, nowhere, asking, backup, left>>

\* Left alone, and the next one.
Spared == asking' = NotAsked /\ pc' = "forget"

Dropped ==
    /\ pc = "drop" /\ besides = {} /\ pc' = "forget"
    /\ UNCHANGED <<mail, srv, groups, skip, besides, nowhere, asking, backup, left>>

_held_elsewhere(r) == \E p \in loc : p.uid > 0 /\ p.row # r

\* One verdict per message, if nothing waits on it and its bytes are here.
forget(n) ==
    /\ pc = "forget" /\ n \in nowhere /\ nowhere' = nowhere \ {n}
    /\ IF _busy({n.row}) \/ rows[n.row].status # "full" THEN UNCHANGED <<pc, asking>>
       ELSE /\ pc' = "ask"
            /\ asking' = [row |-> n.row, claims |-> n.claims, held |-> _held_elsewhere(n.row),
                          folders |-> (n.claims \cup All \cup {n.from}) \cap Folder]
    /\ UNCHANGED <<mail, srv, groups, skip, besides, backup, left>>

\* _server_has: it is there, there is something nobody can explain, or it is not.
Ask(f) ==
    LET there == {c \in copies : c.folder = f}
        it    == {c \in there : bridge_neutral_key(c.bytes) = bridge_neutral_key(rows[asking.row].bytes)}
    IN
    /\ pc = "ask" /\ f \in asking.folders
    /\ IF it # {} \/ (there # {} /\ ~asking.held) THEN Spared
       ELSE asking' = [asking EXCEPT !.folders = @ \ {f}] /\ UNCHANGED pc
    /\ UNCHANGED <<mail, srv, groups, skip, besides, nowhere, backup, left>>

\* A folder that will not open, or a backup that cannot be written.
Doubt ==
    /\ pc = "ask" /\ Spend("fail") /\ Spared
    /\ UNCHANGED <<mail, srv, groups, skip, besides, nowhere, backup>>

\* Variant: what was true before the server was asked.
asked_before(r) == FALSE

Changed(r) == _busy({r}) \/ Real(r) # {}

\* Locked, checked again, written to the mbox, deleted, and what hung on it with it.
Forgotten ==
    LET r == asking.row IN
    /\ pc = "ask" /\ asking.folders = {} /\ Spared
    /\ IF Changed(r) THEN UNCHANGED <<rows, loc, young, queue, reminder, backup>>
       ELSE /\ backup' = backup \cup {Letter(rows[r].bytes)}
            /\ rows' = [rows EXCEPT ![r].status = "gone"]
            /\ loc' = {p \in loc : p.row # r} /\ young' = {p \in young : p.row # r}
            /\ queue' = {a \in queue : a.row # r}
            /\ reminder' = IF reminder = r THEN 0 ELSE reminder
    /\ UNCHANGED <<ended, srv, groups, skip, besides, nowhere, left>>

-----------------------------------------------------------------------------
Tool ==
    \/ find_duplicates \/ (\E g \in groups : merge(g))
    \/ find_placeholders \/ (\E p \in besides : drop(p)) \/ Dropped
    \/ (\E n \in nowhere : forget(n)) \/ (\E f \in Folder : Ask(f)) \/ Doubt \/ Forgotten

Next ==
    \/ Tool \/ Fires \/ Day
    \/ \E p \in loc, g \in Folder : Press(p, g) \/ Refile(p, g)
    \/ \E r \in Rows : Remind(r)
    \/ \E a \in queue : Apply(a)
    \/ \E c \in copies : Walk(c) \/ Elsewhere(c)
    \/ \E p \in loc : Vanish(p)

Spec == Init /\ [][Next]_vars

\* A row goes only while nothing waits on it, a queued move or a reminder, whenever
\* that began; its mail stays, as complete as it was, in a row that takes its place or
\* in the backup; and every placement the server confirmed is on that row (merge,
\* forget: what was read before the lock is read again under it).
Replaced(r) ==
    /\ ~_busy({r})
    /\ \/ Letter(rows[r].bytes) \in backup' /\ Real(r) = {}
       \/ \E q \in Rows \ {r} :
             /\ Live(q)' /\ Letter(rows[q].bytes) = Letter(rows[r].bytes)
             /\ rows[r].status = "full" => rows'[q].status = "full"
             /\ \A p \in Real(r) : [p EXCEPT !.row = q] \in loc'
Replaces  == \A r \in Rows : Live(r) /\ ~Live(r)' => Replaced(r)
Accounted == [][Replaces]_vars

\* The tool takes no placeholder a queued move stands behind ("Every row is locked
\* before it is merged or deleted, so the agent can keep running").
LeavesQueued == [][\A a \in queue, p \in loc : Backs(a, p) /\ Tool => p \in loc']_vars
=============================================================================
