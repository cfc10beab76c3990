------------------------------ MODULE Folders ------------------------------
(***************************************************************************)
(* The folder tree of one account: folders the server lists, folders made  *)
(* here for mail imported off disk, and what happens to the mail in them.  *)
(*                                                                         *)
(* A pass of the agent drains the queue, LISTs, walks each folder listed,  *)
(* and removes a folder only once it has been missing for MISSING_GRACE: a *)
(* server that is still loading answers LIST and is believed about what it *)
(* names, not about what it leaves out.  An imported account has no agent: *)
(* its folders are rows, written and deleted on the spot, until an agent is*)
(* configured for its address (get_or_create_account).                     *)
(*                                                                         *)
(* A UID is a position in the folder's list; epochs, flags and undo are in *)
(* Placement, leases and retries of the queue in Outbox.                   *)
(***************************************************************************)
EXTENDS Integers, FiniteSets, Sequences, SequencesExt

CONSTANTS
    Folder, Mail,
    Parent(_),        \* the folder a name is nested in, or the folder itself
    Role(_),          \* what the name says it is for (derive_role)
    None,             \* no mail at this UID any more
    SameNames,        \* may the server have folders named like those made here?
    MissingGrace,     \* MISSING_GRACE, in ticks of the clock
    OrphanGrace,      \* ORPHAN_GRACE, in ticks
    MaxUid,           \* bound: UIDs a folder hands out
    Budgets           \* bounds: how often press, world, load and fail may happen

ASSUME TreeAssumption  == \A f \in Folder : Parent(f) \in Folder
ASSUME ClockAssumption == MissingGrace \in Nat /\ OrphanGrace \in Nat
ASSUME UidAssumption   == MaxUid \in Nat \ {0} /\ None \notin Mail

VARIABLES
    exists,       \* folders on the server
    held,         \* each one's mail, by UID
    takesAll,     \* will the server file mail into All Mail (Gmail), or not (Proton)?
    loading,      \* may LIST leave folders out just now?
    imported,     \* Account.local
    row,          \* Mailbox rows
    place,        \* MessageLocation rows; UID 0 is a placement ahead of the server
    stored,       \* Message rows
    idle,         \* how long ago each was stored, up to OrphanGrace
    asks,         \* create_folder rows
    moves,        \* move rows
    pass,         \* the pass the agent is making
    unlisted,     \* history: how long ago a LIST that was walked named the folder
    mixed,        \* history: folders where invented UIDs met the server's
    strayed,      \* history: did a move take other mail than the one it was queued for?
    left          \* what is left of the budget

server == <<exists, held, takesAll, loading>>
db     == <<imported, row, place, stored, idle, asks, moves>>
past   == <<unlisted, mixed, strayed>>
vars   == <<server, db, pass, past, left>>

NoRow    == [there |-> FALSE, local |-> FALSE, missing |-> -1, last_uid |-> 0, refused |-> FALSE]
NoPass   == [pc |-> "idle", listed |-> {}, todo |-> {}, sweep |-> FALSE]
Rows     == {f \in Folder : row[f].there}
Loc(m, f, u) == [mail |-> m, box |-> f, uid |-> u]
Ahead(m, f)  == Loc(m, f, 0)
In(m)        == {l.box : l \in {x \in place : x.mail = m}}
Listed(f)    == IF f \in exists THEN {u \in DOMAIN held[f] : held[f][u] # None} ELSE {}
Spend(k)     == left[k] > 0 /\ left' = [left EXCEPT ![k] = @ - 1]
Fresh(ms)    == [m \in Mail |-> IF m \in ms THEN 0 ELSE idle[m]]
MakeRow(f, local) == [NoRow EXCEPT !.there = TRUE, !.local = local]
\* A folder and the folders it is nested in, those that are to exist.
Upward(f)    == {f, Parent(f)}
Add(f, m)    == Append(held[f], m)

\* ON DELETE CASCADE: the rows that name a message go with it.
Cascade(gone) == moves' = {a \in moves : a.mail \notin gone}

Init ==
    /\ imported \in BOOLEAN /\ takesAll \in BOOLEAN /\ loading = FALSE
    /\ exists = {f \in Folder : Role(f) \in {"inbox", "all"}}
    /\ held \in [Folder -> {<<>>} \cup {<<m>> : m \in Mail}]
    /\ \A f \in Folder : held[f] # <<>> => Role(f) = "inbox"
    /\ row = [f \in Folder |-> NoRow] /\ place = {} /\ stored = {}
    /\ idle = [m \in Mail |-> 0] /\ asks = {} /\ moves = {} /\ pass = NoPass
    /\ unlisted = [f \in Folder |-> 0] /\ mixed = {} /\ strayed = FALSE
    /\ left \in Budgets

(***************************************************************************)
(* The browser and the importer.                                           *)
(***************************************************************************)
\* ensure_local_folder: a row for every level of the name, all of them local.
ensure_local_folder(rows, f) ==
    [g \in Folder |-> IF g \in Upward(f) /\ ~rows[g].there THEN MakeRow(g, TRUE) ELSE rows[g]]

create_mailbox(f) ==
    /\ ~row[f].there                                       \* else 409
    /\ \/ imported /\ row' = ensure_local_folder(row, f) /\ UNCHANGED asks
       \/ ~imported /\ f \notin asks /\ asks' = asks \cup {f} /\ UNCHANGED row
    /\ Spend("press")
    /\ UNCHANGED <<server, imported, place, stored, idle, moves, pass, past>>

\* tools/import_mbox.py: UIDs of our own making, carried on from the folder's cursor.
import(m, f) ==
    /\ imported /\ f \notin In(m) /\ row[f].last_uid < MaxUid
    /\ SameNames \/ f \notin exists
    /\ LET rows == ensure_local_folder(row, f) IN
       /\ row' = [rows EXCEPT ![f].last_uid = @ + 1]
       /\ place' = place \cup {Loc(m, f, rows[f].last_uid + 1)}
    /\ stored' = stored \cup {m} /\ idle' = Fresh({m} \ stored)
    /\ Spend("press")
    /\ UNCHANGED <<server, imported, asks, moves, pass, past>>

\* Variant: the placements go by the foreign key, the messages stay.
drop_rows(locs) == place' = place \ locs /\ UNCHANGED <<stored, moves>>

\* A message left with no placement goes with the folder (mailops.purge).
purge(locs) ==
    LET gone == {l.mail : l \in locs} \ {l.mail : l \in place \ locs} IN
    place' = place \ locs /\ stored' = stored \ gone /\ Cascade(gone)

_subtree(f) == {g \in Rows : g = f \/ (Parent(g) = f /\ row[f].there)}

delete_mailbox(f) ==
    /\ imported /\ row[f].there                            \* else 400, 404
    /\ purge({l \in place : l.box \in _subtree(f)})
    /\ row' = [g \in Folder |-> IF g \in _subtree(f) THEN NoRow ELSE row[g]]
    /\ Spend("press")
    /\ UNCHANGED <<server, imported, idle, asks, pass, past>>

role_mailbox(r) == {f \in Rows : Role(f) = r}

\* archive_mailbox: the archive folder, or All Mail where the server never refused it.
archive_mailbox ==
    IF role_mailbox("archive") # {} THEN role_mailbox("archive")
    ELSE {f \in role_mailbox("all") : ~row[f].refused}

\* trash_mailbox: made on the spot where the folders are ours.
trash_mailbox ==
    IF role_mailbox("trash") # {} \/ ~imported THEN role_mailbox("trash")
    ELSE {f \in Folder : Role(f) = "trash"}

\* move_to, of one placement.  One that is ahead of the server, or still on its
\* way, is Placement's subject.
move_to(l, to) ==
    /\ to # l.box /\ l.uid # 0
    /\ ~ \E x \in place : x.mail = l.mail /\ x.box = to
    /\ LET rows == IF imported THEN ensure_local_folder(row, to) ELSE row IN
       IF imported
       THEN /\ rows[to].last_uid < MaxUid
            /\ row' = [rows EXCEPT ![to].last_uid = @ + 1]
            /\ place' = (place \ {l}) \cup {Loc(l.mail, to, rows[to].last_uid + 1)}
            /\ UNCHANGED moves
       ELSE /\ place' = (place \ {l}) \cup {Ahead(l.mail, to)}
            /\ moves' = moves \cup {[mail |-> l.mail, from |-> l.box, uid |-> l.uid,
                                     to |-> to, status |-> "pending", age |-> 0]}
            /\ UNCHANGED row

File(l) ==
    /\ \E to \in archive_mailbox \cup trash_mailbox : move_to(l, to)
    /\ Spend("press")
    /\ UNCHANGED <<server, imported, stored, idle, asks, pass, past>>

(***************************************************************************)
(* The mail server, and everyone else who uses it.                         *)
(***************************************************************************)
World ==
    \/ \E f \in Folder \ exists :                      \* a folder made elsewhere
          /\ SameNames \/ ~row[f].local
          /\ Parent(f) \in exists \cup {f}
          /\ exists' = exists \cup {f} /\ UNCHANGED held
    \/ \E f \in exists :                               \* deleted, with what is nested in it
          /\ Role(f) \notin {"inbox", "all"}
          /\ exists' = {g \in exists : f \notin Upward(g)}
          /\ held' = [g \in Folder |-> IF f \in Upward(g) THEN <<>> ELSE held[g]]
    \/ \E f \in exists, m \in Mail :                   \* mail arrives
          /\ Len(held[f]) < MaxUid /\ \A g \in exists : m \notin Range(held[g])
          /\ held' = [held EXCEPT ![f] = Add(f, m)] /\ UNCHANGED exists
    \/ \E f \in exists : \E u \in Listed(f) :          \* mail is deleted
          held' = [held EXCEPT ![f][u] = None] /\ UNCHANGED exists
    \/ \E f, g \in exists : \E u \in Listed(f) :       \* or filed
          /\ f # g /\ "all" \notin {Role(f), Role(g)} /\ Len(held[g]) < MaxUid
          /\ held' = [held EXCEPT ![g] = Add(g, held[f][u]), ![f][u] = None] /\ UNCHANGED exists

Elsewhere == World /\ Spend("world") /\ UNCHANGED <<takesAll, loading, db, pass, past>>

\* Proton Bridge restarts: LIST answers with what it has loaded so far.
Restarts == ~loading /\ loading' = TRUE /\ Spend("load")
            /\ UNCHANGED <<exists, held, takesAll, db, pass, past>>
Loaded   == loading /\ loading' = FALSE
            /\ UNCHANGED <<exists, held, takesAll, db, pass, past, left>>

Older(n, top) == IF n < 0 THEN n ELSE IF n < top THEN n + 1 ELSE n

Tick ==
    /\ row' = [f \in Folder |-> [row[f] EXCEPT !.missing = Older(@, MissingGrace)]]
    /\ idle' = [m \in Mail |-> Older(idle[m], OrphanGrace)]
    /\ moves' = {[a EXCEPT !.age = Older(@, OrphanGrace)] : a \in moves}
    /\ unlisted' = [f \in Folder |-> Older(unlisted[f], MissingGrace)]
    /\ <<row, idle, moves, unlisted>>' # <<row, idle, moves, unlisted>>
    /\ UNCHANGED <<server, imported, place, stored, asks, pass, mixed, strayed, left>>

(***************************************************************************)
(* The agent: one pass, which may die between any two of its steps.        *)
(***************************************************************************)
StartPass ==
    /\ pass = NoPass
    /\ pass' = [NoPass EXCEPT !.pc = "drain"]
    /\ imported' = FALSE                                   \* get_or_create_account
    /\ UNCHANGED <<server, row, place, stored, idle, asks, moves, past, left>>

\* create_folder: each level in turn, those that are there already passed over;
\* parents are made even where the last level then fails.
create_folder(f) ==
    /\ pass.pc = "drain" /\ f \in asks
    /\ \/ exists' = exists \cup Upward(f) /\ asks' = asks \ {f} /\ UNCHANGED left
       \/ exists' = exists \cup {Parent(f)} /\ UNCHANGED asks /\ Spend("fail")
    /\ UNCHANGED <<held, takesAll, loading, imported, row, place, stored, idle, moves, pass, past>>

Undone(a) == place' = place \ {Ahead(a.mail, a.to)}
Settled(a, status) == moves' = (moves \ {a}) \cup {[a EXCEPT !.status = status, !.age = 0]}

\* MOVE, or COPY where the mail leaves All Mail, which nothing can be taken out of.
Moved(a) ==
    LET m == held[a.from][a.uid] IN
    held' = [held EXCEPT ![a.to] = Append(@, m),
                         ![a.from] = IF Role(a.from) = "all" THEN @ ELSE [@ EXCEPT ![a.uid] = None]]

\* apply_action of a move.  Into or out of a folder the server does not have it is
\* tried for good, and after some tries (STUCK_AFTER) believed on its way no more.
apply_move(a) ==
    /\ pass.pc = "drain" /\ a \in moves /\ a.status \in {"pending", "stuck"}
    /\ \/ /\ {a.from, a.to} \ exists # {} /\ a.status = "pending" /\ Settled(a, "stuck")
          /\ UNCHANGED <<held, row, place, strayed>>
       \/ /\ a.uid \in Listed(a.from) /\ a.to \in exists /\ Len(held[a.to]) < MaxUid
          /\ Role(a.to) = "all" => takesAll
          /\ Moved(a) /\ moves' = moves \ {a}
          /\ strayed' = (strayed \/ held[a.from][a.uid] # a.mail)
          /\ UNCHANGED <<row, place>>
       \/ /\ a.from \in exists /\ a.uid \notin Listed(a.from)
          /\ a.uid \in DOMAIN held[a.from]                 \* below UIDNEXT
          /\ \/ /\ a.to \in exists /\ a.mail \in Range(held[a.to])      \* _copy_landed
                /\ moves' = moves \ {a} /\ UNCHANGED place
             \/ /\ a.to \in exists /\ a.mail \notin Range(held[a.to])   \* SourceGone
                /\ Settled(a, "stale") /\ Undone(a)
          /\ UNCHANGED <<held, row, strayed>>
       \/ /\ a.uid \in Listed(a.from) /\ Role(a.to) = "all" /\ ~takesAll
          /\ row[a.to].there                               \* _permanent_refusal
          /\ Settled(a, "refused") /\ Undone(a)
          /\ row' = [row EXCEPT ![a.to].refused = TRUE]     \* _mark_write_refused
          /\ UNCHANGED <<held, strayed>>
    /\ UNCHANGED <<exists, takesAll, loading, imported, stored, idle, asks, pass, unlisted,
                   mixed, left>>

\* bridge.list_folders.  Whether this pass also sweeps is the clock's to say.
list_folders ==
    /\ pass.pc = "drain"
    /\ \E answer \in IF loading THEN SUBSET exists ELSE {exists}, sweep \in BOOLEAN :
          pass' = [pc |-> "walk", listed |-> answer, todo |-> answer, sweep |-> sweep]
    /\ UNCHANGED <<server, db, past, left>>

\* register_folder, for a name LIST gave.  A row made here stays marked local.
register_folder(f) == IF row[f].there THEN row[f] ELSE MakeRow(f, imported)

\* What the walk and the restore of the sweep bring in: mail by the UID it now
\* has, in the place of whatever had that UID here, and of the placement ahead.
Arrivals(f, new)  == {Loc(held[f][u], f, u) : u \in new}
Replaced(f, new)  == {l \in place : l.box = f /\ (l.uid \in new
                                     \/ (l.uid = 0 /\ l.mail \in {held[f][u] : u \in new}))}
\* has_move_in_flight, uids_with_write_in_flight
InFlight(m, f, u) == \E a \in moves : a.status = "pending"
                                       /\ (a.mail = m \/ (a.from = f /\ a.uid = u))

\* Variant: the sweep does not look for what is missing below the cursor.
new_only(f) == {u \in Listed(f) : u > register_folder(f).last_uid}

\* _sync_new above the cursor; _restore_unplaced, in a sweep, below it.
wanted(f) ==
    new_only(f) \cup
    {u \in Listed(f) : pass.sweep /\ ~InFlight(held[f][u], f, u)
                       /\ ~ \E l \in place : l.box = f /\ l.uid = u}

\* One folder: register, walk, sweep.  What is pruned is what the server's list
\* lacks; a list shorter than EXISTS prunes nothing (Placement).
walk(f) ==
    /\ pass.pc = "walk" /\ f \in pass.todo /\ f \in exists
    /\ LET new  == wanted(f)
           now  == (place \ Replaced(f, new)) \cup Arrivals(f, new)
           away == {l \in now : pass.sweep /\ l.box = f /\ l.uid # 0 /\ l.uid \notin Listed(f)}
           gone == {l.mail : l \in away} \ {l.mail : l \in now \ away}
           here == {held[f][u] : u \in new}
       IN
       /\ row' = [row EXCEPT ![f] = [register_folder(f) EXCEPT !.last_uid =
                     IF Len(held[f]) > @ THEN Len(held[f]) ELSE @]]
       /\ place' = now \ away
       /\ stored' = (stored \cup here) \ gone
       /\ idle' = Fresh(here \ stored)
       /\ Cascade(gone)
    /\ mixed' = IF row[f].local THEN mixed \cup {f} ELSE mixed
    /\ pass' = [pass EXCEPT !.todo = @ \ {f}]
    /\ UNCHANGED <<server, imported, asks, unlisted, strayed, left>>

\* Variant: a folder that has come back keeps the mark of when it went.
mark_kept(f) == IF row[f].local \/ row[f].missing >= 0 \/ f \in pass.listed
                THEN row[f].missing ELSE 0

\* The mark of a folder after this LIST: when it was first missed, cleared when it
\* is back; a folder made here is not expected to be listed.
mark(f) == IF f \in pass.listed THEN -1
           ELSE IF row[f].local \/ row[f].missing >= 0 THEN row[f].missing ELSE 0

\* Folders missing for long enough to be believed.
overdue == {f \in Rows \ pass.listed : ~row[f].local /\ row[f].missing >= MissingGrace}

\* delete_orphan_messages: mail in no folder, that nothing queued still names.  A
\* stale row lets go after the grace, a refused one never.
unplaced(p, s) ==
    {m \in s : /\ idle[m] = OrphanGrace /\ ~ \E l \in p : l.mail = m
               /\ ~ \E a \in moves : a.mail = m /\ ~(a.status = "stale" /\ a.age = OrphanGrace)}

\* prune_mailboxes and delete_orphan_messages, the end of a pass that walked
\* every folder.  A LIST that named nothing is no evidence about folders.
prune ==
    /\ pass.pc = "walk" /\ pass.todo = {}
    /\ LET out  == IF pass.listed = {} THEN {} ELSE overdue
           locs == {l \in place : l.box \in out}
           kept == place \ locs
           lost == {l.mail : l \in locs} \ {l.mail : l \in kept}
           gone == lost \cup unplaced(kept, stored \ lost)
       IN
       /\ row' = [f \in Folder |->
                     IF f \in out \/ ~row[f].there THEN NoRow
                     ELSE IF pass.listed = {} THEN row[f] ELSE [row[f] EXCEPT !.missing = mark(f)]]
       /\ place' = kept /\ stored' = stored \ gone /\ Cascade(gone)
    /\ unlisted' = [f \in Folder |-> IF f \in pass.listed THEN 0 ELSE unlisted[f]]
    /\ pass' = NoPass
    /\ UNCHANGED <<server, imported, idle, asks, mixed, strayed, left>>

\* The connection drops, a folder is gone when it is opened, the process dies.
dies ==
    /\ pass # NoPass /\ pass' = NoPass
    /\ \/ Spend("fail")
       \/ pass.todo # {} /\ pass.todo \cap exists = {} /\ UNCHANGED left
    /\ UNCHANGED <<server, db, past>>

Agent == \/ StartPass \/ list_folders \/ prune
         \/ \E f \in Folder : create_folder(f) \/ walk(f)
         \/ \E a \in moves : apply_move(a)

Next ==
    \/ Agent \/ dies \/ Elsewhere \/ Restarts \/ Loaded \/ Tick
    \/ \E f \in Folder : create_mailbox(f) \/ delete_mailbox(f)
    \/ \E f \in Folder, m \in Mail : import(m, f)
    \/ \E l \in place : File(l)

Spec == Init /\ [][Next]_vars

\* The agent's loop runs for as long as an account is configured, sweeps as often
\* as its interval says, and its drain reaches every row of the queue; a server
\* that is loading is ready in the end.
Fairness ==
    /\ WF_vars(StartPass) /\ WF_vars(prune) /\ WF_vars(Tick) /\ WF_vars(Loaded)
    /\ WF_vars(dies /\ left' = left) /\ WF_vars(list_folders)
    /\ SF_vars(\E a \in moves : apply_move(a))
    /\ SF_vars(list_folders /\ pass'.sweep /\ pass'.listed = exists)
    /\ SF_vars(\E f \in asks : create_folder(f) /\ f \notin asks')
    /\ \A f \in Folder : WF_vars(walk(f))

(***************************************************************************)
(* Properties.                                                             *)
(***************************************************************************)
TypeOK ==
    /\ exists \subseteq Folder /\ held \in [Folder -> Seq(Mail \cup {None})]
    /\ \A f \in Folder : f \notin exists => held[f] = <<>>
    /\ row \in [Folder -> [there : BOOLEAN, local : BOOLEAN, missing : -1..MissingGrace,
                           last_uid : 0..MaxUid, refused : BOOLEAN]]
    /\ \A l \in place : l.mail \in stored /\ row[l.box].there
    /\ \A a \in moves : a.mail \in stored

\* A folder is dropped from the tree, with its mail, only on the strength of LISTs
\* that have left it out for the whole of MISSING_GRACE, and never when it was
\* made here: a server still loading, that names a few of its folders, then the
\* rest, then a few again, costs nothing (prune_mailboxes).
Evident ==
    \A f \in Folder : row[f].there /\ ~row'[f].there /\ ~imported
        => ~row[f].local /\ unlisted[f] >= MissingGrace
PrunedOnEvidence == [][Evident]_vars

\* On an account no agent syncs every message is filed somewhere, so that what a
\* deleted folder was the last home of goes with it (delete_mailbox, purge).
NothingUnfiled == imported => \A m \in stored : In(m) # {}

\* A move takes the mail it was queued for, and no other.
MovesItsOwn == ~strayed

\* Once the server and the user leave it alone, the tree shows the folders the
\* server has and those made here, and every mail the server holds is filed in
\* the folder it is held in.
TreeIsSettled ==
    /\ \A f \in Folder : row[f].there <=> (f \in exists \/ row[f].local)
    /\ \A f \in exists \ mixed : \A u \in Listed(f) : Loc(held[f][u], f, u) \in place
=============================================================================
