----------------------------- MODULE Placement -----------------------------
(***************************************************************************)
(* Filing mail, and the two-way mirror of one account's folders.           *)
(*                                                                         *)
(* A key press moves a message here at once: its placement goes, one       *)
(* "ahead" of the server is written into the target, and a row in          *)
(* pending_actions tells the agent to make the mail server agree.  The     *)
(* agent's pass drains the queue against IMAP, then walks the folders: it  *)
(* stores what is new above each folder's cursor and, on a full pass,      *)
(* sweeps: flags, placements lost here, placements the server has lost.    *)
(* Meanwhile users press more keys and undo them, other clients file the   *)
(* same mail, the server renumbers a folder, and the agent dies.           *)
(*                                                                         *)
(* One account, on a server where a folder holds its own copy of a message *)
(* (no labels), synced by one agent.  A web request is one transaction,    *)
(* and so one step; a key press files one message, and its operation is    *)
(* one row.  Content, threads, counts and events are left out, and so is   *)
(* \Flagged, which behaves as \Seen does.                                  *)
(***************************************************************************)
EXTENDS Integers, Sequences, FiniteSets, SequencesExt, FiniteSetsExt, Functions

CONSTANTS
    Msg,          \* messages
    Box,          \* folders
    Inbox, Trash, \* two of them
    Start,        \* where the messages are at first: [Msg -> Box]
    Moves,        \* does the server offer MOVE? subset of BOOLEAN
    Hashes,       \* is a message's content hash stored? subset of BOOLEAN
    Refused,      \* pairs of folders the server refuses, for good, to move between
    Loading,      \* may a SEARCH answer with part of a folder?
    SlowSync,     \* may SETTLE_GRACE end before a walk has seen the move?
    EarlyPress,   \* are keys pressed on placements the walk has yet to renew?
    StuckAfter,   \* STUCK_AFTER, failures after which the server is believed
    MaxPress,     \* bound: messages filed by users
    MaxSeen,      \* bound: messages marked by users
    MaxUndo,      \* bound: operations taken back
    MaxFail,      \* bound: commands that fail, answers that are lost, crashes
    MaxElse,      \* bound: changes made by other clients
    MaxRebuild    \* bound: folders renumbered, and rechecks asked for

ASSUME BoxAssumption   == Inbox \in Box /\ Trash \in Box /\ Inbox # Trash /\ IsFiniteSet(Box)
ASSUME NoneAssumption  == "none" \notin Box
ASSUME StartAssumption == IsFiniteSet(Msg) /\ Start \in [Msg -> Box]
ASSUME ServerAssumption ==
    /\ Moves \subseteq BOOLEAN /\ Moves # {} /\ Hashes \subseteq BOOLEAN /\ Hashes # {}
    /\ Refused \subseteq Box \X Box /\ {Loading, SlowSync, EarlyPress} \subseteq BOOLEAN
ASSUME StuckAssumption == StuckAfter \in Nat \ {0}
ASSUME BoundAssumption == {MaxPress, MaxSeen, MaxUndo, MaxFail, MaxElse, MaxRebuild} \subseteq Nat

VARIABLES
    server,       \* IMAP: the messages of each folder, under their UIDs
    uidnext, epoch,
    offers,       \* what this server, and this database, can do
    place,        \* message_locations
    mailbox,      \* mailboxes: UIDVALIDITY as last seen, and the cursor
    queue,        \* pending_actions, in the order they were created
    recent,       \* ids of the rows that file mail, by updated_at
    recheck,      \* the recheck asked for last and not served yet, or 0
    agent,        \* the agent's place in its pass
    wish,         \* history: the folder a message was last filed in by its user
    word,         \* history: what the user last said of \Seen
    doubt,        \* history: messages whose filing was interfered with
    purged,       \* history: messages a user emptied out of Trash
    presses, marks, undos, fails, elses, rebuilds

imap    == <<server, uidnext, epoch, offers>>
db      == <<place, mailbox, queue, recent, recheck>>
history == <<wish, word, doubt, purged>>
bounds  == <<presses, marks, undos, fails, elses, rebuilds>>
vars    == <<imap, db, agent, history, bounds>>

-----------------------------------------------------------------------------
\* The uid of a placement the server has not seen yet (-message_pk in the code).
Ahead == 0
Live  == {"pending", "leased"}

\* A row of message_locations.  era is history: the UIDVALIDITY its uid was
\* read under, which the code does not keep.
At(m, b, uid, seen, era) == [msg |-> m, box |-> b, uid |-> uid, seen |-> seen, era |-> era]
is_pending(p) == p.uid = Ahead
Locations(m)  == {p \in place : p.msg = m}
In(m, b)      == {p \in Locations(m) : p.box = b}

\* A row of pending_actions.  For a move seen is the flag of the placement it
\* was made from, in undo_from with box, uid and epoch; for setflags it is the
\* flag to write.  fresh says SETTLE_GRACE is still running.
Row(type, p, era, to, seen) ==
    [type |-> type, msg |-> p.msg, box |-> p.box, uid |-> p.uid, epoch |-> era, to |-> to,
     seen |-> seen, status |-> "pending", attempts |-> 0, fresh |-> FALSE, undone |-> FALSE]

\* The server's messages.
Entry(b, uid) == {e \in server[b] : e.uid = uid}
Copies(b, m)  == {e \in server[b] : e.msg = m}

Files(row) == row.type \in {"move", "delete"}
RowsOf(m)  == {i \in DOMAIN queue : queue[i].msg = m /\ queue[i].status # "gone"}
AtRest(m)  == \A i \in RowsOf(m) : queue[i].status \notin Live
Queued(m)  == {i \in RowsOf(m) : Files(queue[i]) /\ queue[i].status = "pending"}

\* The rows that file mail, the one at i written last.
Touch(ids, i) == Append(SelectSeq(ids, LAMBDA j : j # i), i)

\* Variant: what was asked for is waited for without end.
BelievedForEver(row) == row.status \in Live \cup {"done"}

\* move_in_flight: is the last thing asked for still expected to land?
Believed(row) ==
    \/ row.status \in Live /\ row.attempts < StuckAfter
    \/ row.status = "done" /\ row.fresh
move_in_flight(m) ==
    LET mine == SelectSeq(recent, LAMBDA i : i \in RowsOf(m))
    IN  mine # <<>> /\ Believed(queue[Last(mine)])

\* place_pending: the target placement, written before the server knows.
WithPending(ps, m, b, seen) ==
    LET there == {p \in ps : p.msg = m /\ p.box = b}
        ahead == {p \in there : is_pending(p)} IN
    IF there \ ahead # {} /\ ahead = {} THEN ps
    ELSE (ps \ ahead) \cup {At(m, b, Ahead, seen, 0)}

\* Variant: the placement ahead is left where it is.
PendingKept(ps, m, b) == ps

\* drop_pending_placement
WithoutPending(ps, m, b) == {p \in ps : ~(p.msg = m /\ p.box = b /\ is_pending(p))}

\* The agent between passes.
Idle == [pc |-> "idle", full |-> FALSE, todo |-> {}, row |-> 0, walk |-> {}, box |-> Inbox,
         got |-> {}, exists |-> 0, recheck |-> 0]

Init ==
    /\ server = [b \in Box |-> {[uid |-> i, msg |-> SetToSeq(Msg)[i], seen |-> FALSE] :
                                 i \in {i \in 1..Cardinality(Msg) : Start[SetToSeq(Msg)[i]] = b}}]
    /\ uidnext = [b \in Box |-> Cardinality(Msg) + 1]
    /\ epoch = [b \in Box |-> 1]
    /\ offers \in [move : Moves, hash : Hashes]
    /\ place = UNION {{At(e.msg, b, e.uid, e.seen, 1) : e \in server[b]} : b \in Box}
    /\ mailbox = [b \in Box |-> [epoch |-> 1, last |-> Cardinality(Msg)]]
    /\ queue = <<>> /\ recent = <<>>
    /\ recheck = 0
    /\ agent = Idle
    /\ wish = [m \in Msg |-> "none"]
    /\ word = [m \in Msg |-> "none"]
    /\ doubt = {} /\ purged = {}
    /\ presses = 0 /\ marks = 0 /\ undos = 0 /\ fails = 0 /\ elses = 0 /\ rebuilds = 0

-----------------------------------------------------------------------------
(* Key presses.                                                            *)

Newest(i) == \A j \in DOMAIN queue : queue[j].msg = queue[i].msg /\ Files(queue[j]) => j <= i

\* History: a move of this message is still in the queue that has reached the
\* server, wholly or in part: its answer was lost, or its agent died.
HalfMade(m) ==
    \E i \in RowsOf(m) :
        LET row == queue[i] IN
        /\ row.type = "move" /\ row.status \in Live
        /\ Copies(row.box, m) = {} \/ Copies(row.to, m) # {}

\* What a transaction leaves behind, and the row it wrote last, if any.
Kept(ps, rows, i) == [ok |-> TRUE, place |-> ps, queue |-> rows, top |-> i]
Nothing           == [ok |-> FALSE, place |-> place, queue |-> queue, top |-> 0]

\* _undo_pending: the queued move comes home.  Its placement is put back only
\* in the epoch it was read in; otherwise another is written ahead.
Home(m, loc, i) ==
    LET row  == queue[i]
        rest == place \ {loc}
        gone == [queue EXCEPT ![i].status = "gone"]
    IN  IF row.epoch # mailbox[row.box].epoch
          THEN Kept(WithPending(rest, m, row.box, loc.seen), gone, 0)
        ELSE IF \E p \in rest : p.box = row.box /\ p.uid = row.uid
          THEN Nothing                              \* uq_mailbox_uid
        ELSE Kept(rest \cup {At(m, row.box, row.uid, loc.seen, row.epoch)}, gone, 0)

\* _retarget_pending: the newest queued row of the message is aimed elsewhere.
Retarget(m, loc, i, b) ==
    IF b = queue[i].box THEN Home(m, loc, i)
    ELSE Kept(WithPending(place \ {loc}, m, b, loc.seen),
              [queue EXCEPT ![i].to = b, ![i].type = "move"], i)

\* move_to, one placement into another folder.
move_to(m, loc, b) ==
    LET filed == WithPending(place \ {loc}, m, b, loc.seen) IN
    IF ~is_pending(loc)
      THEN Kept(filed, Append(queue, Row("move", loc, mailbox[loc.box].epoch, b, loc.seen)),
                Len(queue) + 1)
    ELSE IF Queued(m) # {} THEN Retarget(m, loc, Max(Queued(m)), b)
    ELSE IF move_in_flight(m) THEN Nothing          \* "still being moved"
    ELSE Kept(filed, queue, 0)                 \* filed here, and nobody told

Commit(out) ==
    /\ out.ok
    /\ place' = out.place /\ queue' = out.queue
    /\ recent' = IF out.top = 0 THEN recent ELSE Touch(recent, out.top)

\* A press on a placement whose UID is from an epoch the folder has left is
\* made between a renumbering's SELECT and the walk that renews the placement.
Pressable(p) == EarlyPress \/ is_pending(p) \/ p.era = mailbox[p.box].epoch

\* History: a row other than i that files the message is still to be applied.  A
\* move given up on stays queued while its message, back where it was, is filed
\* again: which of the two the agent makes last decides.
Rivalled(m, i) ==
    \E j \in RowsOf(m) \ {i} : Files(queue[j]) /\ queue[j].status \in Live

\* History: the press could not be passed on, revokes what was already done, or
\* leaves two rows to compete.
Misled(m, loc) ==
    \/ HalfMade(m)
    \/ IF ~is_pending(loc) THEN Rivalled(m, 0)
       ELSE Queued(m) = {} \/ queue[Max(Queued(m))].to # loc.box \/ Rivalled(m, Max(Queued(m)))

\* Archive, trash or move: one message out of the folder it is seen in.
Move(m, loc, b) ==
    /\ presses < MaxPress
    /\ loc \in Locations(m) /\ Pressable(loc)
    /\ b # loc.box                                  \* else "already there"
    /\ Commit(move_to(m, loc, b))
    /\ wish' = [wish EXCEPT ![m] = b]
    /\ doubt' = IF Misled(m, loc) THEN doubt \cup {m} ELSE doubt
    /\ presses' = presses + 1
    /\ UNCHANGED <<imap, mailbox, recheck, agent, word, purged, marks, undos, fails, elses, rebuilds>>

\* Empty Trash: what it may not address, a placement written ahead, it spares.
Purge(m, loc) ==
    /\ presses < MaxPress
    /\ loc \in In(m, Trash) /\ ~is_pending(loc) /\ Pressable(loc)
    /\ place' = place \ {loc}
    /\ queue' = Append(queue, Row("delete", loc, mailbox[Trash].epoch, "none", loc.seen))
    /\ recent' = Append(recent, Len(queue) + 1)
    /\ purged' = purged \cup {m}
    /\ wish' = [wish EXCEPT ![m] = "none"]
    /\ doubt' = IF Rivalled(m, 0) THEN doubt \cup {m} ELSE doubt
    /\ presses' = presses + 1
    /\ UNCHANGED <<imap, mailbox, recheck, agent, word, marks, undos, fails, elses, rebuilds>>

\* History: a mark on these placements is on every unread copy the server has, and none
\* is being moved meanwhile, by a row that was given up on.
Reaches(m, marked) ==
    /\ ~Rivalled(m, 0)
    /\ \A b \in Box : \A e \in Copies(b, m) :
         e.seen \/ \E p \in marked : p.box = b /\ p.uid = e.uid /\ p.era = epoch[b]

\* set_seen: every placement of the message, and a row for each the server has.
set_seen(m, b) ==
    LET stale == {p \in Locations(m) : p.seen # b}
        told  == SetToSeq({p \in stale : ~is_pending(p)})
    IN
    /\ marks < MaxSeen
    /\ stale # {} /\ \A p \in stale : Pressable(p)
    /\ place' = (place \ stale) \cup {[p EXCEPT !.seen = b] : p \in stale}
    /\ queue' = queue \o [i \in DOMAIN told |->
                            Row("setflags", told[i], mailbox[told[i].box].epoch, "none", b)]
    /\ word' = [word EXCEPT ![m] = IF b /\ (@ = "read" \/ (@ = "none" /\ Reaches(m, stale)))
                                     THEN "read" ELSE "mixed"]
    /\ marks' = marks + 1
    /\ UNCHANGED <<imap, mailbox, recent, recheck, agent, wish, doubt, purged,
                   presses, undos, fails, elses, rebuilds>>

-----------------------------------------------------------------------------
(* Undo.                                                                   *)

\* Variant: a row the agent holds may be taken back.
UndoableAlways(i) ==
    undos < MaxUndo /\ i \in DOMAIN queue /\ queue[i].type = "move"
    /\ ~queue[i].undone /\ queue[i].status \notin {"stale", "gone"}

Undoable(i) ==
    /\ undos < MaxUndo
    /\ i \in DOMAIN queue /\ queue[i].type = "move"
    /\ ~queue[i].undone
    /\ queue[i].status \notin {"stale", "leased", "gone"}

Undone(rows, i) == [rows EXCEPT ![i].undone = TRUE]

\* restore: the placement as the snapshot has it, unless the folder has another
\* copy of the message by now.
restore(ps, row) ==
    IF \E p \in ps : p.msg = row.msg /\ p.box = row.box THEN ps
    ELSE ps \cup {At(row.msg, row.box, row.uid, row.seen, row.epoch)}

\* Its UID is taken again by another message (uq_mailbox_uid).
Taken(ps, row) == \E p \in ps : p.box = row.box /\ p.uid = row.uid /\ p.msg # row.msg

\* _cancel: the row is taken out of the queue and the placement put back as the
\* snapshot has it, where the folder has not been rebuilt since.
CancelMove(i) ==
    LET row  == queue[i]
        rest == WithoutPending(place, row.msg, row.to)
    IN
    /\ Undoable(i) /\ row.status # "done"
    /\ row.epoch = mailbox[row.box].epoch
    /\ ~Taken(rest, row)
    /\ place' = restore(rest, row)
    /\ queue' = Undone([queue EXCEPT ![i].status = "undone"], i)
    /\ wish' = IF Newest(i) THEN [wish EXCEPT ![row.msg] = row.box] ELSE wish
    /\ doubt' = IF HalfMade(row.msg) \/ Rivalled(row.msg, i) THEN doubt \cup {row.msg} ELSE doubt
    /\ recent' = Touch(recent, i)
    /\ undos' = undos + 1
    /\ UNCHANGED <<imap, mailbox, recheck, agent, word, purged, presses, marks, fails, elses, rebuilds>>

\* _reverse: a move that reached the server is answered by the opposite one,
\* from wherever in the target the message is found.
ReverseMove(i) ==
    LET row == queue[i]
        m   == row.msg
    IN
    /\ Undoable(i) /\ row.status = "done"
    /\ \E loc \in In(m, row.to) :
         LET out == move_to(m, loc, row.box) IN
         /\ Pressable(loc)
         /\ out.ok
         /\ place' = out.place
         /\ queue' = Undone([out.queue EXCEPT ![i].fresh = TRUE], i)
         /\ recent' = LET ids == Touch(recent, i) IN
                      IF out.top = 0 THEN ids ELSE Touch(ids, out.top)
         /\ doubt' = IF Misled(m, loc) THEN doubt \cup {m} ELSE doubt
    /\ wish' = [wish EXCEPT ![m] = row.box]
    /\ undos' = undos + 1
    /\ UNCHANGED <<imap, mailbox, recheck, agent, word, purged, presses, marks, fails, elses, rebuilds>>

\* POST recheck: the next pass is to walk every folder from its first message.
request_recheck ==
    /\ rebuilds < MaxRebuild
    /\ recheck' = rebuilds + 1
    /\ rebuilds' = rebuilds + 1
    /\ UNCHANGED <<imap, place, mailbox, queue, recent, agent, history, presses, marks, undos, fails, elses>>

-----------------------------------------------------------------------------
(* The agent: draining the queue.                                          *)

Goto(pc) == agent' = [agent EXCEPT !.pc = pc]

\* A row whose last attempt failed waits out a backoff, and a row a dead agent
\* left leased waits out _LEASE_TTL: it may be due by now, or not yet.
Due(i)     == queue[i].status = "pending" /\ queue[i].attempts = 0
MaybeDue(i) == queue[i].status \in Live /\ ~Due(i)

\* sync_once connects, takes the recheck request and reads the queue.  The first
\* row it hands out is judged on this very read.
Begin(full) ==
    /\ agent.pc = "idle"
    /\ \E late \in SUBSET {i \in DOMAIN queue : MaybeDue(i)} :
         LET due == late \cup {i \in DOMAIN queue : Due(i)} IN
         agent' = [Idle EXCEPT !.pc = IF due = {} THEN "drain" ELSE "picked",
                               !.full = full \/ recheck # 0, !.recheck = recheck, !.todo = due]
    /\ UNCHANGED <<imap, db, history, bounds>>

\* Variant: the newest row first.
NewestRow == Max(agent.todo)

\* due_queue: by creation.
NextRow == Min(agent.todo)

\* The next row of the pass.  The last commit or rollback expired it, so its
\* first use reads it again; one deleted meanwhile ends the pass.
Reload ==
    LET i == NextRow IN
    /\ agent.pc = "drain" /\ agent.todo # {}
    /\ agent' = IF queue[i].status = "gone" THEN Idle
                ELSE IF queue[i].status \in Live THEN [agent EXCEPT !.pc = "picked"]
                ELSE [agent EXCEPT !.todo = @ \ {i}]
    /\ UNCHANGED <<imap, db, history, bounds>>

\* _lease selects the row for update without reading it again: what was found
\* Live before the lock is taken whatever it is by now, unless it is deleted.
Takes(i) == queue[i].status # "gone"

\* _lease writes the lease and commits it.  History: a row that was taken back
\* between the read and the lock comes back to work.
Lease ==
    LET i == NextRow IN
    /\ agent.pc = "picked"
    /\ IF Takes(i)
         THEN /\ queue' = [queue EXCEPT ![i].status = "leased"]
              /\ recent' = IF Files(queue[i]) THEN Touch(recent, i) ELSE recent
              /\ agent' = [agent EXCEPT !.pc = "leased", !.row = i, !.todo = @ \ {i}]
              /\ doubt' = IF queue[i].status \in Live THEN doubt ELSE doubt \cup {queue[i].msg}
         ELSE /\ agent' = [agent EXCEPT !.pc = "drain", !.todo = @ \ {i}]
              /\ UNCHANGED <<queue, recent, doubt>>
    /\ UNCHANGED <<imap, place, mailbox, recheck, wish, word, purged, bounds>>

\* _settle and its kin, one transaction each, and on to the next row.  A row
\* dropped for good takes its placement ahead of the server back.
Settle(status) ==
    LET i   == agent.row
        row == queue[i]
    IN
    /\ queue' = IF status = "failed"
                  THEN [queue EXCEPT ![i].status = "pending",
                                     ![i].attempts = IF @ < StuckAfter THEN @ + 1 ELSE @]
                  ELSE [queue EXCEPT ![i].status = status, ![i].fresh = (status = "done")]
    /\ recent' = IF Files(row) THEN Touch(recent, i) ELSE recent
    /\ place' = IF status \in {"stale", "refused"} /\ row.type = "move"
                  THEN WithoutPending(place, row.msg, row.to) ELSE place
    /\ wish' = IF status \in {"stale", "refused"} /\ row.type = "move"
                 THEN [wish EXCEPT ![row.msg] = "none"] ELSE wish
    /\ Goto("drain")

\* Variant: a second attempt takes it that the first one's COPY was made.
LandedBefore(row) == row.attempts > 0 \/ Copies(row.to, row.msg) # {}

\* _copy_landed: is this very message in the target already?
Landed(row) == offers.hash /\ Copies(row.to, row.msg) # {}

\* Variant: the UID is taken at its word.
Unverified(row) == TRUE

\* _select_verified: the folder is still in the epoch the row was written in.
Verified(row) == row.epoch = epoch[row.box]

\* _still_to_move: what the folder can answer for the row's UID.  That it is gone
\* is believed only when SEARCH answers with the whole folder.
_still_to_move(row) ==
    (IF Entry(row.box, row.uid) # {} THEN {"there"}
     ELSE IF Landed(row) THEN {"done"} ELSE {"stale"})
    \cup (IF server[row.box] # {} /\ Loading /\ fails < MaxFail THEN {"failed"} ELSE {})

\* Select: the row's folder.
Select ==
    LET row == queue[agent.row] IN
    /\ agent.pc = "leased"
    /\ \E found \in IF ~Verified(row) THEN {"stale"}
                    ELSE IF row.type # "move" THEN {"there"}
                    ELSE _still_to_move(row) :
         /\ IF found = "there" THEN Goto("selected") /\ UNCHANGED <<place, queue, recent, wish>>
                                ELSE Settle(found)
         /\ fails' = IF found = "failed" THEN fails + 1 ELSE fails
    /\ doubt' = IF ~Verified(row) /\ HalfMade(row.msg) THEN doubt \cup {row.msg} ELSE doubt
    /\ UNCHANGED <<imap, mailbox, recheck, word, purged, presses, marks, undos, elses, rebuilds>>

\* What a command does to the server, OK whether or not the UID is there.
Without(b, uid) == [server EXCEPT ![b] = @ \ Entry(b, uid)]
WithCopy(sv, row) ==
    [sv EXCEPT ![row.to] = @ \cup {[uid |-> uidnext[row.to], msg |-> e.msg, seen |-> e.seen] :
                                      e \in Entry(row.box, row.uid)}]
Counted(row) == IF Entry(row.box, row.uid) = {} THEN uidnext
                ELSE [uidnext EXCEPT ![row.to] = @ + 1]

\* History: a COPY about to be made a second time, for want of a hash.
Repeats(row) ==
    row.type = "move" /\ ~offers.move /\ ~offers.hash /\ Copies(row.to, row.msg) # {}

\* apply_action, on the folder just selected: STORE, EXPUNGE, MOVE, or the COPY
\* of a move made by hand.
Apply ==
    LET row == queue[agent.row] IN
    /\ agent.pc = "selected"
    /\ \/ /\ row.type = "setflags"
          /\ server' = [server EXCEPT ![row.box] =
                          {IF e.uid = row.uid THEN [e EXCEPT !.seen = row.seen] ELSE e : e \in @}]
          /\ uidnext' = uidnext
          /\ Goto("applied")
       \/ /\ row.type = "delete"
          /\ server' = Without(row.box, row.uid)
          /\ uidnext' = uidnext
          /\ Goto("applied")
       \/ /\ row.type = "move" /\ offers.move /\ <<row.box, row.to>> \notin Refused
          /\ server' = WithCopy(Without(row.box, row.uid), row)
          /\ uidnext' = Counted(row)
          /\ Goto("applied")
       \/ /\ row.type = "move" /\ ~offers.move /\ <<row.box, row.to>> \notin Refused
          /\ server' = IF Landed(row) THEN server ELSE WithCopy(server, row)
          /\ uidnext' = IF Landed(row) THEN uidnext ELSE Counted(row)
          /\ Goto("copied")
    /\ doubt' = IF Repeats(row) THEN doubt \cup {row.msg} ELSE doubt
    /\ UNCHANGED <<epoch, offers, db, wish, word, purged, bounds>>

\* _permanent_refusal: the server said no, and will say no again.
Refusal ==
    LET row == queue[agent.row] IN
    /\ agent.pc = "selected"
    /\ row.type = "move" /\ <<row.box, row.to>> \in Refused
    /\ Settle("refused")
    /\ UNCHANGED <<imap, mailbox, recheck, word, doubt, purged, bounds>>

\* The end of _copy_then_remove, where the source still lists the message.
RemoveSource ==
    LET row == queue[agent.row] IN
    /\ agent.pc = "copied"
    /\ server' = Without(row.box, row.uid)
    /\ Goto("applied")
    /\ UNCHANGED <<uidnext, epoch, offers, db, history, bounds>>

Applied ==
    /\ agent.pc = "applied"
    /\ Settle("done")
    /\ UNCHANGED <<imap, mailbox, recheck, word, doubt, purged, bounds>>

\* History: a flag whose row has to wait may be overtaken by the sweep, which
\* writes the server's flag over it, and then by a move.
Unsaid(i) == IF i # 0 /\ queue[i].type = "setflags" /\ queue[i].status = "leased"
               THEN [word EXCEPT ![queue[i].msg] = "mixed"] ELSE word

\* A command that fails, or whose answer never comes: tried again later.
Fail ==
    /\ agent.pc \in {"selected", "copied", "applied"}
    /\ fails < MaxFail
    /\ Settle("failed")
    /\ word' = Unsaid(agent.row)
    /\ fails' = fails + 1
    /\ UNCHANGED <<imap, mailbox, recheck, doubt, purged, presses, marks, undos, elses, rebuilds>>

\* The agent dies, or its connection does outside a row: the pass is over, and
\* a row it held stays leased.
Crash ==
    /\ agent.pc # "idle"
    /\ fails < MaxFail
    /\ agent' = Idle
    /\ word' = Unsaid(agent.row)
    /\ fails' = fails + 1
    /\ UNCHANGED <<imap, db, wish, doubt, purged, presses, marks, undos, elses, rebuilds>>

-----------------------------------------------------------------------------
(* The agent: walking the folders.                                         *)

Drained ==
    /\ agent.pc = "drain" /\ agent.todo = {}
    /\ agent' = [agent EXCEPT !.pc = "walk", !.walk = Box]
    /\ UNCHANGED <<imap, db, history, bounds>>

\* The inbox first, the others as LIST has them.
NextFolder(b) == b \in agent.walk /\ (b = Inbox \/ Inbox \notin agent.walk)

\* SELECT and register_folder: another UIDVALIDITY, or a recheck, rewinds the
\* folder's cursor.
register_folder(b) ==
    /\ agent.pc = "walk" /\ NextFolder(b)
    /\ mailbox' = [mailbox EXCEPT ![b] =
                     [epoch |-> epoch[b],
                      last |-> IF @.epoch # epoch[b] \/ agent.recheck # 0 THEN 0 ELSE @.last]]
    /\ agent' = [agent EXCEPT !.pc = "opened", !.box = b, !.walk = @ \ {b},
                              !.exists = Cardinality(server[b])]
    /\ UNCHANGED <<imap, place, queue, recent, recheck, history, bounds>>

\* Past the last chunk: the sweep on a full pass, else the next folder.
Onward == IF agent.full THEN "sweep" ELSE "walk"

\* What a SEARCH may answer of these messages.
Listing(entries) == IF Loading THEN SUBSET entries ELSE {entries}

\* _sync_new asks for what lies above the cursor, and fetches it.
FetchNew ==
    /\ agent.pc = "opened"
    /\ \E new \in Listing({e \in server[agent.box] : e.uid > mailbox[agent.box].last}) :
         agent' = [agent EXCEPT !.got = new, !.pc = IF new = {} THEN Onward ELSE "fetched"]
    /\ UNCHANGED <<imap, db, history, bounds>>

\* upsert_location for a chunk of messages of folder b.  A placement that is
\* new here, of a message already read here, is read too, and the server is to
\* be told; one that is not new takes the server's word.
Ours(ps, b, e)   == {p \in ps : p.box = b /\ p.uid = e.uid}
Inherits(ps, b, e) == Ours(ps, b, e) = {} /\ \E p \in ps : p.msg = e.msg /\ p.seen

Upserted(ps, b, got) ==
    {p \in ps : ~(p.box = b /\ \E e \in got : p.uid = e.uid \/ (is_pending(p) /\ p.msg = e.msg))}
    \cup {At(e.msg, b, e.uid, e.seen \/ Inherits(ps, b, e), mailbox[b].epoch) : e \in got}

\* _queue_flag_catchup
CatchUp(ps, b, got) ==
    LET behind == SetToSeq({e \in got : ~e.seen /\ Inherits(ps, b, e)}) IN
    [i \in DOMAIN behind |->
       Row("setflags", At(behind[i].msg, b, behind[i].uid, TRUE, 0), mailbox[b].epoch, "none", TRUE)]

\* History: a walk has stored anew, after a recheck or a late arrival, mail that
\* a key press is taking out of the folder.  (Only the sweep asks LeftAlone.)
Returned(b, got) ==
    {e.msg : e \in {e \in got : \E i \in RowsOf(e.msg) :
        Files(queue[i]) /\ queue[i].status \in Live /\ queue[i].box = b /\ queue[i].uid = e.uid}}

\* _store_chunk and advance_cursor, in one transaction.
StoreNew ==
    LET b == agent.box IN
    /\ agent.pc = "fetched"
    /\ place' = Upserted(place, b, agent.got)
    /\ queue' = queue \o CatchUp(place, b, agent.got)
    /\ mailbox' = [mailbox EXCEPT ![b].last = Max({@} \cup {e.uid : e \in agent.got})]
    /\ agent' = [agent EXCEPT !.pc = Onward, !.got = {}]
    /\ doubt' = doubt \cup Returned(b, agent.got)
    /\ UNCHANGED <<imap, recent, recheck, wish, word, purged, bounds>>

\* _reconcile reads the folder's UIDs and flags ...
ListFolder ==
    /\ agent.pc = "sweep"
    /\ \E listed \in Listing(server[agent.box]) :
         agent' = [agent EXCEPT !.pc = "listed", !.got = listed]
    /\ UNCHANGED <<imap, db, history, bounds>>

\* update_flags: the server's word, on every placement it lists.
Swept(b, listed) ==
    {IF p.box = b /\ \E e \in listed : e.uid = p.uid
       THEN [p EXCEPT !.seen = (CHOOSE e \in listed : e.uid = p.uid).seen] ELSE p : p \in place}

\* Variant: the sweep restores whatever it misses.
NeverLeftAlone(b, e) == FALSE

\* Is a queued row about to take this very UID away?
uids_with_write_in_flight(b, e) ==
    \E i \in DOMAIN queue :
        /\ Files(queue[i]) /\ queue[i].status \in Live /\ queue[i].attempts < StuckAfter
        /\ queue[i].box = b /\ queue[i].uid = e.uid /\ queue[i].epoch = mailbox[b].epoch

LeftAlone(b, e) == uids_with_write_in_flight(b, e) \/ move_in_flight(e.msg)

\* _restore_unplaced: messages listed that have no placement here, and that no
\* key press is taking away.  They are fetched afresh.
Missing(ps, b, listed) ==
    {e \in server[b] : /\ \E l \in listed : l.uid = e.uid
                       /\ Ours(ps, b, e) = {}
                       /\ ~LeftAlone(b, e)}

\* A list shorter than SELECT's count says nothing of what is missing.
_uid_list_is_trustworthy(listed, exists) == Cardinality(listed) >= exists

\* prune_vanished
Vanished(ps, b, listed, exists) ==
    {p \in ps : /\ _uid_list_is_trustworthy(listed, exists)
               /\ p.box = b /\ ~is_pending(p)
               /\ ~\E e \in listed : e.uid = p.uid}

\* ... and sweeps it.  A message whose last placement goes, goes with its rows.
Sweep ==
    LET b       == agent.box
        flagged == Swept(b, agent.got)
        back    == Missing(flagged, b, agent.got)
        full    == Upserted(flagged, b, back)
        gone    == Vanished(full, b, agent.got, agent.exists)
        orphans == {p.msg : p \in gone} \ {p.msg : p \in full \ gone}
        rows    == queue \o CatchUp(flagged, b, back)
    IN
    /\ agent.pc = "listed"
    /\ place' = full \ gone
    /\ queue' = [i \in DOMAIN rows |-> IF rows[i].msg \in orphans
                                         THEN [rows[i] EXCEPT !.status = "gone"] ELSE rows[i]]
    /\ agent' = [agent EXCEPT !.pc = "walk", !.got = {}]
    /\ doubt' = doubt \cup {m \in orphans : ~AtRest(m)}
    /\ UNCHANGED <<imap, mailbox, recent, recheck, wish, word, purged, bounds>>

\* The last folder is done; clear_recheck clears only the request it served.
EndPass ==
    /\ agent.pc = "walk" /\ agent.walk = {}
    /\ recheck' = IF recheck = agent.recheck THEN 0 ELSE recheck
    /\ agent' = Idle
    /\ UNCHANGED <<imap, place, mailbox, queue, recent, history, bounds>>

-----------------------------------------------------------------------------
(* The rest of the world.                                                  *)

Disturbed(m) ==
    /\ elses < MaxElse
    /\ elses' = elses + 1
    /\ doubt' = doubt \cup {m}
    /\ UNCHANGED <<epoch, offers, db, agent, wish, word, presses, marks, undos, fails, rebuilds>>

\* Another client files a message, or deletes it for good.
MoveElsewhere(b, c, e) ==
    /\ b # c /\ e \in server[b]
    /\ server' = [server EXCEPT ![b] = @ \ {e}, ![c] = @ \cup {[e EXCEPT !.uid = uidnext[c]]}]
    /\ uidnext' = [uidnext EXCEPT ![c] = @ + 1]
    /\ purged' = purged
    /\ Disturbed(e.msg)

ExpungeElsewhere(b, e) ==
    /\ e \in server[b]
    /\ server' = [server EXCEPT ![b] = @ \ {e}]
    /\ uidnext' = uidnext
    /\ purged' = purged \cup {e.msg}
    /\ Disturbed(e.msg)

\* The server renumbers a folder under a new UIDVALIDITY.  It drops its
\* connections to do so: the pass it interrupts ends with Fail or Crash.
Rebuild(b) ==
    LET n == Cardinality(server[b]) IN
    /\ rebuilds < MaxRebuild
    /\ agent.pc = "idle"
    /\ epoch' = [epoch EXCEPT ![b] = @ + 1]
    /\ \E f \in [server[b] -> 1..n] :
         /\ IsInjective(f)
         /\ server' = [server EXCEPT ![b] = {[e EXCEPT !.uid = f[e]] : e \in @}]
    /\ uidnext' = [uidnext EXCEPT ![b] = n + 1]
    /\ word' = [m \in Msg |-> IF word[m] = "read" /\ Copies(b, m) # {} THEN "mixed" ELSE word[m]]
    /\ rebuilds' = rebuilds + 1
    /\ UNCHANGED <<offers, db, agent, wish, doubt, purged, presses, marks, undos, fails, elses>>

\* SETTLE_GRACE ends, after a walk has brought the moved copy in unless syncs
\* are slow.
GraceEnds(i) ==
    /\ queue[i].fresh
    /\ SlowSync \/ ~\E p \in Locations(queue[i].msg) : is_pending(p)
    /\ queue' = [queue EXCEPT ![i].fresh = FALSE]
    /\ UNCHANGED <<imap, place, mailbox, recent, recheck, agent, history, bounds>>

-----------------------------------------------------------------------------
User ==
    \/ \E m \in Msg : \E loc \in Locations(m) : Purge(m, loc) \/ \E b \in Box : Move(m, loc, b)
    \/ \E m \in Msg, b \in BOOLEAN : set_seen(m, b)
    \/ \E i \in DOMAIN queue : CancelMove(i) \/ ReverseMove(i)
    \/ request_recheck

Drain == Reload \/ Lease \/ Select \/ Apply \/ Refusal \/ RemoveSource \/ Applied \/ Drained
Walk  == (\E b \in Box : register_folder(b)) \/ FetchNew \/ StoreNew \/ ListFolder \/ Sweep \/ EndPass

World ==
    \/ \E b \in Box : Rebuild(b) \/ \E e \in server[b] :
         ExpungeElsewhere(b, e) \/ \E c \in Box : MoveElsewhere(b, c, e)
    \/ \E i \in DOMAIN queue : GraceEnds(i)
    \/ Fail \/ Crash

Next == User \/ (\E full \in BOOLEAN : Begin(full)) \/ Drain \/ Walk \/ World

Spec == Init /\ [][Next]_vars

-----------------------------------------------------------------------------
Status == {"pending", "leased", "done", "stale", "refused", "undone", "gone"}

TypeOK ==
    /\ \A b \in Box : \A e \in server[b] : e.msg \in Msg /\ e.uid \in 1..(uidnext[b] - 1)
    /\ \A p \in place : p.msg \in Msg /\ p.box \in Box /\ p.uid \in Nat
    /\ \A p, q \in place : p.box = q.box /\ p.uid = q.uid /\ ~is_pending(p) => p = q
    /\ \A i \in DOMAIN queue : queue[i].status \in Status /\ queue[i].attempts \in 0..StuckAfter
    /\ \A i \in DOMAIN recent : recent[i] \in DOMAIN queue /\ Files(queue[recent[i]])
    /\ agent.todo \subseteq DOMAIN queue /\ agent.row \in DOMAIN queue \cup {0}
    /\ wish \in [Msg -> Box \cup {"none"}] /\ word \in [Msg -> {"none", "read", "mixed"}]
    /\ doubt \subseteq Msg /\ purged \subseteq Msg

\* Mail is only ever destroyed by a user who emptied it out of Trash or by
\* another client: a COPY whose answer was lost, a repeated attempt, a folder
\* renumbered under a queued row or a crash between COPY and EXPUNGE never
\* leave a message in no folder of the server (_copy_then_remove).
NothingLost == \A m \in Msg \ purged : \E b \in Box : Copies(b, m) # {}

\* What the agent takes out of a folder is the message its row was written
\* for, whatever UIDs have come to mean since (_select_verified, uid_ref).
RightMessage ==
    [][\A b \in Box : \A e \in server[b] :
         agent.pc \in {"selected", "copied"} /\ e \notin server'[b] /\ elses' = elses
         /\ ~(\E f \in server'[b] : f.uid = e.uid)
           => e.msg = queue[agent.row].msg]_vars

\* When nothing is queued for a message any more and nothing else touched it,
\* the server has it where its user last put it, and nowhere else: presses,
\* re-aimed presses, retries, crashes and undos included, but for an undo that
\* overtook the agent's read of the row (Lease).
LastWishWins ==
    \A m \in Msg \ doubt :
        AtRest(m) /\ wish[m] # "none" => {b \in Box : Copies(b, m) # {}} = {wish[m]}

\* What undo.py says of a move taken back before it was made: "The row is kept,
\* marked "undone" ... The agent never selects it again" (_cancel).  It does, and
\* makes the move, when the row was read just before the press (_lease).
UndoneStays ==
    [][\A i \in DOMAIN queue :
         queue[i].status = "undone" => queue'[i].status \in {"undone", "gone"}]_vars

\* A placement written ahead of the server is backed by a move still to be
\* made, or by a copy the next walk brings in (drop_pending_placement).
NoGhost ==
    \A p \in place : is_pending(p) /\ p.msg \notin doubt =>
        \/ \E i \in RowsOf(p.msg) : queue[i].status \in Live /\ queue[i].to = p.box
        \/ \E e \in Copies(p.box, p.msg) : ~\E q \in Ours(place, p.box, e) : q.msg = p.msg

\* A message filed away does not come back to the folder it left while a row
\* that moves it is still believed to be on its way (_restore_unplaced).
FiledStaysFiled ==
    \A m \in Msg \ doubt : \A i \in RowsOf(m) :
        LET row == queue[i] IN
        Files(row) /\ row.status \in Live /\ row.attempts < StuckAfter
            => \A p \in In(m, row.box) : p.uid = row.uid => p.era # row.epoch

\* Filing something twice before the server has heard of it is one move, to wherever
\* it ended up (_retarget_pending).
OneMove ==
    elses = 0 => \A m \in Msg :
        Cardinality({i \in RowsOf(m) : Files(queue[i]) /\ queue[i].status \in Live}) <= 1

Ghosts(m) == {p \in Locations(m) : is_pending(p)}

\* What is here, but for placements ahead of the server, is what the server has.
Agrees(m) ==
    {<<p.box, p.uid, p.seen>> : p \in {p \in Locations(m) : ~is_pending(p)}} =
    UNION {{<<b, e.uid, e.seen>> : e \in Copies(b, m)} : b \in Box}

\* A message read, and never said to be unread, is read wherever the server has it once
\* its rows are done: the flag survives the move, the stale sweep and the placement it
\* was set on (set_seen, _queue_flag_catchup, due_queue).
ReadSticks ==
    \A m \in Msg \ doubt :
        word[m] = "read" /\ AtRest(m) => \A b \in Box : \A e \in Copies(b, m) : e.seen

\* Once users, other clients and failures are done, what is shown comes to be
\* what the server has, for good, whatever was done to the mail; and no placement
\* ahead of it is left over, but where the filing itself was interfered with.
Converges == <>[](\A m \in Msg : Agrees(m) /\ (Ghosts(m) = {} \/ m \in doubt))

\* run_account_forever: passes keep coming and each goes on to its end; some are
\* full, and some come when every backoff and every lease has run out.
FullPass == Begin(TRUE) /\ agent'.todo = {i \in DOMAIN queue : queue[i].status \in Live}
LiveSpec ==
    /\ Spec
    /\ WF_vars(Drain) /\ WF_vars(Walk) /\ SF_vars(FullPass)
    /\ \A i \in 1..(MaxPress + MaxSeen + MaxUndo) : WF_vars(i \in DOMAIN queue /\ GraceEnds(i))
=============================================================================
