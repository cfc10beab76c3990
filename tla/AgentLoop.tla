------------------------------ MODULE AgentLoop ------------------------------
(***************************************************************************)
(* One account's thread in the agent process, and how the web app gets its *)
(* attention: src/agent/main.py starts the threads, src/agent/sync.py      *)
(* (run_account_forever, sync_once) runs one pass after another and waits  *)
(* in IDLE between them, src/agent/commands.py turns a Postgres NOTIFY     *)
(* into the thread's wake event, and src/app/routers/sync.py has the two   *)
(* buttons: "refresh", which is only a notification, and "recheck", which  *)
(* is a column of the account's row as well.                               *)
(*                                                                         *)
(* What a pass does in a folder is in Placement, Content and Folders. Here *)
(* a pass is the folders it selects, and a folder only has the cursor that *)
(* says whether the walk starts at its first UID.                          *)
(***************************************************************************)
EXTENDS Naturals, FiniteSets, Sequences

CONSTANTS
  Folder,     \* the account's folders on the server
  MaxAsk,     \* how often the two buttons are pressed, at most
  Partial,    \* TRUE: LIST may answer with some of the folders, or none
  Budgets     \* records [fail, drop, kill]: how often the world interferes

VARIABLES
  pc,         \* where the account's thread is
  wake,       \* its threading.Event; "none" before the thread has made it
  listening,  \* the command listener holds its LISTEN connection
  notified,   \* a notification is on that connection, unread
  requested,  \* accounts.recheck_requested_at: a press's number, 0 for none
  cursor,     \* folder -> "zero" or "top": mailboxes.last_uid
  taken,      \* this pass: what take_recheck returned
  todo,       \* this pass: the folders LIST gave that it still has to walk
  at,         \* this pass: the folder selected last
  full,       \* history: the folders this pass has walked from UID 1
  looped,     \* the pass was started by the inner loop: IDLE follows on its connection
  asked,      \* history: the presses, in order: "refresh" or "recheck"
  began,      \* history: how many presses this pass started after
  answered,   \* history: the presses a completed pass has served
  lost,       \* history: a notification went nowhere while the thread was running
  left        \* what is left of the budget

signal == <<wake, listening, notified>>
pass   == <<taken, todo, at, full, began>>
vars == <<pc, requested, signal, cursor, pass, looped, asked, answered, lost, left>>

Spend(k) == left[k] > 0 /\ left' = [left EXCEPT ![k] = @ - 1]

Running == pc # "down"

Init ==
  /\ pc = "down" /\ wake = "none" /\ listening = FALSE /\ notified = FALSE
  /\ requested = 0
  /\ cursor \in [Folder -> {"zero", "top"}]
  /\ taken = 0 /\ todo = {} /\ at = (CHOOSE f \in Folder : TRUE) /\ full = {} /\ began = 0
  /\ looped = FALSE /\ asked = <<>> /\ answered = {} /\ lost = FALSE
  /\ left \in Budgets

(***************************************************************************)
(* The buttons, and the notification                                       *)
(***************************************************************************)

\* core.events.publish_command never raises: with nobody listening, or the
\* NOTIFY itself failing, the notification is simply gone.
Publish ==
  \/ listening /\ notified' = TRUE /\ lost' = lost
  \/ ~listening /\ notified' = notified /\ lost' = (lost \/ Running)

request_refresh ==
  /\ Len(asked) < MaxAsk
  /\ asked' = Append(asked, "refresh")
  /\ Publish
  /\ UNCHANGED <<pc, requested, wake, listening, cursor, pass, looped, answered, left>>

\* The row is committed before the NOTIFY. A second press overwrites the
\* first one's time, whether or not a pass has read that one.
request_recheck ==
  /\ Len(asked) < MaxAsk
  /\ asked' = Append(asked, "recheck")
  /\ requested' = Len(asked')
  /\ Publish
  /\ UNCHANGED <<pc, wake, listening, cursor, pass, looped, answered, left>>

\* commands._handle: an event no loop has made yet is not created for it.
_handle ==
  /\ notified /\ notified' = FALSE
  /\ wake' = IF wake = "none" THEN wake ELSE "set"
  /\ UNCHANGED <<pc, requested, listening, cursor, pass, looped, asked, answered, lost, left>>

\* The listener's connection goes (a database restart, a network blip), with
\* whatever was on it, and is made again two seconds later.
ListenerDrops ==
  /\ listening /\ Spend("drop")
  /\ listening' = FALSE /\ notified' = FALSE
  /\ lost' = (lost \/ notified)
  /\ UNCHANGED <<pc, requested, wake, cursor, pass, looped, asked, answered>>

_listen_forever ==
  /\ Running /\ ~listening /\ listening' = TRUE
  /\ UNCHANGED <<pc, requested, wake, notified, cursor, pass, looped, asked, answered, lost, left>>

(***************************************************************************)
(* The process                                                             *)
(***************************************************************************)

\* main: the listener's thread is started, then one per account. The thread
\* makes its wake event before its first pass.
Starts ==
  /\ pc = "down" /\ pc' = "loop" /\ wake' = "none"
  /\ UNCHANGED <<requested, listening, notified, cursor, pass, looped, asked, answered, lost, left>>

\* A pass that ends in the middle of a folder leaves the cursor where it was
\* or part of the way up: what is below it is not asked for again.
Interrupted ==
  IF pc = "walk" THEN cursor' \in {cursor, [cursor EXCEPT ![at] = "top"]} ELSE cursor' = cursor

\* The process is killed where it stands.
Killed ==
  /\ Running /\ Spend("kill")
  /\ pc' = "down" /\ wake' = "none" /\ listening' = FALSE /\ notified' = FALSE
  /\ Interrupted
  /\ taken' = 0 /\ todo' = {} /\ full' = {}
  /\ UNCHANGED <<requested, at, began, looped, asked, answered, lost>>

(***************************************************************************)
(* run_account_forever and sync_once                                       *)
(***************************************************************************)

\* wake.clear(), before the pass and never after it.
Clears ==
  \/ /\ pc = "loop" /\ looped' = FALSE
  \/ /\ pc = "woken" /\ looped' = TRUE

run_account_forever ==
  /\ Clears /\ pc' = "connect" /\ wake' = "clear"
  /\ UNCHANGED <<requested, listening, notified, cursor, pass, asked, answered, lost, left>>

\* Connected and logged in: the last failure is over, the request is read
\* once, and the queue is drained before anything is listed.
sync_once ==
  /\ pc = "connect" /\ pc' = "list"
  /\ taken' = requested /\ began' = Len(asked) /\ full' = {}
  /\ UNCHANGED <<requested, signal, cursor, todo, at, looped, asked, answered, lost, left>>

list_folders ==
  /\ pc = "list" /\ pc' = "folder"
  /\ \E found \in SUBSET Folder : (Partial \/ found = Folder) /\ todo' = found
  /\ UNCHANGED <<requested, signal, cursor, taken, at, full, began, looped, asked, answered, lost, left>>

\* A folder is selected and registered; a recheck rewinds its cursor, in the
\* commit that opens the folder.
reset_cursor(f) ==
  /\ pc = "folder" /\ f \in todo /\ pc' = "walk" /\ todo' = todo \ {f} /\ at' = f
  /\ cursor' = IF taken # 0 THEN [cursor EXCEPT ![f] = "zero"] ELSE cursor
  /\ full' = IF cursor'[f] = "zero" THEN full \cup {f} ELSE full
  /\ UNCHANGED <<requested, signal, taken, began, looped, asked, answered, lost, left>>

\* Everything above the cursor is fetched, and the cursor follows chunk by
\* chunk.
_sync_new ==
  /\ pc = "walk" /\ pc' = "folder"
  /\ cursor' = [cursor EXCEPT ![at] = "top"]
  /\ UNCHANGED <<requested, signal, pass, looped, asked, answered, lost, left>>

\* The presses this pass has served: those it began after, and a recheck
\* only if every folder was walked from its first UID.
Served == {n \in 1..began : asked[n] = "refresh" \/ full = Folder}

\* A variant: the flag is cleared whatever request it stands for.
clear_any(row) == IF taken # 0 THEN 0 ELSE row

\* record_sync, and clear_recheck: only the request this pass took, so one
\* raised while it walked keeps its own time and stays.
clear_recheck(row) == IF taken # 0 /\ row = taken THEN 0 ELSE row

record_sync ==
  /\ pc = "folder" /\ todo = {} /\ pc' = IF looped THEN "select" ELSE "reconnect"
  /\ requested' = clear_recheck(requested)
  /\ answered' = answered \cup Served
  /\ taken' = 0 /\ full' = {}
  /\ UNCHANGED <<signal, cursor, todo, at, began, looped, asked, lost, left>>

\* A variant: the event is cleared on the way into the wait, and what set it
\* during the pass is taken to have been served by it.
idles_afresh ==
  /\ pc \in {"reconnect", "select"} /\ pc' = "idle" /\ wake' = "clear"
  /\ UNCHANGED <<requested, listening, notified, cursor, pass, looped, asked, answered, lost, left>>

\* After the first pass a connection of its own is opened for IDLE, and
\* INBOX selected on it before every wait.
Idles ==
  /\ pc \in {"reconnect", "select"} /\ pc' = "idle"
  /\ UNCHANGED <<requested, signal, cursor, pass, looped, asked, answered, lost, left>>

\* idle_wait returns: the event was set or the server reported a change.
\* Both lead to the same pass. A host that slept through the wait starts
\* again at the top, on a fresh connection.
idle_wait ==
  /\ pc = "idle"
  /\ \/ wake = "set" /\ pc' = "woken"
     \/ wake = "set" /\ pc' = "loop"       \* Suspended
  /\ UNCHANGED <<requested, signal, cursor, pass, looped, asked, answered, lost, left>>

\* The same two exits for a reason of their own: mail arrived, the poll
\* interval ran out, the host slept.
PollsOut ==
  /\ pc = "idle" /\ wake # "set" /\ pc' \in {"woken", "loop"}
  /\ UNCHANGED <<requested, signal, cursor, pass, looped, asked, answered, lost, left>>

\* Any exception: the failure is recorded, and after the backoff the loop
\* starts again at the top.
Raises ==
  /\ pc \in {"connect", "list", "folder", "walk", "reconnect", "select", "idle"} /\ Spend("fail")
  /\ pc' = "loop"
  /\ Interrupted
  /\ taken' = 0 /\ todo' = {} /\ full' = {}
  /\ UNCHANGED <<requested, signal, at, began, looped, asked, answered, lost>>

-----------------------------------------------------------------------------

Works ==
  \/ run_account_forever \/ sync_once \/ list_folders
  \/ \E f \in Folder : reset_cursor(f)
  \/ _sync_new \/ record_sync \/ Idles \/ idle_wait

Next ==
  \/ request_refresh \/ request_recheck
  \/ _handle \/ ListenerDrops \/ _listen_forever
  \/ Starts \/ Killed \/ Works \/ PollsOut \/ Raises

Spec == Init /\ [][Next]_vars

\* The agent is restarted when it stops (restart: unless-stopped), its
\* thread never stops by itself, and the listener reconnects and reads.
Fairness ==
  /\ WF_vars(Starts) /\ WF_vars(Works)
  /\ WF_vars(_handle) /\ WF_vars(_listen_forever)
  /\ WF_vars(lost /\ PollsOut)

-----------------------------------------------------------------------------

\* Every press is answered by a pass that began after it, and a recheck by
\* one that also walked every folder from its first UID - however presses,
\* passes, failures and restarts interleave. The poll interval is only
\* relied on once a notification has been lost: a press that was heard does
\* not wait for it.
AllAnswered == DOMAIN asked \subseteq answered
Heard == []<>AllAnswered

\* A recheck is taken off the row only by a pass that has walked every
\* folder from the start.
ServedInFull == [][requested' = 0 /\ requested # 0 => full = Folder]_vars
=============================================================================
