------------------------------ MODULE SentCopy ------------------------------
(***************************************************************************)
(* The copy of sent mail in the Sent folder.                               *)
(*                                                                         *)
(* Some mail servers file what they relay (Proton, Gmail), some time after *)
(* they took it; on the others the agent does it: a row of type save_sent  *)
(* queued once a send has settled, applied like any other row, which looks *)
(* for the message in the folder before it APPENDs one.  tools/file_sent.py*)
(* queues the same rows for older mail, while the agent runs.              *)
(*                                                                         *)
(* One account.  The rows of one account are applied one at a time (Outbox *)
(* has the leases).                                                        *)
(***************************************************************************)
EXTENDS Integers, FiniteSets, Sequences, SequencesExt

CONSTANTS
    Mail,         \* messages
    MaxFail,      \* bound: commands that fail, answers that are lost, crashes
    MaxConfig,    \* bound: changes of save_sent in meerail.toml
    MaxTool       \* bound: runs of tools/file_sent.py --apply

VARIABLES
    files,        \* does the server file what it relays?
    folder,       \* is there a Sent folder?
    owed,         \* mail the server has relayed and will file
    copies,       \* the copies of each mail in Sent
    save_sent,    \* the setting: "unset", "yes" or "no"
    outbound,     \* "queued" or "sent"
    mime,         \* mail whose Outbound row holds its bytes
    rows,         \* save_sent rows, in the order they were queued
    synced,       \* mail the walk has seen in Sent
    agent,        \* the row being applied, and how far
    tool,         \* the rows a run of the tool is about to commit
    passed,       \* history: mail whose copy was passed over on purpose, or lost track of
    fails, configs, tools

server == <<files, folder, owed, copies>>
db     == <<outbound, mime, rows, synced>>
bounds == <<fails, configs, tools>>
vars   == <<server, save_sent, db, agent, tool, passed, bounds>>

Idle   == [row |-> 0, pc |-> "idle"]
NoTool == [open |-> FALSE, queue |-> {}]
Row(m) == [mail |-> m, status |-> "pending"]

_server_files_sent == files
_wants_sent_copy   == save_sent = "yes" \/ (save_sent = "unset" /\ ~_server_files_sent)

Init ==
    /\ files \in BOOLEAN /\ folder \in BOOLEAN /\ (files => folder)
    /\ save_sent \in {"unset", "no"}
    /\ outbound \in [Mail -> {"queued", "sent"}]       \* "sent" before the agent filed copies
    /\ owed = {} /\ copies = [m \in Mail |-> IF files /\ outbound[m] = "sent" THEN 1 ELSE 0]
    /\ mime \in SUBSET Mail /\ \A m \in Mail : outbound[m] = "queued" => m \in mime
    /\ rows = <<>> /\ synced = {} /\ agent = Idle /\ tool = NoTool
    /\ passed = {m \in Mail : outbound[m] = "sent"}
    /\ fails = 0 /\ configs = 0 /\ tools = 0

\* _drain_leased settles a send, and only then _queue_sent_copy queues the copy.
\* The question may fail (asked is FALSE): logged and passed over.
Settled(m) == outbound' = [outbound EXCEPT ![m] = "sent"]

SendSettles(m, asked) ==
    /\ outbound[m] = "queued" /\ agent = Idle
    /\ Settled(m)
    /\ owed' = IF files THEN owed \cup {m} ELSE owed
    /\ IF asked THEN UNCHANGED fails ELSE fails < MaxFail /\ fails' = fails + 1
    /\ rows' = IF asked /\ _wants_sent_copy THEN Append(rows, Row(m)) ELSE rows
    /\ passed' = IF asked /\ (_wants_sent_copy \/ files) THEN passed ELSE passed \cup {m}
    /\ UNCHANGED <<files, folder, copies, save_sent, mime, synced, agent, tool, configs, tools>>

ServerFiles(m) ==
    /\ m \in owed
    /\ owed' = owed \ {m} /\ copies' = [copies EXCEPT ![m] = @ + 1]
    /\ UNCHANGED <<files, folder, save_sent, db, agent, tool, passed, bounds>>

Walk ==
    /\ synced' = {m \in Mail : copies[m] > 0} /\ synced' # synced
    /\ UNCHANGED <<server, save_sent, outbound, mime, rows, agent, tool, passed, bounds>>

-----------------------------------------------------------------------------
\* _save_sent_copy, in its steps: what it decides from the database and the
\* live session; the search of the folder; the APPEND; the outcome.

Take(i) ==
    /\ agent = Idle /\ i \in DOMAIN rows /\ rows[i].status = "pending"
    /\ agent' = [row |-> i, pc |-> "decide"]
    /\ UNCHANGED <<server, save_sent, db, tool, passed, bounds>>

NothingToFile(m) == m \notin mime \/ (save_sent = "unset" /\ _server_files_sent)

Decide ==
    /\ agent.pc = "decide"
    /\ agent' = [agent EXCEPT !.pc = IF NothingToFile(rows[agent.row].mail) THEN "done"
                                     ELSE IF folder THEN "search" ELSE "failed"]
    /\ passed' = IF rows[agent.row].mail \notin mime THEN passed \cup {rows[agent.row].mail} ELSE passed
    /\ UNCHANGED <<server, save_sent, db, tool, bounds>>

\* _copy_landed: by Message-ID, then by the bytes.
Unsearched(m) == FALSE   \* variant: append without looking
_copy_landed(m) == copies[m] > 0

Search ==
    /\ agent.pc = "search"
    /\ agent' = [agent EXCEPT !.pc = IF _copy_landed(rows[agent.row].mail) THEN "done" ELSE "append"]
    /\ UNCHANGED <<server, save_sent, db, tool, passed, bounds>>

\* The server may take the message and its answer be lost.
AppendCopy(answered) ==
    /\ agent.pc = "append"
    /\ copies' = [copies EXCEPT ![rows[agent.row].mail] = @ + 1]
    /\ agent' = [agent EXCEPT !.pc = IF answered THEN "done" ELSE "failed"]
    /\ IF answered THEN UNCHANGED fails ELSE fails < MaxFail /\ fails' = fails + 1
    /\ UNCHANGED <<files, folder, owed, save_sent, db, tool, passed, configs, tools>>

Fail ==
    /\ agent.pc \in {"search", "append"} /\ fails < MaxFail /\ fails' = fails + 1
    /\ agent' = [agent EXCEPT !.pc = "failed"]
    /\ UNCHANGED <<server, save_sent, db, tool, passed, configs, tools>>

\* _settle: a failure only schedules the next attempt.
GivenUp(pc) == "done"   \* variant: one failure and the copy is forgotten
Outcome(pc) == IF pc = "done" THEN "done" ELSE "pending"

Settle ==
    /\ agent.pc \in {"done", "failed"}
    /\ rows' = [rows EXCEPT ![agent.row].status = Outcome(agent.pc)]
    /\ agent' = Idle
    /\ UNCHANGED <<server, save_sent, outbound, mime, synced, tool, passed, bounds>>

\* The agent dies; the lease runs out and the row is anybody's again.
Crash ==
    /\ agent # Idle /\ fails < MaxFail /\ fails' = fails + 1
    /\ agent' = Idle
    /\ UNCHANGED <<server, save_sent, db, tool, passed, configs, tools>>

-----------------------------------------------------------------------------
\* tools/file_sent.py: _file_account reads, decides, and commits at the end.

_already_queued(m) == \E i \in DOMAIN rows : rows[i].mail = m
_filed_in_sent(m)  == m \in synced

ToolScan ==
    /\ ~tool.open /\ tools < MaxTool /\ tools' = tools + 1 /\ save_sent # "no"
    /\ tool' = [open |-> TRUE,
                queue |-> {m \in mime : outbound[m] = "sent" /\ ~_already_queued(m) /\ ~_filed_in_sent(m)}]
    /\ UNCHANGED <<server, save_sent, db, agent, passed, fails, configs>>

ToolCommit ==
    /\ tool.open
    /\ rows' = rows \o [i \in 1 .. Cardinality(tool.queue) |-> Row(SetToSeq(tool.queue)[i])]
    /\ tool' = NoTool
    /\ passed' = passed \ tool.queue
    /\ UNCHANGED <<server, save_sent, outbound, mime, synced, agent, bounds>>

\* Somebody creates the folder, or changes the setting (and restarts the agent).
\* Not on a server that files its own copies: "yes" asks it for a second one, and
\* "no" leaves a row already queued to append what the server has yet to file.
MakeFolder ==
    /\ ~folder /\ folder' = TRUE
    /\ UNCHANGED <<files, owed, copies, save_sent, db, agent, tool, passed, bounds>>
Configure(v) ==
    /\ configs < MaxConfig /\ configs' = configs + 1
    /\ v # save_sent /\ ~files /\ agent = Idle /\ save_sent' = v
    /\ UNCHANGED <<server, db, agent, tool, passed, fails, tools>>

AgentStep == Decide \/ Search \/ AppendCopy(TRUE) \/ Settle
Next ==
    \/ \E m \in Mail : ServerFiles(m) \/ \E asked \in BOOLEAN : SendSettles(m, asked)
    \/ \E i \in DOMAIN rows : Take(i)
    \/ AgentStep \/ AppendCopy(FALSE) \/ Fail \/ Crash \/ Walk
    \/ ToolScan \/ ToolCommit \/ MakeFolder
    \/ \E v \in {"unset", "yes", "no"} : Configure(v)

Spec == Init /\ [][Next]_vars

\* A pass tries every row it finds due (Placement and Outbox say why), the server
\* files what it took, and a folder that is wanted gets created.
Fairness ==
    /\ WF_vars(AgentStep) /\ WF_vars(MakeFolder)
    /\ \A m \in Mail : WF_vars(ServerFiles(m))
    /\ SF_vars(\E i \in DOMAIN rows : Take(i))

-----------------------------------------------------------------------------
\* A message is in Sent once: retries after lost answers, crashes, the tool
\* racing the agent and the server's own filing never make a second copy.
OneCopy == \A m \in Mail : copies[m] <= 1

\* Every sent message whose copy was asked for is, in the end, in Sent.
Due(m) == outbound[m] = "sent" /\ m \notin passed
AllFiled == \A m \in Mail : Due(m) => copies[m] > 0
Filed == []<>AllFiled
=============================================================================
