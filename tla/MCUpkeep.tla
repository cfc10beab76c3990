------------------------------ MODULE MCUpkeep ------------------------------
(* What stores mail and serves it, in eight parts for TLC, each by itself:  *)
(* the behaviours of the specification are those of Content, Indexer,       *)
(* SettingsRow, Guard, Segments, AgentLoop, Watchdog and Backfill.  What a  *)
(* part does not have is off; Content is the module this one extends, and   *)
(* where it is off the account is empty.  The constants of the parts        *)
(* UpkeepProofs reasons about are this module's, and it gives them the      *)
(* small values the run takes.                                              *)
EXTENDS Content

CONSTANTS
    Drain, Agent, Msg, Files, EXTRACT_BATCH, MaxAtt, TikaBudgets,    \* Indexer
    Request, Op(_), Fold(_), MaxWords,                              \* SettingsRow
    Thread, GUARD_TTL, UNRESOLVED_TTL, MaxClock,                    \* Guard
    MaxSegments, MaxUnits, SEPARATOR_UNITS,                         \* Segments
    Message, BATCH, FillBudgets                                     \* Backfill

VARIABLES
    part,
    atts, search, rollup, tika, drain, losses, stalled, ills,
    row, lock, at, read, reply,
    clock, dns, true_at, cache, thread,
    segments, match, where,
    pc, wake, listening, notified, requested, cursor, taken, todo, selected, full, looped,
    asked, began, answered, lost, faults,
    security, calling, blocked, deadline, watched, held, client, up, silent, overdue, made,
    migrated, newer, content, search_tsv, body_sig, index, prints, ready, budget

----------------------------------------------------------------------------
\* Two mails, one of them sent from here, with one Message-ID.
MailId(m)      == 5
MailHeaders(m) == m
ContentBudget(arrive, leave, slide, config_, recheck, fail) ==
    [arrive |-> arrive, leave |-> leave, slide |-> slide, config |-> config_,
     recheck |-> recheck, fail |-> fail]

ContentBudgets ==
    {ContentBudget(1,0,0,0,0,1), ContentBudget(1,0,1,1,1,0), ContentBudget(1,1,1,0,1,0)}

TikaBudget(die, hang, slow, replace, strip) ==
    [die |-> die, hang |-> hang, slow |-> slow, replace |-> replace, strip |-> strip]

TikaTrouble == {TikaBudget(1,1,1,0,0), TikaBudget(0,0,0,1,1), TikaBudget(1,0,0,1,0)}
FilesHeld   == <<[msg |-> 1, kind |-> "good"], [msg |-> 1, kind |-> "killer"],
                 [msg |-> 2, kind |-> "slow"], [msg |-> 2, kind |-> "good"]>>

I == INSTANCE Indexer WITH Batch <- EXTRACT_BATCH, left <- ills, Budgets <- TikaBudgets

Asked(q) ==
    <<[kind |-> "ignore", word |-> "a"], [kind |-> "ignore", word |-> "A"],
      [kind |-> "ignore", word |-> "b"], [kind |-> "put", words |-> {"c"}],
      [kind |-> "enable", on |-> FALSE]>>[q]
Folded(w) == IF w = "A" THEN "a" ELSE w

Q == INSTANCE SettingsRow

G == INSTANCE Guard

M == INSTANCE Segments

AgentBudget(fail, drop, kill) == [fail |-> fail, drop |-> drop, kill |-> kill]

A == INSTANCE AgentLoop WITH
        Folder <- {"inbox", "arch"}, MaxAsk <- 2, Partial <- FALSE, at <- selected,
        left <- faults,
        Budgets <- {AgentBudget(2,0,0), AgentBudget(0,1,1), AgentBudget(1,0,1), AgentBudget(1,1,0)}

W == INSTANCE Watchdog WITH
        Security <- {"ssl", "starttls", "plain"}, Early <- FALSE, MaxConnect <- 3, at <- calling

FillBudget(store, rewrite, remove, fail) ==
    [store |-> store, rewrite |-> rewrite, remove |-> remove, fail |-> fail]

FillTrouble == {FillBudget(1,1,0,1), FillBudget(0,2,1,0), FillBudget(1,1,1,0)}

B == INSTANCE Backfill WITH Batch <- BATCH, left <- budget, Budgets <- FillBudgets

----------------------------------------------------------------------------
NoContent ==
    /\ copies = {} /\ stage = [m \in Mail |-> 0] /\ old = {}
    /\ config = [window |-> FALSE, cap |-> FALSE] /\ rows = <<>> /\ place = [c \in Copy |-> 0]
    /\ rewalk = {} /\ memo = [c \in Copy |-> 0] /\ sweep = NoSweep /\ kept = {} /\ lagged = {}
    /\ left = ContentBudget(0,0,0,0,0,0)
NoIndexer ==
    /\ atts = 0 /\ search = 0 /\ rollup = 0 /\ tika = 0 /\ drain = 0 /\ losses = 0
    /\ stalled = 0 /\ ills = 0
NoGuard    == clock = 0 /\ dns = 0 /\ true_at = 0 /\ cache = 0 /\ thread = 0
NoSegments == segments = 0 /\ match = 0 /\ where = 0
NoAgent ==
    /\ pc = 0 /\ wake = 0 /\ listening = 0 /\ notified = 0 /\ requested = 0 /\ cursor = 0
    /\ taken = 0 /\ todo = 0 /\ selected = 0 /\ full = 0 /\ looped = 0 /\ asked = 0
    /\ began = 0 /\ answered = 0 /\ lost = 0 /\ faults = 0
NoWatchdog ==
    /\ security = 0 /\ calling = 0 /\ blocked = 0 /\ deadline = 0 /\ watched = 0 /\ held = 0
    /\ client = 0 /\ up = 0 /\ silent = 0 /\ overdue = 0 /\ made = 0
NoBackfill ==
    /\ migrated = 0 /\ newer = 0 /\ content = 0 /\ search_tsv = 0 /\ body_sig = 0 /\ index = 0
    /\ prints = 0 /\ ready = 0 /\ budget = 0

indexerVars  == <<atts, search, rollup, tika, drain, losses, stalled, ills>>
settingsVars == <<row, lock, at, read, reply>>
guardVars    == <<clock, dns, true_at, cache, thread>>
segmentVars  == <<segments, match, where>>
agentVars    == <<pc, wake, listening, notified, requested, cursor, taken, todo, selected, full,
                  looped, asked, began, answered, lost, faults>>
watchdogVars == <<security, calling, blocked, deadline, watched, held, client, up, silent,
                  overdue, made>>
backfillVars == <<migrated, newer, content, search_tsv, body_sig, index, prints, ready, budget>>
upkeepVars == <<part, vars, indexerVars, settingsVars, guardVars, segmentVars, agentVars,
          watchdogVars, backfillVars>>

\* SettingsRow has one initial state, and is in it wherever it does not run.
UpkeepInit ==
    /\ part \in {"content", "indexer", "settings", "guard", "segments", "agent", "watchdog",
                 "backfill"}
    /\ Q!Init
    /\ IF part = "content"  THEN Init ELSE NoContent
    /\ IF part = "indexer"  THEN I!Init ELSE NoIndexer
    /\ IF part = "guard"    THEN G!Init ELSE NoGuard
    /\ IF part = "segments" THEN M!Init ELSE NoSegments
    /\ IF part = "agent"    THEN A!Init ELSE NoAgent
    /\ IF part = "watchdog" THEN W!Init ELSE NoWatchdog
    /\ IF part = "backfill" THEN B!Init ELSE NoBackfill

UpkeepNext ==
    \/ /\ part = "content" /\ Next
       /\ UNCHANGED <<part, indexerVars, settingsVars, guardVars, segmentVars, agentVars,
                      watchdogVars, backfillVars>>
    \/ /\ part = "indexer" /\ I!Next
       /\ UNCHANGED <<part, vars, settingsVars, guardVars, segmentVars, agentVars,
                      watchdogVars, backfillVars>>
    \/ /\ part = "settings" /\ Q!Next
       /\ UNCHANGED <<part, vars, indexerVars, guardVars, segmentVars, agentVars,
                      watchdogVars, backfillVars>>
    \/ /\ part = "guard" /\ G!Next
       /\ UNCHANGED <<part, vars, indexerVars, settingsVars, segmentVars, agentVars,
                      watchdogVars, backfillVars>>
    \/ /\ part = "segments" /\ M!Next
       /\ UNCHANGED <<part, vars, indexerVars, settingsVars, guardVars, agentVars,
                      watchdogVars, backfillVars>>
    \/ /\ part = "agent" /\ A!Next
       /\ UNCHANGED <<part, vars, indexerVars, settingsVars, guardVars, segmentVars,
                      watchdogVars, backfillVars>>
    \/ /\ part = "watchdog" /\ W!Next
       /\ UNCHANGED <<part, vars, indexerVars, settingsVars, guardVars, segmentVars,
                      agentVars, backfillVars>>
    \/ /\ part = "backfill" /\ B!Next
       /\ UNCHANGED <<part, vars, indexerVars, settingsVars, guardVars, segmentVars,
                      agentVars, watchdogVars>>

UpkeepSpec == UpkeepInit /\ [][UpkeepNext]_upkeepVars

\* The Fairness of each module, where it runs.
ContentFair ==
    /\ WF_vars(part = "content" /\ Repair)
    /\ WF_vars(part = "content" /\ Steady)
    /\ WF_vars(part = "content" /\ Assembles)
IndexerFair ==
    /\ WF_indexerVars(part = "indexer" /\ I!TikaRecovers)
    /\ WF_indexerVars(part = "indexer" /\ I!DrainStep(Agent))
AgentFair ==
    /\ WF_agentVars(part = "agent" /\ A!Starts) /\ WF_agentVars(part = "agent" /\ A!Works)
    /\ WF_agentVars(part = "agent" /\ A!_handle)
    /\ WF_agentVars(part = "agent" /\ A!_listen_forever)
    /\ WF_agentVars(part = "agent" /\ lost /\ A!PollsOut)
WatchdogFair ==
    /\ WF_watchdogVars(part = "watchdog" /\ W!Sync)
    /\ WF_watchdogVars(part = "watchdog" /\ W!Passes /\ silent)
    /\ WF_watchdogVars(part = "watchdog" /\ W!_watch_forever)
    /\ WF_watchdogVars(part = "watchdog" /\ W!abort)

----------------------------------------------------------------------------
\* Mail stored short is whole in the end (_repair_short_content).
Repaired == ContentFair => []<>(part = "content" => NoneClipped)

\* No attachment is given up for what another did to Tika (_extract_one).
NoBystander == part = "indexer" => I!NoBystander

\* A search finds a message by exactly the attachments whose text it has.
Searchable == part = "indexer" => I!Searchable

\* No file keeps the queue from running empty (extract_pending).
Drained == IndexerFair => []<>(part = "indexer" => I!NoneOwed)

\* Overlapping requests change a settings row as if one after another (_save).
Serialised == Q!Serialised

\* What a request is let through or turned down by is no older than its TTL (_guard).
FreshVerdict == part = "guard" => G!FreshVerdict

\* An underline stands under the units the checker meant (join_segments, _locate).
Underlined == part = "segments" => M!Underlined

\* Every press of a button is answered by a pass that began after it.
Heard == AgentFair => []<>(part = "agent" => A!AllAnswered)

\* No call parks the sync thread for good (_watch_forever, abort).
Unparked == WatchdogFair => ((part = "watchdog" /\ silent) ~> (part = "watchdog" => ~silent))

\* Once keyword search trusts the index, it finds every message (_index_built).
IndexHonest == part = "backfill" => B!IndexHonest
=============================================================================
