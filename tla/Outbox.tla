------------------------------- MODULE Outbox -------------------------------
(***************************************************************************)
(* The life of a message between "Send" and the SMTP server.               *)
(*                                                                         *)
(* Two kinds of process share one Postgres.  The server turns a compose    *)
(* request into an outbound row and a queue row (a PendingAction of type   *)
(* send), and its Outbox screen rewrites both: retry, cancel, discard.  An *)
(* agent reads the due queue rows, leases one at a time, talks SMTP        *)
(* outside any transaction and settles the outcome.                        *)
(*                                                                         *)
(* Both sides use SQLAlchemy sessions at READ COMMITTED.  A row a session  *)
(* has loaded is not re-read by a later SELECT, FOR UPDATE included, until *)
(* that session commits or rolls back, and a flush writes only the columns *)
(* whose new value differs from the loaded one.  The snapshots (seen,      *)
(* state, act) and the operators Kept and Written are those rules.         *)
(*                                                                         *)
(* Left out: the order of the queue (any due row may be next), the types   *)
(* of action other than send, and the two instants of a row's clocks,      *)
(* which are reduced to what a reader asks of them: wait and lapsed.       *)
(***************************************************************************)
EXTENDS Integers, FiniteSets

CONSTANTS
    Msg,          \* messages
    Slot,         \* queue rows a message can come to have: a set of numbers
    Agent,        \* agent processes sharing the database
    Window,       \* requests the Outbox screens can have in flight
    Legacy,       \* what an older version left: subset of {"retired", "rowless"}
    MaxAttempts,  \* bound: failures the SMTP server answers one row with
    MaxCrash,     \* bound: agents killed
    MaxPress      \* bound: buttons pressed in the Outbox

ASSUME SlotAssumption   == Slot \subseteq Nat /\ 1 \in Slot
ASSUME LegacyAssumption == Legacy \subseteq {"retired", "rowless"}
ASSUME BoundAssumption  == MaxAttempts \in Nat /\ MaxCrash \in Nat /\ MaxPress \in Nat

VARIABLES
    outbound,   \* Outbound.state of each message
    action,     \* the queue rows
    copies,     \* save_sent rows queued for a message
    pc, queue, cur, seen, state, answer,   \* each agent's drain_actions frame
    win,        \* each window's request
    accepted,   \* history: times the server took the message
    lost,       \* history: of these, times the agent died before settling
    resends,    \* history: times the user resent one that may have arrived
    told,       \* history: the last answer the Outbox gave about the message
    crashes, presses

db      == <<outbound, action, copies>>
frame   == <<pc, queue, cur, seen, state, answer>>
history == <<accepted, lost, resends, told>>
vars    == <<db, frame, win, history, crashes, presses>>

-----------------------------------------------------------------------------
Row    == Msg \X Slot
NoRow  == <<>>
MsgOf(r)  == r[1]
RowsOf(m) == {m} \X Slot

Unsent   == {"queued", "held", "error"}
States   == Unsent \cup {"none", "sent", "gone"}
Statuses == {"none", "pending", "leased", "held", "error", "done"}
Verbs    == {"retry", "cancel", "discard"}
Answers  == {"none", "accepted", "failed", "unknown", "unheard"}

\* status "none" is a row that does not exist.  wait says which clock _due
\* still finds running; lapsed, that a lease was last renewed a TTL ago.
QueueRow == [status : Statuses, attempts : Nat,
             wait : {"due", "delay", "backoff"}, unknown : BOOLEAN, lapsed : BOOLEAN]

Queued(wait) == [status |-> "pending", attempts |-> 0, wait |-> wait,
                 unknown |-> FALSE, lapsed |-> FALSE]
NoAction == [Queued("due") EXCEPT !.status = "none"]
Retired  == [Queued("due") EXCEPT !.status = "error"]

Request == [verb : Verbs, msg : Msg, at : {"loaded", "claimed"}, state : Unsent,
            row : Row \cup {NoRow}, act : QueueRow, locks : SUBSET Row]
NoRequest == [at |-> "idle", locks |-> {}]

\* What a flush stores in a column the session loaded as old and now holds
\* as new: one it did not change keeps what is stored.
Kept(stored, old, new) == IF new = old THEN stored ELSE new

\* The same of every column of a queue row.
Written(stored, old, new) ==
    [status   |-> Kept(stored.status, old.status, new.status),
     attempts |-> Kept(stored.attempts, old.attempts, new.attempts),
     wait     |-> Kept(stored.wait, old.wait, new.wait),
     unknown  |-> Kept(stored.unknown, old.unknown, new.unknown),
     lapsed   |-> Kept(stored.lapsed, old.lapsed, new.lapsed)]

Exists(r) == action[r].status # "none"
Locked(r) == \E w \in Window : r \in win[w].locks
Due(x)    == x.wait = "due"

\* Some definitions are preceded by a variant holding a bug the code could
\* plausibly have had; no specification uses the variants.

\* Variant: a lease is for ever.
ClaimableNeverReclaims(x) == x.status = "pending" /\ Due(x)

\* _claimable
Claimable(x) == \/ x.status = "pending" /\ Due(x)
                \/ x.status = "leased" /\ x.lapsed

\* Does a living agent hold the lease on r?  Its keeper then renews it.
Working(a, r) == cur[a] = r /\ pc[a] \in {"leased", "talking", "answered"}

-----------------------------------------------------------------------------
\* A message is not yet written, or is one an older agent gave up on: with
\* its retired queue row still there, or with no queue row at all.
Init ==
    /\ \E old \in [Msg -> Legacy \cup {"none"}] :
         /\ outbound = [m \in Msg |-> IF old[m] = "none" THEN "none" ELSE "error"]
         /\ action = [r \in Row |-> IF old[MsgOf(r)] = "retired" /\ r[2] = 1
                                    THEN Retired ELSE NoAction]
    /\ copies = [m \in Msg |-> 0]
    /\ pc = [a \in Agent |-> "idle"]
    /\ queue = [a \in Agent |-> {}]
    /\ cur = [a \in Agent |-> NoRow]
    /\ seen = [a \in Agent |-> NoAction]
    /\ state = [a \in Agent |-> "none"]
    /\ answer = [a \in Agent |-> "none"]
    /\ win = [w \in Window |-> NoRequest]
    /\ accepted = [m \in Msg |-> 0]
    /\ lost = [m \in Msg |-> 0]
    /\ resends = [m \in Msg |-> 0]
    /\ told = [m \in Msg |-> "none"]
    /\ crashes = 0
    /\ presses = 0

-----------------------------------------------------------------------------
(* The server: composing, and the three verbs of the Outbox.               *)

\* POST /send: the message and its queue row, with or without a send delay.
Send(m) ==
    /\ outbound[m] = "none"
    /\ outbound' = [outbound EXCEPT ![m] = "queued"]
    /\ \E wait \in {"due", "delay"} :
         action' = [action EXCEPT ![<<m, 1>>] = Queued(wait)]
    /\ UNCHANGED <<copies, frame, win, history, crashes, presses>>

\* _load: the outbound row as the request first sees it, before any lock.
Load(w, m, verb) ==
    /\ win[w] = NoRequest
    /\ presses < MaxPress
    /\ outbound[m] \in Unsent
    /\ win' = [win EXCEPT ![w] = [verb |-> verb, msg |-> m, at |-> "loaded",
                                  state |-> outbound[m], row |-> NoRow,
                                  act |-> NoAction, locks |-> {}]]
    /\ presses' = presses + 1
    /\ UNCHANGED <<db, frame, history, crashes>>

\* Variant: the Outbox does not look for a lease.
BeingSentUnchecked(rows) == FALSE

\* The agent is in the middle of one of these rows.
BeingSent(rows) == \E r \in rows : action[r].status = "leased"

\* _claim: wait for the queue rows, then judge them as they are now.
Claim(w) ==
    LET m    == win[w].msg
        rows == {r \in RowsOf(m) : Exists(r)}
        live == {r \in rows : action[r].status # "done"}
    IN
    /\ win[w].at = "loaded"
    /\ \A r \in rows : ~Locked(r)
    /\ IF \/ BeingSent(rows)
          \/ live = {} /\ (rows # {} \/ outbound[m] \notin Unsent)
       THEN win' = [win EXCEPT ![w] = NoRequest]                        \* 409
       ELSE \E r \in IF live = {} THEN {NoRow}
                     ELSE {x \in live : \A y \in live : x[2] <= y[2]} :
              win' = [win EXCEPT ![w].at = "claimed", ![w].row = r,
                                 ![w].act = IF r = NoRow THEN NoAction ELSE action[r],
                                 ![w].locks = rows]
    /\ UNCHANGED <<db, frame, history, crashes, presses>>

\* The end of a request: its locks go with its transaction.
Answer(w, reply) ==
    /\ win' = [win EXCEPT ![w] = NoRequest]
    /\ told' = [told EXCEPT ![win[w].msg] = reply]

\* retry, from the claim to the commit.  A message with no live row gets a
\* new one; another has both its clocks cleared.
Retry(w) ==
    LET m == win[w].msg
        r == win[w].row
        x == win[w].act
    IN
    /\ win[w].at = "claimed" /\ win[w].verb = "retry"
    /\ outbound[m] # "gone"
    /\ IF r = NoRow
       THEN \E s \in Slot :
              /\ ~Exists(<<m, s>>) /\ \A t \in Slot : t < s => Exists(<<m, t>>)
              /\ action' = [action EXCEPT ![<<m, s>>] = Queued("due")]
       ELSE action' = [action EXCEPT ![r] =
                         Written(@, x, [x EXCEPT !.status = "pending", !.wait = "due"])]
    /\ outbound' = [outbound EXCEPT ![m] = Kept(@, win[w].state, "queued")]
    /\ resends' = [resends EXCEPT ![m] =
                     IF x.unknown /\ x.status = "held" THEN @ + 1 ELSE @]
    /\ Answer(w, "queued")
    /\ UNCHANGED <<copies, frame, accepted, lost, crashes, presses>>

\* cancel, from the claim on.  A message it loaded as held is already
\* cancelled: it says so and writes nothing.
Cancel(w) ==
    LET m == win[w].msg
        r == win[w].row
        x == win[w].act
    IN
    /\ win[w].at = "claimed" /\ win[w].verb = "cancel"
    /\ IF win[w].state = "held"
       THEN UNCHANGED <<outbound, action>>
       ELSE /\ outbound[m] # "gone"
            /\ action' = IF r = NoRow THEN action
                         ELSE [action EXCEPT ![r] = Written(@, x, [x EXCEPT !.status = "held"])]
            /\ outbound' = [outbound EXCEPT ![m] = Kept(@, win[w].state, "held")]
    /\ Answer(w, "held")
    /\ UNCHANGED <<copies, frame, accepted, lost, resends, crashes, presses>>

\* discard, from the claim to the commit: both rows are deleted.
Discard(w) ==
    LET m == win[w].msg
        r == win[w].row
    IN
    /\ win[w].at = "claimed" /\ win[w].verb = "discard"
    /\ outbound[m] # "gone"
    /\ action' = IF r = NoRow THEN action ELSE [action EXCEPT ![r] = NoAction]
    /\ outbound' = [outbound EXCEPT ![m] = "gone"]
    /\ Answer(w, "discarded")
    /\ UNCHANGED <<copies, frame, accepted, lost, resends, crashes, presses>>

\* A verb that finds at its flush that the message was deleted under it
\* fails: a 500, a rollback, and nothing written.
Vanished(w) ==
    /\ win[w].at = "claimed"
    /\ outbound[win[w].msg] = "gone"
    /\ ~(win[w].verb = "cancel" /\ win[w].state = "held")
    /\ win' = [win EXCEPT ![w] = NoRequest]
    /\ UNCHANGED <<db, frame, history, crashes, presses>>

-----------------------------------------------------------------------------
(* The agent: one pass of drain_actions over the sends.                    *)

\* Return to the pass, with rest still to do and every loaded row expired.
NextRow(a, rest) ==
    /\ pc' = [pc EXCEPT ![a] = IF rest = {} THEN "idle" ELSE "pass"]
    /\ queue' = [queue EXCEPT ![a] = rest]
    /\ cur' = [cur EXCEPT ![a] = NoRow]
    /\ seen' = [seen EXCEPT ![a] = NoAction]
    /\ state' = [state EXCEPT ![a] = "none"]
    /\ answer' = [answer EXCEPT ![a] = "none"]

\* An exception outside _drain_leased's try, or the process dying: the pass
\* ends here and the transaction it was in is rolled back.
PassDies(a) == NextRow(a, {})

\* due_queue.  The first row it hands out is judged on this very read.
DueQueue(a) ==
    LET due == {r \in Row : /\ \/ action[r].status = "pending"
                               \/ action[r].status = "leased" /\ action[r].lapsed
                            /\ Due(action[r])}
    IN
    /\ pc[a] = "idle"
    /\ \E r \in due :
         /\ cur' = [cur EXCEPT ![a] = r]
         /\ seen' = [seen EXCEPT ![a] = action[r]]
         /\ queue' = [queue EXCEPT ![a] = due \ {r}]
    /\ pc' = [pc EXCEPT ![a] = "picked"]
    /\ UNCHANGED <<state, answer, db, win, history, crashes, presses>>

\* The next row of the pass.  The last commit or rollback expired it, so its
\* first use reads it again; a row deleted meanwhile ends the pass.
Reload(a) ==
    /\ pc[a] = "pass"
    /\ \E r \in queue[a] :
         IF Exists(r)
         THEN /\ pc' = [pc EXCEPT ![a] = "picked"]
              /\ cur' = [cur EXCEPT ![a] = r]
              /\ seen' = [seen EXCEPT ![a] = action[r]]
              /\ queue' = [queue EXCEPT ![a] = @ \ {r}]
              /\ UNCHANGED <<state, answer>>
         ELSE PassDies(a)
    /\ UNCHANGED <<db, win, history, crashes, presses>>

\* _lease.  The row is locked, skipped if somebody else has it, but judged on
\* the copy loaded before the lock.
Lease(a) ==
    LET r == cur[a]
        x == seen[a]
    IN
    /\ pc[a] = "picked"
    /\ IF Locked(r) \/ ~Exists(r) \/ ~Claimable(x)
       THEN NextRow(a, queue[a]) /\ UNCHANGED action
       ELSE /\ action' = [action EXCEPT ![r] =
                            [Written(@, x, [x EXCEPT !.status = "leased"])
                               EXCEPT !.lapsed = FALSE]]
            /\ pc' = [pc EXCEPT ![a] = "leased"]
            /\ UNCHANGED <<queue, cur, seen, state, answer>>
    /\ UNCHANGED <<outbound, copies, win, history, crashes, presses>>

\* apply_action up to the SMTP conversation: the row as the lease left it,
\* and the message.  One that is no longer there cannot be sent.
Begin(a) ==
    LET r == cur[a] IN
    /\ pc[a] = "leased"
    /\ IF Exists(r)
       THEN /\ seen' = [seen EXCEPT ![a] = action[r]]
            /\ state' = [state EXCEPT ![a] = outbound[MsgOf(r)]]
            /\ pc' = [pc EXCEPT ![a] = IF outbound[MsgOf(r)] = "gone"
                                       THEN "answered" ELSE "talking"]
            /\ answer' = [answer EXCEPT ![a] = IF outbound[MsgOf(r)] = "gone"
                                               THEN "failed" ELSE "none"]
            /\ UNCHANGED <<queue, cur>>
       ELSE PassDies(a)
    /\ UNCHANGED <<db, win, history, crashes, presses>>

\* send_raw: what the conversation came to.  "accepted" includes a message
\* some recipients were refused for, which settles the same way; "unknown"
\* and "unheard" are a connection lost while waiting for the last reply, with
\* the message taken and not taken.
Converse(a) ==
    /\ pc[a] = "talking"
    /\ \E ans \in {"accepted", "failed", "unknown", "unheard"} :
         /\ ans # "accepted" => seen[a].attempts < MaxAttempts
         /\ answer' = [answer EXCEPT ![a] = ans]
         /\ accepted' = IF ans \in {"accepted", "unknown"}
                        THEN [accepted EXCEPT ![MsgOf(cur[a])] = @ + 1] ELSE accepted
    /\ pc' = [pc EXCEPT ![a] = "answered"]
    /\ UNCHANGED <<queue, cur, seen, state, db, win, lost, resends, told, crashes, presses>>

\* Variant: an unknown delivery is retried like any other failure.
OutcomeRetriesUnknown(x, ans) ==
    [x EXCEPT !.attempts = IF @ > MaxAttempts THEN @ ELSE @ + 1, !.wait = "backoff",
              !.status = IF ans = "accepted" THEN "done" ELSE "pending"]

\* Variant: a row that has failed too often is given up on.
OutcomeGivesUp(x, ans) ==
    [x EXCEPT !.attempts = @ + 1, !.wait = "backoff",
              !.unknown = @ \/ ans \in {"unknown", "unheard"},
              !.status = CASE ans = "accepted" -> "done"
                           [] ans = "failed" -> IF x.attempts + 1 < MaxAttempts THEN "pending" ELSE "error"
                           [] OTHER -> "held"]

\* What an attempt's outcome writes: _settle and _settle_unknown.  The count
\* stops one above its bound, where nothing tells two of its values apart.
Outcome(x, ans) ==
    [x EXCEPT !.attempts = IF @ > MaxAttempts THEN @ ELSE @ + 1,
              !.wait = "backoff",
              !.unknown = @ \/ ans \in {"unknown", "unheard"},
              !.status = CASE ans = "accepted" -> "done"
                           [] ans = "failed"   -> "pending"
                           [] OTHER            -> "held"]

\* Variant: a message nobody answered for is taken for sent.
OutcomeStateOptimistic(ans) == IF ans = "failed" THEN "queued" ELSE "sent"

OutcomeState(ans) == CASE ans = "accepted" -> "sent"
                       [] ans = "failed"   -> "queued"
                       [] OTHER            -> "held"

\* The end of _drain_leased: outcome, message and the copy for Sent in one
\* commit.  A row deleted meanwhile fails the flush and ends the pass.
Settle(a) ==
    LET r == cur[a]
        m == MsgOf(r)
    IN
    /\ pc[a] = "answered"
    /\ ~Locked(r)
    /\ IF Exists(r)
       THEN /\ action' = [action EXCEPT ![r] = Written(@, seen[a], Outcome(seen[a], answer[a]))]
            /\ outbound' = IF outbound[m] = "gone" THEN outbound
                           ELSE [outbound EXCEPT ![m] =
                                   Kept(@, state[a], OutcomeState(answer[a]))]
            /\ \E wants \in BOOLEAN :      \* _wants_sent_copy, or could not tell
                 copies' = IF answer[a] = "accepted" /\ wants
                           THEN [copies EXCEPT ![m] = @ + 1] ELSE copies
            /\ NextRow(a, queue[a])
       ELSE PassDies(a) /\ UNCHANGED db
    /\ UNCHANGED <<win, history, crashes, presses>>

\* An agent is killed, or its pass dies on a database error.  What it leased
\* stays leased.
Crash(a) ==
    /\ pc[a] # "idle"
    /\ crashes < MaxCrash
    /\ crashes' = crashes + 1
    /\ lost' = IF answer[a] \in {"accepted", "unknown"}
               THEN [lost EXCEPT ![MsgOf(cur[a])] = @ + 1] ELSE lost
    /\ PassDies(a)
    /\ UNCHANGED <<db, win, accepted, resends, told, presses>>

\* abandoned
Abandoned(x) == x.status = "error"

\* agent --requeue-abandoned: every row an older version retired.
RequeueAbandoned ==
    LET retired == {r \in Row : Abandoned(action[r])} IN
    /\ retired # {}
    /\ \A r \in retired : ~Locked(r)
    /\ action' = [r \in Row |-> IF r \in retired THEN Queued("due") ELSE action[r]]
    /\ outbound' = [m \in Msg |-> IF outbound[m] = "error" /\ retired \cap RowsOf(m) # {}
                                  THEN "queued" ELSE outbound[m]]
    /\ UNCHANGED <<copies, frame, win, history, crashes, presses>>

-----------------------------------------------------------------------------
(* Time.                                                                   *)

\* A send delay or a backoff runs out.
WaitEnds(r) ==
    /\ action[r].wait # "due"
    /\ action[r].status = "pending"
    /\ action' = [action EXCEPT ![r].wait = "due"]
    /\ UNCHANGED <<outbound, copies, frame, win, history, crashes, presses>>

\* A lease nobody renews has been silent for its TTL, which is no shorter
\* than the longest backoff.
LeaseLapses(r) ==
    /\ action[r].status = "leased" /\ ~action[r].lapsed
    /\ \A a \in Agent : ~Working(a, r)
    /\ action' = [action EXCEPT ![r].lapsed = TRUE, ![r].wait = "due"]
    /\ UNCHANGED <<outbound, copies, frame, win, history, crashes, presses>>

-----------------------------------------------------------------------------
AgentStep(a) == DueQueue(a) \/ Reload(a) \/ Lease(a) \/ Begin(a) \/ Converse(a) \/ Settle(a)
WindowStep(w) == Claim(w) \/ Retry(w) \/ Cancel(w) \/ Discard(w) \/ Vanished(w)

Next ==
    \/ \E m \in Msg : Send(m)
    \/ \E w \in Window, m \in Msg, verb \in Verbs : Load(w, m, verb)
    \/ \E w \in Window : Claim(w)
    \/ \E w \in Window : Retry(w)
    \/ \E w \in Window : Cancel(w)
    \/ \E w \in Window : Discard(w)
    \/ \E w \in Window : Vanished(w)
    \/ \E a \in Agent : DueQueue(a)
    \/ \E a \in Agent : Reload(a)
    \/ \E a \in Agent : Lease(a)
    \/ \E a \in Agent : Begin(a)
    \/ \E a \in Agent : Converse(a)
    \/ \E a \in Agent : Settle(a)
    \/ \E a \in Agent : Crash(a)
    \/ RequeueAbandoned
    \/ \E r \in Row : WaitEnds(r)
    \/ \E r \in Row : LeaseLapses(r)

Spec == Init /\ [][Next]_vars

\* The sync loop runs a pass again and again, a request that has begun
\* finishes, and time passes.  Nothing obliges a user to press anything, an
\* agent to be killed or an operator to requeue what was retired.
Fairness ==
    /\ \A a \in Agent : WF_vars(AgentStep(a))
    /\ \A w \in Window : WF_vars(WindowStep(w))
    /\ \A r \in Row : WF_vars(WaitEnds(r) \/ LeaseLapses(r))

FairSpec == Spec /\ Fairness

-----------------------------------------------------------------------------
(* Properties.                                                             *)

\* Every variable keeps its type, and an agent past its pick has a row in hand.
TypeOK ==
    /\ outbound \in [Msg -> States]
    /\ action \in [Row -> QueueRow]
    /\ copies \in [Msg -> Nat]
    /\ pc \in [Agent -> {"idle", "pass", "picked", "leased", "talking", "answered"}]
    /\ queue \in [Agent -> SUBSET Row]
    /\ cur \in [Agent -> Row \cup {NoRow}]
    /\ \A a \in Agent : pc[a] \notin {"idle", "pass"} => cur[a] \in Row
    /\ seen \in [Agent -> QueueRow]
    /\ state \in [Agent -> States]
    /\ answer \in [Agent -> Answers]
    /\ win \in [Window -> Request \cup {NoRequest}]
    /\ accepted \in [Msg -> Nat]
    /\ lost \in [Msg -> Nat]
    /\ resends \in [Msg -> Nat]
    /\ told \in [Msg -> {"none", "queued", "held", "discarded"}]
    /\ crashes \in Nat
    /\ presses \in Nat

\* A message is shown as sent, and a copy of it is owed to Sent, only when
\* an SMTP server did take it: send_raw's every answer reaches _settle, and
\* no crash, retry or second agent turns a failed attempt into a sent one.
SentMeansAccepted ==
    \A m \in Msg : outbound[m] = "sent" \/ copies[m] > 0 => accepted[m] > 0

\* Nothing waiting to be sent is lost: a message the Outbox shows as queued
\* has a queue row some agent will take, now, after its clocks, or after the
\* lease of a dead agent.  There is no state in which it only looks queued.
\* (With one agent; two that lease the same row can part the row and the
\* message, see LeaseIsExclusive.)
QueuedIsLive ==
    \A m \in Msg : outbound[m] = "queued" =>
        \E r \in RowsOf(m) : action[r].status \in {"pending", "leased"}

\* An agent that has been told "accepted" has it from the server.
AnswersAreHonest ==
    \A a \in Agent : answer[a] = "accepted" =>
        pc[a] = "answered" /\ accepted[MsgOf(cur[a])] > 0

\* A message goes out twice only when somebody resent what may have arrived
\* (the "delivery unknown" park) or an agent died between the server's answer
\* and the commit that records it.
NoSpontaneousDuplicate ==
    \A m \in Msg : accepted[m] <= 1 + resends[m] + lost[m]

\* The invariant behind it, for one agent and one queue row a message.  A
\* message has a delivery to spare while fewer have been made than the user
\* asked for again and crashes lost.
Spare(m) == accepted[m] <= resends[m] + lost[m]

\* A row that will be sent without anybody being asked again has a delivery
\* to spare, and so has the row an agent is about to send.
RowHasSpare(r) ==
    \/ Spare(MsgOf(r))
    \/ action[r].status = "done"
    \/ action[r].status = "held" /\ action[r].unknown
    \/ action[r].status = "none" /\ outbound[MsgOf(r)] = "gone"
    \/ \E a \in Agent : cur[a] = r /\ answer[a] \in {"accepted", "unknown"}

AgentHasSpare(a) ==
    \/ pc[a] \in {"idle", "pass"}
    \/ pc[a] = "picked" /\ seen[a].status \notin {"pending", "leased"}
    \/ answer[a] \in {"accepted", "unknown"}
    \/ Spare(MsgOf(cur[a]))

SpareToSend ==
    /\ \A r \in Row : RowHasSpare(r)
    /\ \A a \in Agent : AgentHasSpare(a)

\* The row an agent has leased stays leased, and as it loaded it, until that
\* agent settles it.
LeaseLasts ==
    \A a \in Agent :
        /\ answer[a] # "none" => pc[a] = "answered"
        /\ pc[a] = "picked" /\ seen[a].status = "leased" => action[cur[a]].status = "leased"
        /\ pc[a] \in {"leased", "talking", "answered"} => action[cur[a]].status = "leased"
        /\ pc[a] \in {"talking", "answered"} =>
             seen[a].status = "leased" /\ seen[a].unknown = action[cur[a]].unknown

\* A request past its claim alone holds the lock on the row it judged, and
\* the row is as it judged it.
ClaimIsCurrent ==
    \A w \in Window : win[w].at = "claimed" /\ win[w].row # NoRow =>
        LET r == win[w].row IN
        /\ MsgOf(r) = win[w].msg
        /\ win[w].act.status = action[r].status
        /\ win[w].act.unknown = action[r].unknown
        /\ action[r].status \in {"pending", "held", "error"}
        /\ r \in win[w].locks
        /\ \A v \in Window : r \in win[v].locks => v = w

\* A message that is not written has no queue row, and no request is about it.
UnwrittenIsUntouched ==
    \A m \in Msg : outbound[m] = "none" =>
        /\ \A r \in RowsOf(m) : ~Exists(r)
        /\ \A w \in Window : win[w].at # "idle" => win[w].msg # m

AtMostOnceInv == /\ NoSpontaneousDuplicate /\ SpareToSend /\ LeaseLasts
                 /\ ClaimIsCurrent /\ UnwrittenIsUntouched

\* Once discard has answered, the message never goes out, whatever an agent
\* had already read of its queue row.
DiscardIsFinal ==
    [][\A m \in Msg : told[m] = "discarded" =>
          accepted'[m] = accepted[m] /\ outbound'[m] = "gone"]_vars

\* Nothing but the user takes a parked send out of "held", neither one they
\* cancelled nor one whose delivery is unknown; the one exception is a lease
\* taken on a copy of the row loaded before it was parked.
OnlyUserUnparks ==
    [][\A r \in Row : action[r].status = "held" /\ action'[r].status # "held" =>
          \/ \E w \in Window : /\ win[w].at = "claimed" /\ win[w].row = r
                              /\ (Retry(w) \/ Discard(w))
          \/ \E a \in Agent : pc[a] = "picked" /\ cur[a] = r /\ seen[a].status # "held"]_vars

\* A message in the queue is eventually out of it: sent, parked or discarded.
\* Crashes and dead leases, failures and backoffs only delay it.
QueuedLeaves ==
    \A m \in Msg : outbound[m] = "queued" ~> outbound[m] # "queued"

\* What cancel promises ("There is no window left in which 'cancelled' can
\* mean 'already sent'", app/routers/outbox.py): a message whose last answer
\* was "held" is not handed to the server.
CancelHonoured ==
    [][\A m \in Msg : told[m] = "held" => accepted'[m] = accepted[m]]_vars

\* What the lease promises ("the first to reach the row gets it and the
\* second is handed nothing", agent/actions.py): one agent at a time on a row.
LeaseIsExclusive ==
    \A a, b \in Agent : \A r \in Row : Working(a, r) /\ Working(b, r) => a = b

\* What "held" promises ("no queue row, no clock, and nothing will happen to
\* it until someone presses Send now", app/routers/outbox.py): no row of a
\* held message is waiting for an agent.
HeldIsParked ==
    \A m \in Msg : outbound[m] = "held" =>
        \A r \in RowsOf(m) : action[r].status \notin {"pending", "leased"}

\* What the answer to a cancel says, between the screens alone: after
\* "held", and until another answer, no row of the message is pending.
CancelledIsParked ==
    \A m \in Msg : told[m] = "held" =>
        \A r \in RowsOf(m) : action[r].status # "pending"
=============================================================================
