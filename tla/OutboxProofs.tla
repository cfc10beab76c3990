---------------------------- MODULE OutboxProofs ----------------------------
(* What holds of Outbox for every set of messages, agents and windows. *)
EXTENDS Outbox, TLAPS

\* A flush of well-typed copies leaves a well-typed row.
LEMMA WrittenType ==
    ASSUME NEW stored \in QueueRow, NEW old \in QueueRow, NEW new \in QueueRow
    PROVE  Written(stored, old, new) \in QueueRow
BY DEF Written, Kept, QueueRow

\* A lease's clock is set without touching the rest of the row.
LEMMA ClockType ==
    ASSUME NEW x \in QueueRow, NEW late \in BOOLEAN
    PROVE  /\ [x EXCEPT !.lapsed = late] \in QueueRow
           /\ [x EXCEPT !.wait = "due"] \in QueueRow
BY DEF QueueRow

\* The rows the model writes outright are well typed.
LEMMA RowConstants ==
    /\ NoAction \in QueueRow
    /\ Retired \in QueueRow
    /\ Queued("due") \in QueueRow
    /\ Queued("delay") \in QueueRow
BY DEF NoAction, Retired, Queued, QueueRow, Statuses

\* What an attempt records of itself is well typed.
LEMMA OutcomeType ==
    ASSUME NEW x \in QueueRow, NEW ans \in Answers
    PROVE  /\ Outcome(x, ans) \in QueueRow
           /\ OutcomeState(ans) \in States
<1> DEFINE tries == IF x.attempts > MaxAttempts THEN x.attempts ELSE x.attempts + 1
           doubt == x.unknown \/ ans \in {"unknown", "unheard"}
           next  == CASE ans = "accepted" -> "done"
                      [] ans = "failed"   -> "pending"
                      [] OTHER            -> "held"
<1>1. tries \in Nat
  BY BoundAssumption DEF QueueRow
<1>2. doubt \in BOOLEAN
  OBVIOUS
<1>3. next \in Statuses
  BY DEF Statuses
<1>4. Outcome(x, ans) = [x EXCEPT !.attempts = tries, !.wait = "backoff",
                                  !.unknown = doubt, !.status = next]
  BY DEF Outcome
<1> HIDE DEF tries, doubt, next
<1>5. Outcome(x, ans) \in QueueRow
  BY <1>1, <1>2, <1>3, <1>4 DEF QueueRow
<1>6. OutcomeState(ans) \in States
  BY DEF OutcomeState, States, Unsent
<1> QED  BY <1>5, <1>6

LEMMA InitTypeOK == Init => TypeOK
<1> SUFFICES ASSUME Init PROVE TypeOK
  OBVIOUS
<1>1. PICK old \in [Msg -> Legacy \cup {"none"}] :
        /\ outbound = [m \in Msg |-> IF old[m] = "none" THEN "none" ELSE "error"]
        /\ action = [r \in Row |-> IF old[MsgOf(r)] = "retired" /\ r[2] = 1
                                   THEN Retired ELSE NoAction]
  BY DEF Init
<1>2. outbound \in [Msg -> States]
  BY <1>1 DEF States, Unsent
<1>3. action \in [Row -> QueueRow]
  BY <1>1, RowConstants
<1> QED
  BY <1>2, <1>3, RowConstants DEF Init, TypeOK, States, Answers

\* Leaving a row behind keeps the agent's frame well typed.
LEMMA NextRowType ==
    ASSUME TypeOK, NEW a \in Agent, NEW rest \in SUBSET Row, NextRow(a, rest)
    PROVE  /\ pc' \in [Agent -> {"idle", "pass", "picked", "leased", "talking", "answered"}]
           /\ queue' \in [Agent -> SUBSET Row]
           /\ cur' \in [Agent -> Row \cup {NoRow}]
           /\ \A b \in Agent : pc'[b] \notin {"idle", "pass"} => cur'[b] \in Row
           /\ seen' \in [Agent -> QueueRow]
           /\ state' \in [Agent -> States]
           /\ answer' \in [Agent -> Answers]
BY RowConstants DEF TypeOK, NextRow, States, Answers

\* The requests a window makes of the two rows.
LEMMA WindowTypeOK ==
    ASSUME TypeOK, NEW w \in Window
    PROVE  /\ Claim(w) => TypeOK'
           /\ Retry(w) => TypeOK'
           /\ Cancel(w) => TypeOK'
           /\ Discard(w) => TypeOK'
           /\ Vanished(w) => TypeOK'
<1> USE DEF NoRequest
<1>0. win[w].at # "idle" => win[w] \in Request
  BY DEF TypeOK
<1>1. ASSUME Claim(w) PROVE TypeOK'
  <2>1. win[w] \in Request
    BY <1>0, <1>1 DEF Claim
  <2> DEFINE rows == {r \in RowsOf(win[w].msg) : Exists(r)}
  <2>2. rows \in SUBSET Row /\ \A r \in rows : action[r] \in QueueRow
    BY <2>1 DEF TypeOK, RowsOf, Row, Request
  <2>3. win' \in [Window -> Request \cup {NoRequest}]
    <3>1. CASE win' = [win EXCEPT ![w] = NoRequest]
      BY <3>1 DEF TypeOK
    <3>2. CASE win' # [win EXCEPT ![w] = NoRequest]
      <4>1. PICK r \in rows \cup {NoRow} :
              win' = [win EXCEPT ![w].at = "claimed", ![w].row = r,
                                 ![w].act = IF r = NoRow THEN NoAction ELSE action[r],
                                 ![w].locks = rows]
        BY <1>1, <3>2 DEF Claim
      <4>2. (IF r = NoRow THEN NoAction ELSE action[r]) \in QueueRow
        BY <2>2, RowConstants
      <4>3. [win[w] EXCEPT !.at = "claimed", !.row = r,
                           !.act = IF r = NoRow THEN NoAction ELSE action[r],
                           !.locks = rows] \in Request
        BY <2>1, <2>2, <4>2 DEF Request
      <4> HIDE DEF rows
      <4>4. win' = [win EXCEPT ![w] =
                      [win[w] EXCEPT !.at = "claimed", !.row = r,
                           !.act = IF r = NoRow THEN NoAction ELSE action[r],
                           !.locks = rows]]
        BY <4>1 DEF TypeOK
      <4> QED  BY <4>3, <4>4 DEF TypeOK
    <3> QED  BY <3>1, <3>2
  <2> QED  BY <1>1, <2>3 DEF Claim, TypeOK, db, frame, history
<1>2. ASSUME Retry(w) PROVE TypeOK'
  <2>1. win[w] \in Request
    BY <1>0, <1>2 DEF Retry
  <2>2. action' \in [Row -> QueueRow]
    <3>1. CASE win[w].row = NoRow
      BY <1>2, <3>1, RowConstants DEF Retry, TypeOK
    <3>2. CASE win[w].row # NoRow
      <4> DEFINE r == win[w].row
                 x == win[w].act
                 y == [x EXCEPT !.status = "pending", !.wait = "due"]
      <4>1. r \in Row /\ x \in QueueRow /\ y \in QueueRow
        BY <2>1, <3>2 DEF Request, QueueRow, Statuses
      <4>2. action' = [action EXCEPT ![r] = Written(action[r], x, y)]
        BY <1>2, <3>2 DEF Retry
      <4> HIDE DEF r, x, y
      <4>3. Written(action[r], x, y) \in QueueRow
        BY <4>1, WrittenType DEF TypeOK
      <4> QED  BY <4>2, <4>3 DEF TypeOK
    <3> QED  BY <3>1, <3>2
  <2>3. outbound' \in [Msg -> States]
    BY <1>2 DEF Retry, Kept, TypeOK, States, Unsent
  <2>4. resends' \in [Msg -> Nat]
    <3> DEFINE again == win[w].act.unknown /\ win[w].act.status = "held"
               m == win[w].msg
    <3>1. resends' = [resends EXCEPT ![m] = IF again THEN resends[m] + 1 ELSE resends[m]]
      BY <1>2 DEF Retry
    <3> HIDE DEF again
    <3>2. m \in Msg /\ resends[m] \in Nat
      BY <2>1 DEF Request, TypeOK
    <3>3. CASE again
      BY <3>1, <3>2, <3>3 DEF TypeOK
    <3>4. CASE ~again
      BY <3>1, <3>2, <3>4 DEF TypeOK
    <3> QED  BY <3>3, <3>4
  <2>5. win' \in [Window -> Request \cup {NoRequest}] /\ told' \in [Msg -> {"none", "queued", "held", "discarded"}]
    BY <1>2 DEF Retry, Answer, TypeOK
  <2> QED  BY <1>2, <2>2, <2>3, <2>4, <2>5 DEF Retry, TypeOK, frame
<1>3. ASSUME Cancel(w) PROVE TypeOK'
  <2>1. win[w] \in Request
    BY <1>0, <1>3 DEF Cancel
  <2>2. action' \in [Row -> QueueRow]
    <3>1. CASE action' = action
      BY <3>1 DEF TypeOK
    <3>2. CASE action' # action
      <4> DEFINE r == win[w].row
                 x == win[w].act
                 y == [x EXCEPT !.status = "held"]
      <4>1. r \in Row /\ x \in QueueRow /\ y \in QueueRow
        BY <1>3, <2>1, <3>2 DEF Cancel, Request, QueueRow, Statuses
      <4>2. action' = [action EXCEPT ![r] = Written(action[r], x, y)]
        BY <1>3, <3>2 DEF Cancel
      <4> HIDE DEF r, x, y
      <4>3. Written(action[r], x, y) \in QueueRow
        BY <4>1, WrittenType DEF TypeOK
      <4> QED  BY <4>2, <4>3 DEF TypeOK
    <3> QED  BY <3>1, <3>2
  <2>3. outbound' \in [Msg -> States]
    BY <1>3 DEF Cancel, Kept, TypeOK, States, Unsent
  <2>5. win' \in [Window -> Request \cup {NoRequest}] /\ told' \in [Msg -> {"none", "queued", "held", "discarded"}]
    BY <1>3 DEF Cancel, Answer, TypeOK
  <2> QED  BY <1>3, <2>2, <2>3, <2>5 DEF Cancel, TypeOK, frame
<1>4. ASSUME Discard(w) PROVE TypeOK'
  <2>2. action' \in [Row -> QueueRow]
    BY <1>4, RowConstants DEF Discard, TypeOK
  <2>3. outbound' \in [Msg -> States]
    BY <1>4 DEF Discard, TypeOK, States, Unsent
  <2>5. win' \in [Window -> Request \cup {NoRequest}] /\ told' \in [Msg -> {"none", "queued", "held", "discarded"}]
    BY <1>4 DEF Discard, Answer, TypeOK
  <2> QED  BY <1>4, <2>2, <2>3, <2>5 DEF Discard, TypeOK, frame
<1>5. ASSUME Vanished(w) PROVE TypeOK'
  BY <1>5 DEF Vanished, TypeOK, db, frame, history
<1> QED  BY <1>1, <1>2, <1>3, <1>4, <1>5

\* The steps of an agent's pass.
LEMMA AgentTypeOK ==
    ASSUME TypeOK, NEW a \in Agent
    PROVE  /\ DueQueue(a) => TypeOK'
           /\ Reload(a) => TypeOK'
           /\ Lease(a) => TypeOK'
           /\ Begin(a) => TypeOK'
           /\ Converse(a) => TypeOK'
           /\ Settle(a) => TypeOK'
           /\ Crash(a) => TypeOK'
<1>0. NextRow(a, queue[a]) \/ PassDies(a) =>
        /\ pc' \in [Agent -> {"idle", "pass", "picked", "leased", "talking", "answered"}]
        /\ queue' \in [Agent -> SUBSET Row]
        /\ cur' \in [Agent -> Row \cup {NoRow}]
        /\ \A b \in Agent : pc'[b] \notin {"idle", "pass"} => cur'[b] \in Row
        /\ seen' \in [Agent -> QueueRow]
        /\ state' \in [Agent -> States]
        /\ answer' \in [Agent -> Answers]
  <2>1. queue[a] \in SUBSET Row /\ {} \in SUBSET Row
    BY DEF TypeOK
  <2> QED  BY <2>1, NextRowType DEF PassDies
<1>1. ASSUME DueQueue(a) PROVE TypeOK'
  BY <1>1 DEF DueQueue, TypeOK, db, history
<1>2. ASSUME Reload(a) PROVE TypeOK'
  <2>1. PICK r \in queue[a] :
          IF Exists(r)
          THEN /\ pc' = [pc EXCEPT ![a] = "picked"]
               /\ cur' = [cur EXCEPT ![a] = r]
               /\ seen' = [seen EXCEPT ![a] = action[r]]
               /\ queue' = [queue EXCEPT ![a] = @ \ {r}]
               /\ UNCHANGED <<state, answer>>
          ELSE PassDies(a)
    BY <1>2 DEF Reload
  <2>2. r \in Row /\ action[r] \in QueueRow
    BY DEF TypeOK
  <2>3. CASE Exists(r)
    BY <1>2, <2>1, <2>2, <2>3 DEF Reload, TypeOK, db, history
  <2>4. CASE ~Exists(r)
    BY <1>0, <1>2, <2>1, <2>4 DEF Reload, TypeOK, db, history
  <2> QED  BY <2>3, <2>4
<1>3. ASSUME Lease(a) PROVE TypeOK'
  <2>1. CASE NextRow(a, queue[a]) /\ UNCHANGED action
    BY <1>0, <1>3, <2>1 DEF Lease, TypeOK, history
  <2>2. CASE ~(NextRow(a, queue[a]) /\ UNCHANGED action)
    <3> DEFINE r == cur[a]
               x == seen[a]
               y == [x EXCEPT !.status = "leased"]
    <3>1. /\ r \in Row => action[r] \in QueueRow
          /\ x \in QueueRow
          /\ y \in QueueRow
      <4>1. (r \in Row => action[r] \in QueueRow) /\ x \in QueueRow
        BY DEF TypeOK
      <4> HIDE DEF x
      <4>2. y \in QueueRow
        BY <4>1 DEF QueueRow, Statuses
      <4> QED  BY <4>1, <4>2
    <3>2. /\ action' = [action EXCEPT ![r] = [Written(action[r], x, y) EXCEPT !.lapsed = FALSE]]
          /\ pc' = [pc EXCEPT ![a] = "leased"]
          /\ UNCHANGED <<queue, cur, seen, state, answer>>
      BY <1>3, <2>2 DEF Lease
    <3> HIDE DEF r, x, y
    <3>3. ASSUME r \in Row PROVE [Written(action[r], x, y) EXCEPT !.lapsed = FALSE] \in QueueRow
      <4>1. Written(action[r], x, y) \in QueueRow
        BY <3>1, <3>3, WrittenType
      <4>2. FALSE \in BOOLEAN
        OBVIOUS
      <4> QED  BY <4>1, <4>2, ClockType
    <3>4. action' \in [Row -> QueueRow]
      BY <3>2, <3>3 DEF TypeOK
    <3> QED  BY <1>3, <3>2, <3>4 DEF Lease, TypeOK, history
  <2> QED  BY <2>1, <2>2
<1>4. ASSUME Begin(a) PROVE TypeOK'
  <2>1. CASE Exists(cur[a])
    <3>1. cur[a] \in Row => action[cur[a]] \in QueueRow /\ outbound[MsgOf(cur[a])] \in States
      BY DEF TypeOK, Row, MsgOf
    <3>2. cur[a] \in Row
      BY <1>4 DEF Begin, TypeOK
    <3> QED  BY <1>4, <2>1, <3>1, <3>2 DEF Begin, TypeOK, Answers, db, history
  <2>2. CASE ~Exists(cur[a])
    BY <1>0, <1>4, <2>2 DEF Begin, TypeOK, db, history
  <2> QED  BY <2>1, <2>2
<1>5. ASSUME Converse(a) PROVE TypeOK'
  <2>1. cur[a] \in Row /\ MsgOf(cur[a]) \in Msg
    BY <1>5 DEF Converse, TypeOK, Row, MsgOf
  <2>2. answer' \in [Agent -> Answers] /\ accepted' \in [Msg -> Nat]
    BY <1>5, <2>1 DEF Converse, TypeOK, Answers
  <2> QED  BY <1>5, <2>2 DEF Converse, TypeOK, db
<1>6. ASSUME Settle(a) PROVE TypeOK'
  <2> DEFINE r == cur[a]
             m == MsgOf(cur[a])
             x == seen[a]
             y == Outcome(seen[a], answer[a])
  <2>1. r \in Row /\ m \in Msg /\ x \in QueueRow /\ answer[a] \in Answers
    BY <1>6 DEF Settle, TypeOK, Row, MsgOf
  <2>2. CASE Exists(r)
    <3>1. action' \in [Row -> QueueRow]
      <4>1. action' = [action EXCEPT ![r] = Written(action[r], x, y)]
        BY <1>6, <2>2 DEF Settle
      <4>2. action[r] \in QueueRow /\ y \in QueueRow
        BY <2>1, OutcomeType DEF TypeOK
      <4> HIDE DEF r, x, y
      <4>3. Written(action[r], x, y) \in QueueRow
        BY <2>1, <4>2, WrittenType
      <4> QED  BY <4>1, <4>3 DEF TypeOK
    <3>2. outbound' \in [Msg -> States]
      <4>1. \/ outbound' = outbound
            \/ outbound' = [outbound EXCEPT ![m] =
                              Kept(outbound[m], state[a], OutcomeState(answer[a]))]
        BY <1>6, <2>2 DEF Settle
      <4>2. OutcomeState(answer[a]) \in States
        BY <2>1, OutcomeType DEF TypeOK
      <4> HIDE DEF m
      <4> QED  BY <2>1, <4>1, <4>2 DEF TypeOK, Kept
    <3>3. copies' \in [Msg -> Nat]
      <4>1. \/ copies' = copies
            \/ copies' = [copies EXCEPT ![m] = @ + 1]
        BY <1>6, <2>2 DEF Settle
      <4> HIDE DEF m
      <4> QED  BY <2>1, <4>1 DEF TypeOK
    <3>4. NextRow(a, queue[a]) /\ UNCHANGED <<win, history, crashes, presses>>
      BY <1>6, <2>2 DEF Settle
    <3> QED  BY <1>0, <3>1, <3>2, <3>3, <3>4 DEF TypeOK, history
  <2>3. CASE ~Exists(r)
    BY <1>0, <1>6, <2>3 DEF Settle, TypeOK, db, history
  <2> QED  BY <2>2, <2>3
<1>7. ASSUME Crash(a) PROVE TypeOK'
  <2>1. lost' \in [Msg -> Nat]
    <3> DEFINE m == MsgOf(cur[a])
    <3>1. lost' = lost \/ lost' = [lost EXCEPT ![m] = lost[m] + 1]
      BY <1>7 DEF Crash
    <3> HIDE DEF m
    <3>2. m \in Msg => lost[m] + 1 \in Nat
      BY DEF TypeOK
    <3> QED  BY <3>1, <3>2 DEF TypeOK
  <2>2. crashes' \in Nat
    BY <1>7 DEF Crash, TypeOK
  <2> QED  BY <1>0, <1>7, <2>1, <2>2 DEF Crash, TypeOK, db
<1> QED  BY <1>1, <1>2, <1>3, <1>4, <1>5, <1>6, <1>7

\* Composing, requeueing, pressing a button, and time.
LEMMA RestTypeOK ==
    ASSUME TypeOK
    PROVE  /\ \A m \in Msg : Send(m) => TypeOK'
           /\ \A w \in Window, m \in Msg, verb \in Verbs : Load(w, m, verb) => TypeOK'
           /\ RequeueAbandoned => TypeOK'
           /\ \A r \in Row : WaitEnds(r) => TypeOK'
           /\ \A r \in Row : LeaseLapses(r) => TypeOK'
<1>1. ASSUME NEW m \in Msg, Send(m) PROVE TypeOK'
  <2>1. PICK wait \in {"due", "delay"} : action' = [action EXCEPT ![<<m, 1>>] = Queued(wait)]
    BY <1>1 DEF Send
  <2>2. action' \in [Row -> QueueRow]
    BY <2>1, RowConstants DEF TypeOK
  <2>3. outbound' \in [Msg -> States]
    BY <1>1 DEF Send, TypeOK, States, Unsent
  <2> QED  BY <1>1, <2>2, <2>3 DEF Send, TypeOK, frame, history
<1>2. ASSUME NEW w \in Window, NEW m \in Msg, NEW verb \in Verbs, Load(w, m, verb)
      PROVE  TypeOK'
  <2>1. [verb |-> verb, msg |-> m, at |-> "loaded", state |-> outbound[m], row |-> NoRow,
         act |-> NoAction, locks |-> {}] \in Request
    BY <1>2, RowConstants DEF Load, Request
  <2> QED  BY <1>2, <2>1 DEF Load, TypeOK, db, frame, history
<1>3. ASSUME RequeueAbandoned PROVE TypeOK'
  BY <1>3, RowConstants DEF RequeueAbandoned, TypeOK, States, Unsent, frame, history
<1>4. ASSUME NEW r \in Row, WaitEnds(r) PROVE TypeOK'
  <2>1. [action[r] EXCEPT !.wait = "due"] \in QueueRow
    BY DEF TypeOK, QueueRow
  <2> QED  BY <1>4, <2>1 DEF WaitEnds, TypeOK, frame, history
<1>5. ASSUME NEW r \in Row, LeaseLapses(r) PROVE TypeOK'
  <2>1. [action[r] EXCEPT !.lapsed = TRUE, !.wait = "due"] \in QueueRow
    <3>1. action[r] \in QueueRow /\ TRUE \in BOOLEAN
      BY DEF TypeOK
    <3>2. [action[r] EXCEPT !.lapsed = TRUE] \in QueueRow
      BY <3>1, ClockType
    <3> QED  BY <3>2, ClockType
  <2>2. action' = [action EXCEPT ![r] = [action[r] EXCEPT !.lapsed = TRUE, !.wait = "due"]]
    BY <1>5 DEF LeaseLapses, TypeOK
  <2> QED  BY <1>5, <2>1, <2>2 DEF LeaseLapses, TypeOK, frame, history
<1> QED  BY <1>1, <1>2, <1>3, <1>4, <1>5

LEMMA TypeStep == TypeOK /\ [Next]_vars => TypeOK'
<1>1. ASSUME TypeOK, Next PROVE TypeOK'
  BY <1>1, WindowTypeOK, AgentTypeOK, RestTypeOK DEF Next
<1>2. ASSUME TypeOK, UNCHANGED vars PROVE TypeOK'
  BY <1>2 DEF TypeOK, vars, db, frame, history
<1> QED  BY <1>1, <1>2

\* TypeOK holds of every behaviour, for any number of messages, queue rows,
\* agents and screens.
THEOREM TypeCorrect == Spec => []TypeOK
BY InitTypeOK, TypeStep, PTL DEF Spec

-----------------------------------------------------------------------------
\* What is shown as sent was accepted.  The invariant adds what an agent
\* knows between the server's answer and the commit that records it.
SentInv == SentMeansAccepted /\ AnswersAreHonest

\* Steps that leave the agents' answers, the server's count and the copies
\* alone preserve the invariant if they make no message "sent".
LEMMA SentKept ==
    ASSUME TypeOK, SentInv, UNCHANGED <<pc, cur, answer, accepted, copies>>,
           \A m \in Msg : outbound'[m] = "sent" => outbound[m] = "sent"
    PROVE  SentInv'
BY DEF SentInv, SentMeansAccepted, AnswersAreHonest

\* An agent that lets go of its row lets go of its answer.
LEMMA HonestNextRow ==
    ASSUME TypeOK, AnswersAreHonest, NEW a \in Agent, NEW rest, NextRow(a, rest),
           accepted' = accepted
    PROVE  AnswersAreHonest'
BY DEF TypeOK, AnswersAreHonest, NextRow

LEMMA SentStep == TypeOK /\ SentInv /\ [Next]_vars => SentInv'
<1> SUFFICES ASSUME TypeOK, SentInv, [Next]_vars PROVE SentInv'
  OBVIOUS
<1>1. ASSUME NEW m \in Msg, Send(m) PROVE SentInv'
  BY <1>1, SentKept DEF Send, TypeOK, frame, history
<1>2. ASSUME NEW w \in Window, NEW m \in Msg, NEW verb \in Verbs, Load(w, m, verb) PROVE SentInv'
  BY <1>2, SentKept DEF Load, db, frame, history
<1>3. ASSUME NEW w \in Window, Claim(w) PROVE SentInv'
  BY <1>3, SentKept DEF Claim, db, frame, history
<1>4. ASSUME NEW w \in Window, Retry(w) PROVE SentInv'
  BY <1>4, SentKept DEF Retry, TypeOK, Kept, frame
<1>5. ASSUME NEW w \in Window, Cancel(w) PROVE SentInv'
  BY <1>5, SentKept DEF Cancel, TypeOK, Kept, frame
<1>6. ASSUME NEW w \in Window, Discard(w) PROVE SentInv'
  BY <1>6, SentKept DEF Discard, TypeOK, frame
<1>7. ASSUME NEW w \in Window, Vanished(w) PROVE SentInv'
  BY <1>7, SentKept DEF Vanished, db, frame, history
<1>8. ASSUME NEW a \in Agent, DueQueue(a) PROVE SentInv'
  BY <1>8 DEF DueQueue, SentInv, SentMeansAccepted, AnswersAreHonest, TypeOK, db, history
<1>9. ASSUME NEW a \in Agent, Reload(a) PROVE SentInv'
  <2>1. AnswersAreHonest'
    <3>1. CASE \E rest : NextRow(a, rest)
      BY <1>9, <3>1, HonestNextRow DEF Reload, SentInv, history
    <3>2. CASE ~\E rest : NextRow(a, rest)
      BY <1>9, <3>2 DEF Reload, PassDies, SentInv, AnswersAreHonest, TypeOK, history
    <3> QED  BY <3>1, <3>2
  <2> QED  BY <1>9, <2>1 DEF Reload, SentInv, SentMeansAccepted, db, history
<1>10. ASSUME NEW a \in Agent, Lease(a) PROVE SentInv'
  <2>1. AnswersAreHonest'
    <3>1. CASE NextRow(a, queue[a])
      BY <1>10, <3>1, HonestNextRow DEF Lease, SentInv, history
    <3>2. CASE ~NextRow(a, queue[a])
      BY <1>10, <3>2 DEF Lease, SentInv, AnswersAreHonest, TypeOK, history
    <3> QED  BY <3>1, <3>2
  <2> QED  BY <1>10, <2>1 DEF Lease, SentInv, SentMeansAccepted, history
<1>11. ASSUME NEW a \in Agent, Begin(a) PROVE SentInv'
  <2>1. AnswersAreHonest'
    <3>1. CASE PassDies(a)
      BY <1>11, <3>1, HonestNextRow DEF Begin, PassDies, SentInv, history
    <3>2. CASE ~PassDies(a)
      BY <1>11, <3>2 DEF Begin, SentInv, AnswersAreHonest, TypeOK, history
    <3> QED  BY <3>1, <3>2
  <2> QED  BY <1>11, <2>1 DEF Begin, SentInv, SentMeansAccepted, db, history
<1>12. ASSUME NEW a \in Agent, Converse(a) PROVE SentInv'
  <2>1. /\ cur[a] \in Row /\ MsgOf(cur[a]) \in Msg
        /\ \A m \in Msg : accepted[m] \in Nat
    BY <1>12 DEF Converse, TypeOK, Row, MsgOf
  <2>2. /\ \A m \in Msg : accepted[m] > 0 => accepted'[m] > 0
        /\ answer'[a] = "accepted" => accepted'[MsgOf(cur[a])] > 0
    BY <1>12, <2>1 DEF Converse, TypeOK
  <2>3. AnswersAreHonest'
    <3> SUFFICES ASSUME NEW b \in Agent, answer'[b] = "accepted"
                 PROVE  pc'[b] = "answered" /\ accepted'[MsgOf(cur'[b])] > 0
      BY DEF AnswersAreHonest
    <3>1. CASE b = a
      BY <1>12, <2>2, <3>1 DEF Converse, TypeOK
    <3>2. CASE b # a
      <4>1. answer[b] = "accepted" /\ pc'[b] = pc[b] /\ cur'[b] = cur[b]
        BY <1>12, <3>2 DEF Converse, TypeOK
      <4>2. cur[b] \in Row /\ MsgOf(cur[b]) \in Msg /\ accepted[MsgOf(cur[b])] > 0 /\ pc[b] = "answered"
        BY <4>1 DEF SentInv, AnswersAreHonest, TypeOK, Row, MsgOf
      <4> QED  BY <2>2, <4>1, <4>2
    <3> QED  BY <3>1, <3>2
  <2> QED  BY <1>12, <2>2, <2>3 DEF Converse, SentInv, SentMeansAccepted, db
<1>13. ASSUME NEW a \in Agent, Settle(a) PROVE SentInv'
  <2>1. AnswersAreHonest'
    BY <1>13, HonestNextRow DEF Settle, PassDies, SentInv, history
  <2>2. /\ accepted' = accepted
        /\ cur[a] \in Row /\ MsgOf(cur[a]) \in Msg
    BY <1>13 DEF Settle, history, TypeOK, Row, MsgOf
  <2>3. SentMeansAccepted'
    <3> SUFFICES ASSUME NEW m \in Msg, outbound'[m] = "sent" \/ copies'[m] > 0
                 PROVE  accepted[m] > 0
      BY <2>2 DEF SentMeansAccepted
    <3>1. CASE outbound[m] = "sent" \/ copies[m] > 0
      BY <3>1 DEF SentInv, SentMeansAccepted
    <3>2. CASE ~(outbound[m] = "sent" \/ copies[m] > 0)
      <4>1. CASE outbound'[m] = "sent"
        BY <1>13, <3>2, <4>1 DEF Settle, Kept, OutcomeState, TypeOK, db, SentInv, AnswersAreHonest
      <4>2. CASE copies'[m] > 0
        BY <1>13, <3>2, <4>2 DEF Settle, TypeOK, db, SentInv, AnswersAreHonest
      <4> QED  BY <4>1, <4>2
    <3> QED  BY <3>1, <3>2
  <2> QED  BY <2>1, <2>3 DEF SentInv
<1>14. ASSUME NEW a \in Agent, Crash(a) PROVE SentInv'
  BY <1>14, HonestNextRow DEF Crash, PassDies, SentInv, SentMeansAccepted, db
<1>15. ASSUME RequeueAbandoned PROVE SentInv'
  BY <1>15, SentKept DEF RequeueAbandoned, TypeOK, frame, history
<1>16. ASSUME NEW r \in Row, WaitEnds(r) PROVE SentInv'
  BY <1>16, SentKept DEF WaitEnds, frame, history
<1>17. ASSUME NEW r \in Row, LeaseLapses(r) PROVE SentInv'
  BY <1>17, SentKept DEF LeaseLapses, frame, history
<1>18. CASE UNCHANGED vars
  BY <1>18, SentKept DEF vars, db, frame, history
<1> QED
  BY <1>1, <1>2, <1>3, <1>4, <1>5, <1>6, <1>7, <1>8, <1>9, <1>10, <1>11, <1>12, <1>13, <1>14,
     <1>15, <1>16, <1>17, <1>18 DEF Next

\* Whatever agents and screens do to one message, it is shown as sent, and a
\* copy of it queued for Sent, only if an SMTP server accepted it.
THEOREM SentCorrect == Spec => []SentMeansAccepted
<1>1. Init => SentInv
  BY DEF Init, SentInv, SentMeansAccepted, AnswersAreHonest
<1>2. SentInv => SentMeansAccepted
  BY DEF SentInv
<1> QED  BY <1>1, <1>2, SentStep, TypeCorrect, PTL DEF Spec

-----------------------------------------------------------------------------
(***************************************************************************)
(* At most one delivery, for one agent and one queue row a message, and    *)
(* any number of messages, screens, crashes and failures.  Both            *)
(* assumptions are needed: the runs MCOutboxLease and MCOutboxRow show     *)
(* the second delivery two agents, or two queue rows, can make.            *)
(***************************************************************************)

OneAgent == \A a, b \in Agent : a = b
OneSlot  == Slot = {1}

\* With one queue row each, rows are told apart by their messages.
LEMMA RowIdentity ==
    ASSUME OneSlot
    PROVE  /\ \A r \in Row : MsgOf(r) \in Msg
           /\ \A r, q \in Row : MsgOf(r) = MsgOf(q) => r = q
           /\ \A m \in Msg : \A r \in RowsOf(m) : r \in Row /\ MsgOf(r) = m
           /\ \A r \in Row : r \in RowsOf(MsgOf(r))
           /\ \A m \in Msg : \A s \in Slot : <<m, s>> \in Row /\ MsgOf(<<m, s>>) = m
BY DEF OneSlot, Row, RowsOf, MsgOf

\* Counting is preserved by every step but the server's answer.
LEMMA CountKept ==
    ASSUME TypeOK, accepted' = accepted, TypeOK',
           \A m \in Msg : resends'[m] >= resends[m] /\ lost'[m] >= lost[m]
    PROVE  /\ NoSpontaneousDuplicate => NoSpontaneousDuplicate'
           /\ \A m \in Msg : Spare(m) => Spare(m)'
BY DEF TypeOK, NoSpontaneousDuplicate, Spare

\* ClaimIsCurrent looks only at the requests, and at the rows they lock.
LEMMA ClaimKept ==
    ASSUME TypeOK, ClaimIsCurrent, win' = win,
           \A r \in Row : ~Locked(r) \/ /\ action'[r].status = action[r].status
                                        /\ action'[r].unknown = action[r].unknown
    PROVE  ClaimIsCurrent'
<1> SUFFICES ASSUME NEW w \in Window, win[w].at = "claimed", win[w].row # NoRow
             PROVE  /\ MsgOf(win[w].row) = win[w].msg
                    /\ win[w].act.status = action'[win[w].row].status
                    /\ win[w].act.unknown = action'[win[w].row].unknown
                    /\ action'[win[w].row].status \in {"pending", "held", "error"}
                    /\ win[w].row \in win[w].locks
                    /\ \A v \in Window : win[w].row \in win[v].locks => v = w
  BY DEF ClaimIsCurrent
<1>1. win[w].row \in Row
  BY DEF TypeOK, Request, NoRequest
<1>2. Locked(win[w].row)
  BY DEF ClaimIsCurrent, Locked
<1> QED  BY <1>1, <1>2 DEF ClaimIsCurrent

\* UnwrittenIsUntouched survives a step that writes no new row for an
\* unwritten message and opens no request.
LEMMA UntouchedKept ==
    ASSUME UnwrittenIsUntouched,
           \A n \in Msg : outbound'[n] = "none" =>
               /\ outbound[n] = "none"
               /\ \A r \in RowsOf(n) : ~Exists(r) => action'[r].status = "none",
           \A w \in Window : win'[w].at # "idle" =>
               win[w].at # "idle" /\ win'[w].msg = win[w].msg
    PROVE  UnwrittenIsUntouched'
BY DEF UnwrittenIsUntouched, Exists

\* A step of neither an agent nor the server: it may touch a queue row only
\* while no agent has it leased, and leaves it with a delivery to spare.
LEMMA QuietStep ==
    ASSUME TypeOK, TypeOK', AtMostOnceInv, UNCHANGED <<frame, accepted, lost>>,
           \A m \in Msg : resends'[m] >= resends[m],
           \A m \in Msg : outbound[m] = "gone" => outbound'[m] = "gone",
           \A r \in Row : \/ /\ action'[r].status = action[r].status
                             /\ action'[r].unknown = action[r].unknown
                          \/ action[r].status # "leased" /\ RowHasSpare(r)'
    PROVE  NoSpontaneousDuplicate' /\ SpareToSend' /\ LeaseLasts'
<1>1. /\ NoSpontaneousDuplicate'
      /\ \A m \in Msg : Spare(m) => Spare(m)'
  BY CountKept DEF AtMostOnceInv, TypeOK
<1>2. LeaseLasts'
  BY DEF AtMostOnceInv, LeaseLasts, TypeOK, frame
<1>3. ASSUME NEW r \in Row PROVE RowHasSpare(r)'
  <2>1. RowHasSpare(r) /\ MsgOf(r) \in Msg
    BY DEF AtMostOnceInv, SpareToSend, Row, MsgOf
  <2> QED  BY <1>1, <2>1 DEF RowHasSpare, frame
<1>4. ASSUME NEW a \in Agent PROVE AgentHasSpare(a)'
  <2>1. AgentHasSpare(a) /\ (cur[a] \in Row => MsgOf(cur[a]) \in Msg)
    BY DEF AtMostOnceInv, SpareToSend, Row, MsgOf
  <2> QED  BY <1>1, <2>1 DEF AgentHasSpare, frame, TypeOK
<1> QED  BY <1>1, <1>2, <1>3, <1>4 DEF SpareToSend

\* The screens' requests preserve the invariant.
LEMMA WindowOnce ==
    ASSUME TypeOK, TypeOK', AtMostOnceInv, OneSlot, NEW w \in Window
    PROVE  /\ \A m \in Msg, verb \in Verbs : Load(w, m, verb) => AtMostOnceInv'
           /\ Claim(w) => AtMostOnceInv'
           /\ Retry(w) => AtMostOnceInv'
           /\ Cancel(w) => AtMostOnceInv'
           /\ Discard(w) => AtMostOnceInv'
           /\ Vanished(w) => AtMostOnceInv'
<1> USE DEF NoRequest
<1>0. /\ win[w].at # "idle" => win[w] \in Request
      /\ win[w].at = "claimed" /\ win[w].row # NoRow =>
           /\ win[w].row \in Row
           /\ MsgOf(win[w].row) = win[w].msg
           /\ action[win[w].row].status \in {"pending", "held", "error"}
           /\ win[w].act.status = action[win[w].row].status
           /\ win[w].act.unknown = action[win[w].row].unknown
  BY DEF TypeOK, AtMostOnceInv, ClaimIsCurrent, Request
<1>1. ASSUME NEW m \in Msg, NEW verb \in Verbs, Load(w, m, verb) PROVE AtMostOnceInv'
  <2>1. NoSpontaneousDuplicate' /\ SpareToSend' /\ LeaseLasts'
    BY <1>1, QuietStep DEF Load, db, history, TypeOK
  <2>2. ClaimIsCurrent'
    BY <1>1 DEF Load, AtMostOnceInv, ClaimIsCurrent, TypeOK, db
  <2>3. UnwrittenIsUntouched'
    BY <1>1 DEF Load, AtMostOnceInv, UnwrittenIsUntouched, TypeOK, db, Unsent, Exists
  <2> QED  BY <2>1, <2>2, <2>3 DEF AtMostOnceInv
<1>2. ASSUME Vanished(w) PROVE AtMostOnceInv'
  <2>1. NoSpontaneousDuplicate' /\ SpareToSend' /\ LeaseLasts'
    BY <1>2, QuietStep DEF Vanished, db, history, TypeOK
  <2>2. ClaimIsCurrent'
    BY <1>2 DEF Vanished, AtMostOnceInv, ClaimIsCurrent, TypeOK, db
  <2>3. UnwrittenIsUntouched'
    BY <1>2 DEF Vanished, AtMostOnceInv, UnwrittenIsUntouched, TypeOK, db, Exists
  <2> QED  BY <2>1, <2>2, <2>3 DEF AtMostOnceInv
<1>3. ASSUME Claim(w) PROVE AtMostOnceInv'
  <2>0. /\ UNCHANGED <<db, frame, history>>
        /\ win[w].at = "loaded" /\ win[w] \in Request
    BY <1>0, <1>3 DEF Claim
  <2>1. NoSpontaneousDuplicate' /\ SpareToSend' /\ LeaseLasts'
    BY <2>0, QuietStep DEF db, history, TypeOK
  <2>2. ClaimIsCurrent'
    <3>1. CASE win' = [win EXCEPT ![w] = NoRequest]
      BY <2>0, <3>1 DEF AtMostOnceInv, ClaimIsCurrent, TypeOK, db
    <3>2. CASE win' # [win EXCEPT ![w] = NoRequest]
      <4> DEFINE m    == win[w].msg
                 rows == {r \in RowsOf(m) : Exists(r)}
                 live == {r \in rows : action[r].status # "done"}
      <4>1. PICK r \in (IF live = {} THEN {NoRow}
                        ELSE {x \in live : \A y \in live : x[2] <= y[2]}) :
              win' = [win EXCEPT ![w].at = "claimed", ![w].row = r,
                                 ![w].act = IF r = NoRow THEN NoAction ELSE action[r],
                                 ![w].locks = rows]
        BY <1>3, <3>2 DEF Claim
      <4>2. m \in Msg /\ ~BeingSent(rows) /\ \A q \in rows : ~Locked(q)
        BY <1>0, <1>3, <3>2 DEF Claim, Request
      <4>3. \A q \in rows : q \in Row /\ MsgOf(q) = m
        BY <4>2, RowIdentity
      <4>4. r # NoRow => /\ r \in rows /\ action[r].status \in {"pending", "held", "error"}
        BY <4>2, <4>3 DEF BeingSent, Exists, TypeOK, QueueRow, Statuses
      <4>5. /\ win'[w].row = r /\ win'[w].locks = rows /\ win'[w].msg = m
            /\ win'[w].act = IF r = NoRow THEN NoAction ELSE action[r]
            /\ \A v \in Window : v # w => win'[v] = win[v]
        <5>1. win[w] \in Request
          BY <1>0, <1>3 DEF Claim
        <5> HIDE DEF rows
        <5> QED  BY <4>1, <5>1 DEF TypeOK, Request
      <4> HIDE DEF rows, live, m
      <4>6. \A v \in Window : v # w => win[v].locks \cap rows = {}
        BY <4>2 DEF Locked
      <4> SUFFICES ASSUME NEW v \in Window, win'[v].at = "claimed", win'[v].row # NoRow
                   PROVE  /\ MsgOf(win'[v].row) = win'[v].msg
                          /\ win'[v].act.status = action[win'[v].row].status
                          /\ win'[v].act.unknown = action[win'[v].row].unknown
                          /\ action[win'[v].row].status \in {"pending", "held", "error"}
                          /\ win'[v].row \in win'[v].locks
                          /\ \A u \in Window : win'[v].row \in win'[u].locks => u = v
        BY <1>3 DEF ClaimIsCurrent, Claim, db
      <4>7. CASE v = w
        BY <4>3, <4>4, <4>5, <4>6, <4>7
      <4>8. CASE v # w
        BY <4>5, <4>6, <4>8 DEF AtMostOnceInv, ClaimIsCurrent
      <4> QED  BY <4>7, <4>8
    <3> QED  BY <3>1, <3>2
  <2>3. UnwrittenIsUntouched'
    <3>1. CASE win' = [win EXCEPT ![w] = NoRequest]
      BY <2>0, <3>1 DEF AtMostOnceInv, UnwrittenIsUntouched, TypeOK, db, Exists
    <3>2. CASE win' # [win EXCEPT ![w] = NoRequest]
      <4> DEFINE rows == {r \in RowsOf(win[w].msg) : Exists(r)}
                 live == {r \in rows : action[r].status # "done"}
      <4>1. PICK r \in (IF live = {} THEN {NoRow}
                        ELSE {x \in live : \A y \in live : x[2] <= y[2]}) :
              win' = [win EXCEPT ![w].at = "claimed", ![w].row = r,
                                 ![w].act = IF r = NoRow THEN NoAction ELSE action[r],
                                 ![w].locks = rows]
        BY <1>3, <3>2 DEF Claim
      <4> HIDE DEF rows, live
      <4>2. \A v \in Window : win'[v].at # "idle" =>
              win[v].at # "idle" /\ win'[v].msg = win[v].msg
        BY <2>0, <4>1 DEF TypeOK, Request
      <4> QED  BY <2>0, <4>2 DEF AtMostOnceInv, UnwrittenIsUntouched, db, Exists
    <3> QED  BY <3>1, <3>2
  <2> QED  BY <2>1, <2>2, <2>3 DEF AtMostOnceInv
<1>4. ASSUME Retry(w) PROVE AtMostOnceInv'
  <2>11. PICK m \in Msg : m = win[w].msg
    BY <1>0, <1>4 DEF Retry, Request
  <2> DEFINE r == win[w].row
             x == win[w].act
             y == [x EXCEPT !.status = "pending", !.wait = "due"]
  <2>0. /\ m \in Msg /\ x \in QueueRow /\ win[w] \in Request
        /\ outbound[m] # "gone"
        /\ outbound' = [outbound EXCEPT ![m] = Kept(outbound[m], win[w].state, "queued")]
        /\ win' = [win EXCEPT ![w] = NoRequest]
        /\ UNCHANGED <<frame, accepted, lost>>
    BY <1>0, <1>4, <2>11 DEF Retry, Request, Answer
  <2>1. resends' = [resends EXCEPT ![m] = IF x.unknown /\ x.status = "held"
                                          THEN resends[m] + 1 ELSE resends[m]]
    BY <1>4, <2>11 DEF Retry
  <2>2. outbound[m] # "none"
    BY <1>4, <2>11 DEF Retry, AtMostOnceInv, UnwrittenIsUntouched
  <2>3. \A n \in Msg : resends'[n] >= resends[n] /\ resends'[n] \in Nat /\ resends[n] \in Nat
    BY <2>1 DEF TypeOK
  <2>4. \A n \in Msg : /\ outbound[n] = "gone" => outbound'[n] = "gone"
                       /\ outbound'[n] = "none" => outbound[n] = "none" /\ n # m
    BY <2>0, <2>2 DEF TypeOK, Kept
  <2>5. PICK q \in Row :
          /\ MsgOf(q) = m
          /\ \A p \in Row : p # q => action'[p] = action[p]
          /\ action'[q].status = "pending"
          /\ action[q].status \in {"none", "pending", "held", "error"}
          /\ \/ action[q].status = "none"
             \/ q = r /\ x.status = action[q].status /\ x.unknown = action[q].unknown
    <3>1. CASE r = NoRow
      <4>1. PICK s \in Slot : ~Exists(<<m, s>>) /\ action' = [action EXCEPT ![<<m, s>>] = Queued("due")]
        BY <1>4, <2>11, <3>1 DEF Retry
      <4>2. <<m, s>> \in Row /\ MsgOf(<<m, s>>) = m
        BY <2>0, RowIdentity
      <4> QED  BY <4>1, <4>2 DEF Exists, Queued, TypeOK
    <3>2. CASE r # NoRow
      <4>1. action' = [action EXCEPT ![r] = Written(action[r], x, y)]
        BY <1>4, <3>2 DEF Retry
      <4>2. Written(action[r], x, y).status = Kept(action[r].status, x.status, "pending")
        BY <2>0 DEF Written, QueueRow
      <4>3. /\ r \in Row /\ MsgOf(r) = m
            /\ x.status = action[r].status /\ x.unknown = action[r].unknown
            /\ action[r].status \in {"pending", "held", "error"}
        BY <1>0, <1>4, <2>11, <3>2 DEF Retry
      <4> HIDE DEF r, x, y
      <4> QED  BY <4>1, <4>2, <4>3 DEF Kept, TypeOK
    <3> QED  BY <3>1, <3>2
  <2> HIDE DEF r, x, y
  <2>6. \A a \in Agent : ~(cur[a] = q /\ answer[a] \in {"accepted", "unknown"})
    BY <2>5 DEF AtMostOnceInv, LeaseLasts
  <2>7. Spare(m)'
    <3>0. /\ accepted'[m] = accepted[m] /\ accepted[m] \in Nat /\ lost[m] \in Nat
          /\ lost'[m] = lost[m]
      BY <2>0 DEF TypeOK
    <3>1. CASE action[q].status = "held" /\ action[q].unknown
      <4>1. resends'[m] = resends[m] + 1
        BY <2>0, <2>1, <2>5, <3>1 DEF TypeOK
      <4>2. accepted[m] <= 1 + resends[m] + lost[m]
        BY <2>0 DEF AtMostOnceInv, NoSpontaneousDuplicate
      <4> QED  BY <2>0, <2>3, <3>0, <4>1, <4>2 DEF Spare
    <3>2. CASE ~(action[q].status = "held" /\ action[q].unknown)
      <4>1. RowHasSpare(q)
        BY DEF AtMostOnceInv, SpareToSend
      <4>2. Spare(m)
        BY <2>0, <2>5, <2>6, <3>2, <4>1 DEF RowHasSpare
      <4> QED  BY <2>0, <2>3, <3>0, <4>2 DEF Spare
    <3> QED  BY <3>1, <3>2
  <2>8. NoSpontaneousDuplicate' /\ SpareToSend' /\ LeaseLasts'
    BY <2>0, <2>3, <2>4, <2>5, <2>7, QuietStep DEF RowHasSpare
  <2>9. ClaimIsCurrent'
    <3>1. \A v \in Window : v # w /\ win[v].at = "claimed" /\ win[v].row # NoRow => win[v].row # q
      BY <1>0, <1>4, <2>5 DEF AtMostOnceInv, ClaimIsCurrent, Retry, r
    <3>2. \A v \in Window : IF v = w THEN win'[v].at = "idle" /\ win'[v].locks = {}
                                     ELSE win'[v] = win[v]
      BY <2>0 DEF TypeOK
    <3>3. \A v \in Window : win[v].at = "claimed" /\ win[v].row # NoRow => win[v].row \in Row
      BY DEF TypeOK, Request
    <3> SUFFICES ASSUME NEW v \in Window, win'[v].at = "claimed", win'[v].row # NoRow
                 PROVE  /\ MsgOf(win'[v].row) = win'[v].msg
                        /\ win'[v].act.status = action'[win'[v].row].status
                        /\ win'[v].act.unknown = action'[win'[v].row].unknown
                        /\ action'[win'[v].row].status \in {"pending", "held", "error"}
                        /\ win'[v].row \in win'[v].locks
                        /\ \A u \in Window : win'[v].row \in win'[u].locks => u = v
      BY DEF ClaimIsCurrent
    <3>4. v # w /\ win'[v] = win[v]
      BY <3>2
    <3>5. /\ MsgOf(win[v].row) = win[v].msg
          /\ win[v].act.status = action[win[v].row].status
          /\ win[v].act.unknown = action[win[v].row].unknown
          /\ action[win[v].row].status \in {"pending", "held", "error"}
          /\ win[v].row \in win[v].locks
          /\ \A u \in Window : win[v].row \in win[u].locks => u = v
      BY <3>4 DEF AtMostOnceInv, ClaimIsCurrent
    <3>6. win[v].row \in Row /\ action'[win[v].row] = action[win[v].row]
      BY <2>5, <3>1, <3>3, <3>4
    <3>7. \A u \in Window : win[v].row \in win'[u].locks => win[v].row \in win[u].locks
      BY <3>2
    <3> QED  BY <3>4, <3>5, <3>6, <3>7
  <2>10. UnwrittenIsUntouched'
    <3>1. \A n \in Msg : outbound'[n] = "none" =>
            /\ outbound[n] = "none"
            /\ \A p \in RowsOf(n) : action'[p] = action[p]
      BY <2>4, <2>5, RowIdentity
    <3>2. \A v \in Window : win'[v].at # "idle" => win'[v] = win[v]
      BY <2>0 DEF TypeOK
    <3> QED  BY <3>1, <3>2, UntouchedKept DEF AtMostOnceInv, Exists
  <2> QED  BY <2>8, <2>9, <2>10 DEF AtMostOnceInv
<1>5. ASSUME Cancel(w) PROVE AtMostOnceInv'
  <2>1. PICK m \in Msg : m = win[w].msg
    BY <1>0, <1>5 DEF Cancel, Request
  <2> DEFINE r == win[w].row
             x == win[w].act
             y == [x EXCEPT !.status = "held"]
  <2>2. /\ x \in QueueRow
        /\ outbound' = outbound \/
             (outbound[m] # "gone" /\ outbound' = [outbound EXCEPT ![m] =
                                                   Kept(outbound[m], win[w].state, "held")])
        /\ win' = [win EXCEPT ![w] = NoRequest]
        /\ UNCHANGED <<frame, accepted, lost, resends>>
    BY <1>0, <1>5, <2>1 DEF Cancel, Request, Answer
  <2>3. outbound[m] # "none"
    BY <1>5, <2>1 DEF Cancel, AtMostOnceInv, UnwrittenIsUntouched
  <2>4. \A n \in Msg : /\ outbound[n] = "gone" => outbound'[n] = "gone"
                       /\ outbound'[n] = "none" => outbound[n] = "none" /\ n # m
                       /\ resends'[n] >= resends[n]
    BY <2>2, <2>3 DEF TypeOK, Kept
  <2>5. \/ action' = action
        \/ /\ r \in Row /\ MsgOf(r) = m
           /\ \A p \in Row : p # r => action'[p] = action[p]
           /\ action'[r].status = "held"
           /\ action'[r].unknown = action[r].unknown
           /\ action[r].status \in {"pending", "held", "error"}
    <3>1. CASE action' # action
      <4>1. action' = [action EXCEPT ![r] = Written(action[r], x, y)] /\ r # NoRow
        BY <1>5, <3>1 DEF Cancel
      <4>2. /\ Written(action[r], x, y).status = Kept(action[r].status, x.status, "held")
            /\ Written(action[r], x, y).unknown = action[r].unknown
        BY <2>2 DEF Written, QueueRow, Kept
      <4>3. /\ r \in Row /\ MsgOf(r) = m
            /\ x.status = action[r].status
            /\ action[r].status \in {"pending", "held", "error"}
        BY <1>0, <1>5, <2>1, <4>1 DEF Cancel
      <4> HIDE DEF r, x, y
      <4> QED  BY <4>1, <4>2, <4>3 DEF Kept, TypeOK
    <3> QED  BY <3>1
  <2>6. \A p \in Row : \/ /\ action'[p].status = action[p].status
                          /\ action'[p].unknown = action[p].unknown
                       \/ action[p].status # "leased" /\ RowHasSpare(p)'
    <3> SUFFICES ASSUME NEW p \in Row, action'[p] # action[p]
                 PROVE  action[p].status # "leased" /\ RowHasSpare(p)'
      OBVIOUS
    <3>1. /\ p = r /\ MsgOf(p) = m
          /\ action'[p].status = "held"
          /\ action'[p].unknown = action[p].unknown
          /\ action[p].status \in {"pending", "held", "error"}
      BY <2>5
    <3> HIDE DEF r, x, y
    <3>2. RowHasSpare(p) /\ \A a \in Agent : ~(cur[a] = p /\ answer[a] \in {"accepted", "unknown"})
      BY <3>1 DEF AtMostOnceInv, SpareToSend, LeaseLasts
    <3>3. Spare(m) => Spare(m)'
      BY <2>2 DEF Spare
    <3> QED  BY <3>1, <3>2, <3>3 DEF RowHasSpare
  <2>7. NoSpontaneousDuplicate' /\ SpareToSend' /\ LeaseLasts'
    BY <2>2, <2>4, <2>6, QuietStep
  <2>8. ClaimIsCurrent'
    <3>1. \A v \in Window : v # w /\ win[v].at = "claimed" /\ win[v].row # NoRow =>
            win[v].row \in Row /\ action'[win[v].row] = action[win[v].row]
      <4> SUFFICES ASSUME NEW v \in Window, v # w, win[v].at = "claimed", win[v].row # NoRow,
                          action' # action
                   PROVE  win[v].row \in Row /\ win[v].row # r
        BY <2>5 DEF TypeOK, Request, NoRequest
      <4>1. r # NoRow /\ win[w].at = "claimed"
        BY <1>5 DEF Cancel
      <4> QED  BY <4>1 DEF AtMostOnceInv, ClaimIsCurrent, TypeOK, Request, NoRequest
    <3> HIDE DEF r, x, y
    <3> QED  BY <2>2, <3>1 DEF AtMostOnceInv, ClaimIsCurrent, TypeOK
  <2>9. UnwrittenIsUntouched'
    <3> HIDE DEF r, x, y
    <3>1. \A n \in Msg : outbound'[n] = "none" =>
            /\ outbound[n] = "none"
            /\ \A p \in RowsOf(n) : action'[p] = action[p]
      BY <2>4, <2>5, RowIdentity
    <3>2. \A v \in Window : win'[v].at # "idle" => win'[v] = win[v]
      BY <2>2 DEF TypeOK
    <3> QED  BY <3>1, <3>2, UntouchedKept DEF AtMostOnceInv, Exists
  <2> QED  BY <2>7, <2>8, <2>9 DEF AtMostOnceInv
<1>6. ASSUME Discard(w) PROVE AtMostOnceInv'
  <2>1. PICK m \in Msg : m = win[w].msg
    BY <1>0, <1>6 DEF Discard, Request
  <2> DEFINE r == win[w].row
  <2>2. /\ outbound' = [outbound EXCEPT ![m] = "gone"]
        /\ win' = [win EXCEPT ![w] = NoRequest]
        /\ UNCHANGED <<frame, accepted, lost, resends>>
    BY <1>0, <1>6, <2>1 DEF Discard, Request, Answer
  <2>3. \A n \in Msg : /\ outbound[n] = "gone" => outbound'[n] = "gone"
                       /\ outbound'[n] = "none" => outbound[n] = "none" /\ n # m
                       /\ resends'[n] >= resends[n]
    BY <2>2 DEF TypeOK
  <2>4. \/ action' = action
        \/ /\ r \in Row /\ MsgOf(r) = m
           /\ action' = [action EXCEPT ![r] = NoAction]
           /\ action[r].status \in {"pending", "held", "error"}
    BY <1>0, <1>6, <2>1 DEF Discard
  <2> HIDE DEF r
  <2>5. \A p \in Row : \/ /\ action'[p].status = action[p].status
                          /\ action'[p].unknown = action[p].unknown
                       \/ action[p].status # "leased" /\ RowHasSpare(p)'
    BY <2>2, <2>4 DEF RowHasSpare, NoAction, Queued, TypeOK
  <2>6. NoSpontaneousDuplicate' /\ SpareToSend' /\ LeaseLasts'
    BY <2>2, <2>3, <2>5, QuietStep
  <2>7. ClaimIsCurrent'
    <3>1. \A v \in Window : v # w /\ win[v].at = "claimed" /\ win[v].row # NoRow =>
            win[v].row \in Row /\ action'[win[v].row] = action[win[v].row]
      <4> SUFFICES ASSUME NEW v \in Window, v # w, win[v].at = "claimed", win[v].row # NoRow,
                          action' # action
                   PROVE  win[v].row \in Row /\ win[v].row # r
        BY <2>4 DEF TypeOK, Request, NoRequest
      <4>1. r # NoRow /\ win[w].at = "claimed"
        BY <1>6 DEF Discard, r
      <4> QED  BY <4>1 DEF AtMostOnceInv, ClaimIsCurrent, TypeOK, Request, NoRequest, r
    <3> QED  BY <2>2, <3>1 DEF AtMostOnceInv, ClaimIsCurrent, TypeOK
  <2>8. UnwrittenIsUntouched'
    <3>1. \A n \in Msg : outbound'[n] = "none" =>
            /\ outbound[n] = "none"
            /\ \A p \in RowsOf(n) : action'[p] = action[p]
      BY <2>3, <2>4, RowIdentity DEF TypeOK
    <3>2. \A v \in Window : win'[v].at # "idle" => win'[v] = win[v]
      BY <2>2 DEF TypeOK
    <3> QED  BY <3>1, <3>2, UntouchedKept DEF AtMostOnceInv, Exists
  <2> QED  BY <2>6, <2>7, <2>8 DEF AtMostOnceInv
<1> QED  BY <1>1, <1>2, <1>3, <1>4, <1>5, <1>6

\* Composing, requeueing and time preserve the invariant.
LEMMA RestOnce ==
    ASSUME TypeOK, TypeOK', AtMostOnceInv, OneSlot
    PROVE  /\ \A m \in Msg : Send(m) => AtMostOnceInv'
           /\ RequeueAbandoned => AtMostOnceInv'
           /\ \A r \in Row : WaitEnds(r) => AtMostOnceInv'
           /\ \A r \in Row : LeaseLapses(r) => AtMostOnceInv'
<1>0. \A r \in Row : action[r].status \in {"none", "error"} =>
        /\ outbound[MsgOf(r)] # "gone" => Spare(MsgOf(r))
        /\ action[r].status = "error" => Spare(MsgOf(r))
  <2> SUFFICES ASSUME NEW r \in Row, action[r].status \in {"none", "error"}
               PROVE  Spare(MsgOf(r)) \/ (action[r].status = "none" /\ outbound[MsgOf(r)] = "gone")
    OBVIOUS
  <2>1. RowHasSpare(r)
    BY DEF AtMostOnceInv, SpareToSend
  <2>2. \A a \in Agent : ~(cur[a] = r /\ answer[a] \in {"accepted", "unknown"})
    BY DEF AtMostOnceInv, LeaseLasts
  <2> QED  BY <2>1, <2>2 DEF RowHasSpare
<1>1. ASSUME NEW m \in Msg, Send(m) PROVE AtMostOnceInv'
  <2>1. PICK wait \in {"due", "delay"} : action' = [action EXCEPT ![<<m, 1>>] = Queued(wait)]
    BY <1>1 DEF Send
  <2>2. <<m, 1>> \in Row /\ MsgOf(<<m, 1>>) = m /\ <<m, 1>> \in RowsOf(m)
    BY SlotAssumption DEF Row, MsgOf, RowsOf
  <2>3. /\ outbound[m] = "none" /\ action[<<m, 1>>].status = "none"
        /\ outbound' = [outbound EXCEPT ![m] = "queued"]
        /\ UNCHANGED <<frame, win, accepted, lost, resends>>
    BY <1>1, <2>2 DEF Send, history, AtMostOnceInv, UnwrittenIsUntouched, Exists
  <2>4. Spare(m)'
    BY <1>0, <2>2, <2>3 DEF Spare
  <2>5. NoSpontaneousDuplicate' /\ SpareToSend' /\ LeaseLasts'
    <3>1. /\ \A r \in Row : r # <<m, 1>> => action'[r] = action[r]
          /\ action[<<m, 1>>].status # "leased" /\ RowHasSpare(<<m, 1>>)'
      BY <2>1, <2>2, <2>3, <2>4 DEF RowHasSpare, TypeOK
    <3>2. /\ \A n \in Msg : outbound[n] = "gone" => outbound'[n] = "gone"
          /\ \A n \in Msg : resends'[n] >= resends[n]
      BY <2>3 DEF TypeOK
    <3> QED  BY <2>3, <3>1, <3>2, QuietStep
  <2>6. ClaimIsCurrent'
    <3>1. \A v \in Window : win[v].at = "claimed" /\ win[v].row # NoRow =>
            win[v].row \in Row /\ action'[win[v].row] = action[win[v].row]
      <4> SUFFICES ASSUME NEW v \in Window, win[v].at = "claimed", win[v].row # NoRow
                   PROVE  win[v].row \in Row /\ action'[win[v].row] = action[win[v].row]
        OBVIOUS
      <4>1. win[v].row \in Row /\ action[win[v].row].status \in {"pending", "held", "error"}
        BY DEF AtMostOnceInv, ClaimIsCurrent, TypeOK, Request, NoRequest
      <4>2. win[v].row # <<m, 1>>
        BY <2>3, <4>1
      <4> QED  BY <2>1, <2>2, <4>1, <4>2 DEF TypeOK
    <3> QED  BY <2>3, <3>1 DEF AtMostOnceInv, ClaimIsCurrent
  <2>7. UnwrittenIsUntouched'
    <3> SUFFICES ASSUME NEW n \in Msg, outbound'[n] = "none"
                 PROVE  /\ \A r \in RowsOf(n) : action'[r].status = "none"
                        /\ \A w \in Window : win'[w].at # "idle" => win'[w].msg # n
      BY DEF UnwrittenIsUntouched, Exists
    <3>1. n # m /\ outbound[n] = "none"
      BY <2>3 DEF TypeOK
    <3>2. \A r \in RowsOf(n) : r \in Row /\ r # <<m, 1>>
      BY <2>2, <3>1, RowIdentity
    <3>3. \A r \in RowsOf(n) : action'[r] = action[r]
      BY <2>1, <3>2 DEF TypeOK
    <3> QED  BY <2>3, <3>1, <3>3 DEF AtMostOnceInv, UnwrittenIsUntouched, Exists
  <2> QED  BY <2>5, <2>6, <2>7 DEF AtMostOnceInv
<1>2. ASSUME RequeueAbandoned PROVE AtMostOnceInv'
  <2>1. /\ \A r \in Row : action'[r] = IF action[r].status = "error" THEN Queued("due") ELSE action[r]
        /\ \A r \in Row : action[r].status = "error" => ~Locked(r)
        /\ \A m \in Msg : outbound'[m] # outbound[m] => outbound[m] = "error" /\ outbound'[m] = "queued"
        /\ UNCHANGED <<frame, win, accepted, lost, resends>>
    BY <1>2 DEF RequeueAbandoned, Abandoned, history, TypeOK
  <2>2. \A r \in Row : action[r].status = "error" => RowHasSpare(r)'
    BY <1>0, <2>1 DEF RowHasSpare, Spare
  <2>3. NoSpontaneousDuplicate' /\ SpareToSend' /\ LeaseLasts'
    BY <2>1, <2>2, QuietStep DEF TypeOK
  <2>4. ClaimIsCurrent'
    BY <2>1, ClaimKept DEF AtMostOnceInv
  <2>5. UnwrittenIsUntouched'
    BY <2>1, RowIdentity, UntouchedKept DEF AtMostOnceInv, Exists
  <2> QED  BY <2>3, <2>4, <2>5 DEF AtMostOnceInv
<1>3. ASSUME UNCHANGED <<outbound, frame, win, accepted, lost, resends>>,
             \A r \in Row : action'[r].status = action[r].status /\ action'[r].unknown = action[r].unknown
      PROVE  AtMostOnceInv'
  <2>1. NoSpontaneousDuplicate' /\ SpareToSend' /\ LeaseLasts'
    BY <1>3, QuietStep DEF TypeOK
  <2>2. ClaimIsCurrent'
    BY <1>3, ClaimKept DEF AtMostOnceInv
  <2>3. UnwrittenIsUntouched'
    BY <1>3, RowIdentity DEF AtMostOnceInv, UnwrittenIsUntouched, Exists
  <2> QED  BY <2>1, <2>2, <2>3 DEF AtMostOnceInv
<1>4. ASSUME NEW r \in Row, WaitEnds(r) PROVE AtMostOnceInv'
  <2>1. \A q \in Row : action'[q].status = action[q].status /\ action'[q].unknown = action[q].unknown
    BY <1>4 DEF WaitEnds, TypeOK, QueueRow
  <2> QED  BY <1>3, <1>4, <2>1 DEF WaitEnds, history
<1>5. ASSUME NEW r \in Row, LeaseLapses(r) PROVE AtMostOnceInv'
  <2>1. \A q \in Row : action'[q].status = action[q].status /\ action'[q].unknown = action[q].unknown
    BY <1>5 DEF LeaseLapses, TypeOK, QueueRow
  <2> QED  BY <1>3, <1>5, <2>1 DEF LeaseLapses, history
<1> QED  BY <1>1, <1>2, <1>4, <1>5

-----------------------------------------------------------------------------
\* When an agent lets go of its row, the others keep theirs, and every row
\* is judged without it.
LEMMA LetGo ==
    ASSUME TypeOK, TypeOK', AtMostOnceInv, NEW a \in Agent, NEW rest, NextRow(a, rest), OneAgent
    PROVE  /\ LeaseLasts'
           /\ \A b \in Agent : AgentHasSpare(b)'
BY DEF TypeOK, LeaseLasts, AgentHasSpare, NextRow, OneAgent

\* The steps of an agent that touch neither the server's count nor a locked row.
LEMMA AgentOnce ==
    ASSUME TypeOK, TypeOK', AtMostOnceInv, OneAgent, OneSlot, NEW a \in Agent
    PROVE  /\ DueQueue(a) => AtMostOnceInv'
           /\ Reload(a) => AtMostOnceInv'
           /\ Lease(a) => AtMostOnceInv'
           /\ Begin(a) => AtMostOnceInv'
           /\ Converse(a) => AtMostOnceInv'
           /\ Settle(a) => AtMostOnceInv'
           /\ Crash(a) => AtMostOnceInv'
<1>0. /\ \A b \in Agent : b = a
      /\ cur[a] \in Row => MsgOf(cur[a]) \in Msg
      /\ \A r \in Row : MsgOf(r) \in Msg /\ RowHasSpare(r)
      /\ AgentHasSpare(a)
  BY RowIdentity DEF OneAgent, AtMostOnceInv, SpareToSend
\* A step that leaves the rows, the requests and the counts alone.
<1>1. ASSUME UNCHANGED <<db, win, accepted, lost, resends>>
      PROVE  NoSpontaneousDuplicate' /\ ClaimIsCurrent' /\ UnwrittenIsUntouched'
  BY <1>1 DEF db, AtMostOnceInv, NoSpontaneousDuplicate, ClaimIsCurrent, UnwrittenIsUntouched, Exists
\* If the agent had no answer worth a delivery, rows need none of it.
<1>2. ASSUME UNCHANGED <<db, accepted, lost, resends>>, answer[a] \notin {"accepted", "unknown"}
      PROVE  \A r \in Row : RowHasSpare(r)'
  BY <1>0, <1>2 DEF db, RowHasSpare, Spare
<1>3. ASSUME DueQueue(a) PROVE AtMostOnceInv'
  <2>1. /\ UNCHANGED <<db, win, accepted, lost, resends>>
        /\ pc[a] = "idle" /\ answer[a] = "none" /\ answer'[a] = "none"
    <3>1. pc[a] = "idle" /\ answer'[a] = answer[a] /\ UNCHANGED <<db, win, accepted, lost, resends>>
      BY <1>3 DEF DueQueue, history
    <3>2. answer[a] = "none"
      BY <3>1 DEF AtMostOnceInv, LeaseLasts, TypeOK
    <3> QED  BY <3>1, <3>2
  <2>2. PICK r \in Row : /\ action[r].status \in {"pending", "leased"}
                         /\ cur'[a] = r /\ seen'[a] = action[r] /\ pc'[a] = "picked"
    BY <1>3 DEF DueQueue, TypeOK
  <2>3. Spare(MsgOf(r))
    BY <1>0, <2>1, <2>2 DEF RowHasSpare
  <2>4. AgentHasSpare(a)'
    BY <2>1, <2>2, <2>3 DEF AgentHasSpare, Spare
  <2>5. LeaseLasts'
    BY <1>0, <2>1, <2>2 DEF LeaseLasts, db
  <2> QED  BY <1>0, <1>1, <1>2, <2>1, <2>4, <2>5 DEF AtMostOnceInv, SpareToSend
<1>4. ASSUME Reload(a) PROVE AtMostOnceInv'
  <2>1. UNCHANGED <<db, win, accepted, lost, resends>> /\ answer[a] = "none"
    <3>1. pc[a] = "pass" /\ UNCHANGED <<db, win, accepted, lost, resends>>
      BY <1>4 DEF Reload, history
    <3> QED  BY <3>1 DEF AtMostOnceInv, LeaseLasts, TypeOK
  <2>2. LeaseLasts' /\ AgentHasSpare(a)'
    <3>1. CASE PassDies(a)
      BY <3>1, LetGo DEF PassDies
    <3>2. CASE ~PassDies(a)
      <4>1. PICK r \in Row : /\ cur'[a] = r /\ seen'[a] = action[r] /\ pc'[a] = "picked"
                             /\ answer'[a] = answer[a]
        BY <1>4, <3>2 DEF Reload, TypeOK
      <4>2. seen'[a].status \in {"pending", "leased"} => Spare(MsgOf(r))
        BY <1>0, <2>1, <4>1 DEF RowHasSpare
      <4>3. AgentHasSpare(a)'
        BY <2>1, <4>1, <4>2 DEF AgentHasSpare, Spare
      <4>4. LeaseLasts'
        BY <1>0, <2>1, <4>1 DEF LeaseLasts, db
      <4> QED  BY <4>3, <4>4
    <3> QED  BY <3>1, <3>2
  <2> QED  BY <1>0, <1>1, <1>2, <2>1, <2>2 DEF AtMostOnceInv, SpareToSend
<1>5. ASSUME Lease(a) PROVE AtMostOnceInv'
  <2>1. /\ UNCHANGED <<outbound, win, accepted, lost, resends>>
        /\ answer[a] = "none" /\ pc[a] = "picked" /\ cur[a] \in Row
    <3>1. pc[a] = "picked" /\ UNCHANGED <<outbound, win, accepted, lost, resends>>
      BY <1>5 DEF Lease, history
    <3> QED  BY <3>1 DEF AtMostOnceInv, LeaseLasts, TypeOK
  <2>2. CASE NextRow(a, queue[a]) /\ UNCHANGED action
    <3>1. UNCHANGED <<db, win, accepted, lost, resends>>
      BY <1>5, <2>1, <2>2 DEF Lease, db
    <3> QED  BY <1>0, <1>1, <1>2, <2>1, <2>2, <3>1, LetGo DEF AtMostOnceInv, SpareToSend
  <2>3. CASE ~(NextRow(a, queue[a]) /\ UNCHANGED action)
    <3> DEFINE r == cur[a]
               x == seen[a]
               y == [x EXCEPT !.status = "leased"]
               z == [Written(action[r], x, y) EXCEPT !.lapsed = FALSE]
    <3>1. /\ action' = [action EXCEPT ![r] = z]
          /\ pc' = [pc EXCEPT ![a] = "leased"]
          /\ UNCHANGED <<queue, cur, seen, state, answer>>
          /\ ~Locked(r) /\ Exists(r) /\ x.status \in {"pending", "leased"}
      BY <1>5, <2>3 DEF Lease, Claimable
    <3>2. z.status = "leased" /\ z.unknown = action[r].unknown
      <4>1. /\ Written(action[r], x, y).status = Kept(action[r].status, x.status, "leased")
            /\ Written(action[r], x, y).unknown = action[r].unknown
        BY DEF Written, TypeOK, QueueRow, Kept
      <4>2. Kept(action[r].status, x.status, "leased") = "leased"
        BY <2>1, <3>1 DEF Kept, AtMostOnceInv, LeaseLasts
      <4>3. z.status = Written(action[r], x, y).status /\ z.unknown = Written(action[r], x, y).unknown
        BY DEF Written
      <4> QED  BY <4>1, <4>2, <4>3
    <3> HIDE DEF x, y, z
    <3>3. Spare(MsgOf(r))
      BY <1>0, <2>1, <3>1 DEF AgentHasSpare, x
    <3>4. /\ action'[r] = z
          /\ \A q \in Row : q # r => action'[q] = action[q]
      BY <2>1, <3>1 DEF TypeOK
    <3>5. NoSpontaneousDuplicate'
      BY <2>1 DEF AtMostOnceInv, NoSpontaneousDuplicate
    <3>6. LeaseLasts'
      BY <1>0, <2>1, <3>1, <3>2, <3>4 DEF LeaseLasts, TypeOK
    <3>7. SpareToSend'
      BY <1>0, <2>1, <3>1, <3>3, <3>4 DEF SpareToSend, RowHasSpare, AgentHasSpare, Spare
    <3>8. ClaimIsCurrent'
      BY <2>1, <3>1, <3>4, ClaimKept DEF AtMostOnceInv
    <3>9. UnwrittenIsUntouched'
      <4>1. \A q \in Row : action[q].status = "none" => action'[q] = action[q]
        BY <3>1, <3>4 DEF Exists
      <4> QED  BY <2>1, <4>1, RowIdentity DEF AtMostOnceInv, UnwrittenIsUntouched, Exists
    <3> QED  BY <3>5, <3>6, <3>7, <3>8, <3>9 DEF AtMostOnceInv
  <2> QED  BY <2>2, <2>3
<1>6. ASSUME Begin(a) PROVE AtMostOnceInv'
  <2>1. /\ UNCHANGED <<db, win, accepted, lost, resends>>
        /\ answer[a] = "none" /\ pc[a] = "leased" /\ cur[a] \in Row
        /\ action[cur[a]].status = "leased"
    <3>1. pc[a] = "leased" /\ UNCHANGED <<db, win, accepted, lost, resends>>
      BY <1>6 DEF Begin, history
    <3> QED  BY <3>1 DEF AtMostOnceInv, LeaseLasts, TypeOK
  <2>2. /\ seen'[a] = action[cur[a]] /\ cur'[a] = cur[a]
        /\ \/ pc'[a] = "talking" /\ answer'[a] = "none"
           \/ pc'[a] = "answered" /\ answer'[a] = "failed"
    BY <1>6, <2>1 DEF Begin, Exists, TypeOK
  <2>3. LeaseLasts'
    BY <1>0, <2>1, <2>2 DEF LeaseLasts, db
  <2>4. AgentHasSpare(a)'
    <3>1. Spare(MsgOf(cur[a]))
      BY <1>0, <2>1 DEF AgentHasSpare
    <3> QED  BY <2>1, <2>2, <3>1 DEF AgentHasSpare, Spare
  <2> QED  BY <1>0, <1>1, <1>2, <2>1, <2>3, <2>4 DEF AtMostOnceInv, SpareToSend
<1>7. ASSUME Converse(a) PROVE AtMostOnceInv'
  <2>1. PICK ans \in {"accepted", "failed", "unknown", "unheard"} :
          /\ answer' = [answer EXCEPT ![a] = ans]
          /\ accepted' = IF ans \in {"accepted", "unknown"}
                         THEN [accepted EXCEPT ![MsgOf(cur[a])] = @ + 1] ELSE accepted
    BY <1>7 DEF Converse
  <2>2. /\ pc[a] = "talking" /\ pc' = [pc EXCEPT ![a] = "answered"]
        /\ UNCHANGED <<queue, cur, seen, state, db, win, lost, resends>>
        /\ cur[a] \in Row
    BY <1>7 DEF Converse, TypeOK
  <2>3. PICK m \in Msg : m = MsgOf(cur[a])
    BY <1>0, <2>2
  <2>4. Spare(m)
    BY <1>0, <2>2, <2>3 DEF AgentHasSpare, AtMostOnceInv, LeaseLasts
  <2>5. \A n \in Msg : /\ accepted[n] \in Nat /\ lost[n] \in Nat /\ resends[n] \in Nat
                       /\ n # m => accepted'[n] = accepted[n]
    BY <2>1, <2>3 DEF TypeOK
  <2>6. \/ ans \in {"accepted", "unknown"} /\ accepted'[m] = accepted[m] + 1
        \/ ans \in {"failed", "unheard"} /\ accepted' = accepted
    BY <2>1, <2>3 DEF TypeOK
  <2>7. answer'[a] = ans /\ pc'[a] = "answered"
    BY <2>1, <2>2 DEF TypeOK
  <2>8. NoSpontaneousDuplicate'
    BY <2>2, <2>4, <2>5, <2>6 DEF AtMostOnceInv, NoSpontaneousDuplicate, Spare
  <2>9. ASSUME NEW r \in Row PROVE RowHasSpare(r)'
    <3>1. CASE r = cur[a]
      BY <2>2, <2>3, <2>4, <2>6, <2>7, <3>1 DEF RowHasSpare, Spare
    <3>2. CASE r # cur[a]
      <4>1. MsgOf(r) # m /\ MsgOf(r) \in Msg
        BY <2>2, <2>3, <3>2, RowIdentity
      <4>2. RowHasSpare(r) /\ accepted'[MsgOf(r)] = accepted[MsgOf(r)]
        BY <1>0, <2>5, <4>1
      <4>3. \A b \in Agent : cur[b] # r
        BY <1>0, <3>2
      <4> QED  BY <2>2, <4>2, <4>3 DEF RowHasSpare, Spare, db
    <3> QED  BY <3>1, <3>2
  <2>10. AgentHasSpare(a)'
    BY <2>2, <2>3, <2>4, <2>6, <2>7 DEF AgentHasSpare, Spare
  <2>11. LeaseLasts'
    BY <1>0, <2>2, <2>7 DEF AtMostOnceInv, LeaseLasts, db
  <2>12. ClaimIsCurrent' /\ UnwrittenIsUntouched'
    BY <2>2 DEF db, AtMostOnceInv, ClaimIsCurrent, UnwrittenIsUntouched, Exists
  <2> QED  BY <1>0, <2>8, <2>9, <2>10, <2>11, <2>12 DEF AtMostOnceInv, SpareToSend
<1>8. ASSUME Crash(a) PROVE AtMostOnceInv'
  <2>1. /\ UNCHANGED <<db, win, accepted, resends>>
        /\ PassDies(a)
        /\ pc[a] # "idle"
        /\ lost' = IF answer[a] \in {"accepted", "unknown"}
                   THEN [lost EXCEPT ![MsgOf(cur[a])] = @ + 1] ELSE lost
    BY <1>8 DEF Crash
  <2>2. \A n \in Msg : lost'[n] >= lost[n]
    BY <2>1 DEF TypeOK
  <2>3. /\ NoSpontaneousDuplicate'
        /\ \A n \in Msg : Spare(n) => Spare(n)'
    BY <2>1, <2>2, CountKept DEF AtMostOnceInv, TypeOK
  <2>4. LeaseLasts' /\ \A b \in Agent : AgentHasSpare(b)'
    BY <2>1, LetGo DEF PassDies
  <2>5. ASSUME NEW r \in Row PROVE RowHasSpare(r)'
    <3>1. CASE cur[a] = r /\ answer[a] \in {"accepted", "unknown"}
      <4>1. PICK m \in Msg : m = MsgOf(r)
        BY <1>0
      <4>2. lost'[m] = lost[m] + 1
        BY <2>1, <3>1, <4>1 DEF TypeOK
      <4>3. accepted[m] <= 1 + resends[m] + lost[m]
        BY DEF AtMostOnceInv, NoSpontaneousDuplicate
      <4>4. Spare(m)'
        BY <2>1, <4>2, <4>3 DEF Spare, TypeOK
      <4> QED  BY <4>1, <4>4 DEF RowHasSpare
    <3>2. CASE ~(cur[a] = r /\ answer[a] \in {"accepted", "unknown"})
      BY <1>0, <2>1, <2>3, <3>2 DEF RowHasSpare, db
    <3> QED  BY <3>1, <3>2
  <2>6. ClaimIsCurrent' /\ UnwrittenIsUntouched'
    BY <2>1 DEF db, AtMostOnceInv, ClaimIsCurrent, UnwrittenIsUntouched, Exists
  <2> QED  BY <2>3, <2>4, <2>5, <2>6 DEF AtMostOnceInv, SpareToSend
<1>9. ASSUME Settle(a) PROVE AtMostOnceInv'
  <2>1. /\ pc[a] = "answered" /\ cur[a] \in Row /\ Exists(cur[a]) /\ ~Locked(cur[a])
        /\ action[cur[a]].status = "leased"
        /\ seen[a].status = "leased" /\ seen[a].unknown = action[cur[a]].unknown
        /\ answer[a] # "none" => answer[a] \in {"accepted", "failed", "unknown", "unheard"}
    BY <1>9 DEF Settle, TypeOK, AtMostOnceInv, LeaseLasts, Exists, Answers
  <2>2. PICK m \in Msg : m = MsgOf(cur[a])
    BY <1>0, <2>1
  <2> DEFINE y == Outcome(seen[a], answer[a])
             z == Written(action[cur[a]], seen[a], y)
  <2>3. /\ action' = [action EXCEPT ![cur[a]] = z]
        /\ outbound' = IF outbound[m] = "gone" THEN outbound
                       ELSE [outbound EXCEPT ![m] =
                               Kept(outbound[m], state[a], OutcomeState(answer[a]))]
        /\ NextRow(a, queue[a])
        /\ UNCHANGED <<win, accepted, lost, resends>>
    BY <1>9, <2>1, <2>2 DEF Settle, history
  <2>4. /\ y.status = CASE answer[a] = "accepted" -> "done"
                         [] answer[a] = "failed"   -> "pending"
                         [] OTHER                  -> "held"
        /\ y.unknown = (seen[a].unknown \/ answer[a] \in {"unknown", "unheard"})
    BY DEF Outcome, TypeOK, QueueRow
  <2>5. z.status = Kept("leased", "leased", y.status) /\ z.unknown = y.unknown
    BY <2>1 DEF Written, Kept
  <2> HIDE DEF y, z
  <2>6. /\ action'[cur[a]] = z
        /\ \A q \in Row : q # cur[a] => action'[q] = action[q]
    BY <2>1, <2>3 DEF TypeOK
  <2>7. \A n \in Msg : /\ n # m => outbound'[n] = outbound[n]
                       /\ outbound[n] = "gone" => outbound'[n] = "gone"
    BY <2>3 DEF TypeOK
  <2>8. /\ NoSpontaneousDuplicate'
        /\ \A n \in Msg : Spare(n) => Spare(n)'
    BY <2>3, CountKept DEF AtMostOnceInv, TypeOK
  <2>9. LeaseLasts' /\ \A b \in Agent : AgentHasSpare(b)'
    BY <2>3, LetGo
  <2>10. ASSUME NEW r \in Row PROVE RowHasSpare(r)'
    <3>1. CASE r = cur[a]
      <4>1. CASE answer[a] \in {"accepted", "unknown"}
        BY <2>4, <2>5, <2>6, <3>1, <4>1 DEF RowHasSpare, Kept
      <4>2. CASE answer[a] \notin {"accepted", "unknown"}
        <5>1. Spare(m)
          BY <1>0, <2>1, <2>2, <4>2 DEF AgentHasSpare
        <5> QED  BY <2>2, <2>8, <3>1, <5>1 DEF RowHasSpare
      <4> QED  BY <4>1, <4>2
    <3>2. CASE r # cur[a]
      <4>1. MsgOf(r) # m /\ MsgOf(r) \in Msg /\ RowHasSpare(r)
        BY <1>0, <2>1, <2>2, <3>2, RowIdentity
      <4>2. action'[r] = action[r] /\ outbound'[MsgOf(r)] = outbound[MsgOf(r)]
        BY <2>6, <2>7, <3>2, <4>1
      <4>3. \A b \in Agent : cur[b] # r
        BY <1>0, <3>2
      <4> QED  BY <2>8, <4>1, <4>2, <4>3 DEF RowHasSpare
    <3> QED  BY <3>1, <3>2
  <2>11. ClaimIsCurrent'
    BY <2>1, <2>3, <2>6, ClaimKept DEF AtMostOnceInv
  <2>12. UnwrittenIsUntouched'
    <3>1. outbound[m] # "none"
      BY <2>1, <2>2, RowIdentity DEF AtMostOnceInv, UnwrittenIsUntouched
    <3>2. outbound'[m] # "none"
      BY <2>3, <3>1 DEF Kept, OutcomeState, TypeOK
    <3> SUFFICES ASSUME NEW n \in Msg, outbound'[n] = "none"
                 PROVE  /\ \A r \in RowsOf(n) : action'[r].status = "none"
                        /\ \A w \in Window : win'[w].at # "idle" => win'[w].msg # n
      BY DEF UnwrittenIsUntouched, Exists
    <3>3. n # m /\ outbound[n] = "none"
      BY <2>7, <3>2
    <3>4. \A r \in RowsOf(n) : r \in Row /\ r # cur[a]
      BY <2>2, <3>3, RowIdentity
    <3>5. \A r \in RowsOf(n) : action'[r] = action[r]
      BY <2>6, <3>4
    <3> QED  BY <2>3, <3>3, <3>5 DEF AtMostOnceInv, UnwrittenIsUntouched, Exists
  <2> QED  BY <2>8, <2>9, <2>10, <2>11, <2>12 DEF AtMostOnceInv, SpareToSend
<1> QED  BY <1>3, <1>4, <1>5, <1>6, <1>7, <1>8, <1>9

-----------------------------------------------------------------------------
LEMMA InitOnce == Init => AtMostOnceInv
<1> SUFFICES ASSUME Init PROVE AtMostOnceInv
  OBVIOUS
<1>1. PICK old \in [Msg -> Legacy \cup {"none"}] :
        /\ outbound = [m \in Msg |-> IF old[m] = "none" THEN "none" ELSE "error"]
        /\ action = [r \in Row |-> IF old[MsgOf(r)] = "retired" /\ r[2] = 1
                                   THEN Retired ELSE NoAction]
  BY DEF Init
<1>2. NoSpontaneousDuplicate /\ \A m \in Msg : Spare(m)
  BY DEF Init, NoSpontaneousDuplicate, Spare
<1>3. SpareToSend
  <2>1. \A r \in Row : MsgOf(r) \in Msg
    BY DEF Row, MsgOf
  <2> QED  BY <1>2, <2>1 DEF SpareToSend, RowHasSpare, AgentHasSpare, Init
<1>4. LeaseLasts /\ ClaimIsCurrent
  BY DEF Init, LeaseLasts, ClaimIsCurrent, NoRequest
<1>5. UnwrittenIsUntouched
  <2> SUFFICES ASSUME NEW m \in Msg, outbound[m] = "none", NEW r \in RowsOf(m)
               PROVE  action[r].status = "none"
    BY DEF UnwrittenIsUntouched, Exists, Init, NoRequest
  <2>1. r \in Row /\ MsgOf(r) = m
    BY DEF RowsOf, Row, MsgOf
  <2>2. old[m] # "retired"
    BY <1>1
  <2> QED  BY <1>1, <2>1, <2>2 DEF NoAction, Queued
<1> QED  BY <1>2, <1>3, <1>4, <1>5 DEF AtMostOnceInv

LEMMA OnceStep ==
    ASSUME TypeOK, TypeOK', AtMostOnceInv, OneAgent, OneSlot, [Next]_vars
    PROVE  AtMostOnceInv'
<1>1. CASE UNCHANGED vars
  BY <1>1 DEF vars, db, frame, history, AtMostOnceInv, NoSpontaneousDuplicate, SpareToSend, Spare,
              RowHasSpare, AgentHasSpare, LeaseLasts, ClaimIsCurrent, UnwrittenIsUntouched, Exists
<1>2. CASE Next
  <2>1. ASSUME NEW w \in Window, NEW m \in Msg, NEW verb \in Verbs, Load(w, m, verb)
        PROVE  AtMostOnceInv'
    BY <2>1, WindowOnce
  <2>2. ASSUME NEW w \in Window, Claim(w) \/ Retry(w) \/ Cancel(w) \/ Discard(w) \/ Vanished(w)
        PROVE  AtMostOnceInv'
    BY <2>2, WindowOnce
  <2>3. ASSUME NEW a \in Agent, AgentStep(a) \/ Crash(a)
        PROVE  AtMostOnceInv'
    BY <2>3, AgentOnce DEF AgentStep
  <2> QED  BY <1>2, <2>1, <2>2, <2>3, RestOnce DEF Next, AgentStep
<1> QED  BY <1>1, <1>2

\* With one agent, and one queue row a message, a message goes out twice only
\* when somebody resent what may have arrived or an agent died between the
\* server's answer and the commit recording it: what _claim's lock and
\* re-read, _lease's commit before the conversation and the "delivery
\* unknown" park (_settle_unknown) are for.
THEOREM AtMostOnce ==
    ASSUME OneAgent, OneSlot
    PROVE  Spec => []NoSpontaneousDuplicate
<1>1. Init => AtMostOnceInv
  BY InitOnce
<1>2. TypeOK /\ TypeOK' /\ AtMostOnceInv /\ [Next]_vars => AtMostOnceInv'
  BY OnceStep
<1>3. AtMostOnceInv => NoSpontaneousDuplicate
  BY DEF AtMostOnceInv
<1>4. Spec => []TypeOK
  BY TypeCorrect
<1> QED  BY <1>1, <1>2, <1>3, <1>4, PTL DEF Spec
-----------------------------------------------------------------------------
(***************************************************************************)
(* Nothing waiting is lost, and what was discarded stays discarded.  When  *)
(* no older version left a message without a queue row, each message that  *)
(* is neither unwritten nor discarded has its row, whoever rewrites it     *)
(* holds that row's lock or its lease, and so never writes from a stale    *)
(* copy of the other's work.  Without the assumption DiscardIsFinal is     *)
(* false: two screens that find no row have nothing to lock, and one can   *)
(* discard a message the other has just put back into an agent's hands.    *)
(***************************************************************************)
NoneRowless == "rowless" \notin Legacy

\* A message has its queue row from Send until discard.
RowWithMessage ==
    \A r \in Row : Exists(r) <=> outbound[MsgOf(r)] \notin {"none", "gone"}

\* A request past its claim holds a row.
ClaimHasRow ==
    \A w \in Window : win[w].at = "claimed" => win[w].row # NoRow

\* What an agent at work loaded of the message is still what is stored.
StateIsCurrent ==
    \A a \in Agent : pc[a] \in {"talking", "answered"} =>
        state[a] = outbound[MsgOf(cur[a])]

\* The Outbox says "discarded" only of a message that is gone.
DiscardedIsGone == \A m \in Msg : told[m] = "discarded" => outbound[m] = "gone"

QueueInv == /\ RowWithMessage /\ ClaimHasRow /\ StateIsCurrent
            /\ DiscardedIsGone /\ QueuedIsLive

\* A step about one row keeps row and message together if it does so there.
LEMMA OneRowStep ==
    ASSUME TypeOK, QueueInv, OneSlot, NEW r \in Row,
           \A q \in Row : q # r => action'[q].status = action[q].status,
           \A m \in Msg : m # MsgOf(r) => outbound'[m] = outbound[m],
           action'[r].status # "none" <=> outbound'[MsgOf(r)] \notin {"none", "gone"},
           outbound'[MsgOf(r)] = "queued" => action'[r].status \in {"pending", "leased"}
    PROVE  RowWithMessage' /\ QueuedIsLive'
<1>1. \A q \in Row : q # r => /\ MsgOf(q) # MsgOf(r) /\ MsgOf(q) \in Msg
                              /\ action'[q].status = action[q].status
                              /\ outbound'[MsgOf(q)] = outbound[MsgOf(q)]
  BY RowIdentity
<1>2. RowWithMessage'
  BY <1>1 DEF QueueInv, RowWithMessage, Exists
<1>3. ASSUME NEW m \in Msg, outbound'[m] = "queued"
      PROVE  \E q \in RowsOf(m) : action'[q].status \in {"pending", "leased"}
  <2>1. CASE m = MsgOf(r)
    <3>1. r \in RowsOf(m)
      BY <2>1, RowIdentity
    <3> QED  BY <1>3, <2>1, <3>1
  <2>2. CASE m # MsgOf(r)
    <3>1. PICK q \in RowsOf(m) : action[q].status \in {"pending", "leased"}
      BY <1>3, <2>2 DEF QueueInv, QueuedIsLive
    <3>2. q \in Row /\ q # r
      BY <2>2, RowIdentity
    <3> QED  BY <1>1, <3>1, <3>2
  <2> QED  BY <2>1, <2>2
<1> QED  BY <1>2, <1>3 DEF QueuedIsLive

\* A step that changes no row's status and no message.
LEMMA RowsStandStill ==
    ASSUME QueueInv, outbound' = outbound,
           \A q \in Row : action'[q].status = action[q].status
    PROVE  RowWithMessage' /\ QueuedIsLive'
<1>1. \A m \in Msg : \A q \in RowsOf(m) : q \in Row
  BY DEF RowsOf, Row
<1> QED  BY <1>1 DEF QueueInv, RowWithMessage, QueuedIsLive, Exists

\* A step that leaves the agents alone, and every message one of them is at
\* work on.
LEMMA AgentsStandStill ==
    ASSUME TypeOK, AtMostOnceInv, QueueInv, UNCHANGED frame,
           \A r \in Row : action[r].status = "leased" => outbound'[MsgOf(r)] = outbound[MsgOf(r)]
    PROVE  StateIsCurrent'
BY DEF TypeOK, AtMostOnceInv, LeaseLasts, QueueInv, StateIsCurrent, frame

\* What a request past its claim has in hand: the row, as it is now.
LEMMA ClaimInHand ==
    ASSUME TypeOK, AtMostOnceInv, QueueInv, OneSlot, NEW w \in Window, win[w].at = "claimed"
    PROVE  LET r == win[w].row
               m == win[w].msg
           IN  /\ r \in Row /\ MsgOf(r) = m /\ m \in Msg /\ r # NoRow
               /\ win[w].state \in Unsent
               /\ win[w].act \in QueueRow
               /\ win[w].act.status = action[r].status
               /\ action[r].status \in {"pending", "held", "error"}
               /\ outbound[m] \notin {"none", "gone"}
<1>1. win[w] \in Request /\ win[w].row # NoRow
  BY DEF TypeOK, NoRequest, QueueInv, ClaimHasRow
<1>2. win[w].row \in Row
  BY <1>1 DEF Request
<1> QED  BY <1>1, <1>2 DEF AtMostOnceInv, ClaimIsCurrent, QueueInv, RowWithMessage, Exists, Request

\* The screens' requests preserve the invariant.
LEMMA WindowLive ==
    ASSUME TypeOK, TypeOK', AtMostOnceInv, QueueInv, OneSlot, NEW w \in Window
    PROVE  /\ \A m \in Msg, verb \in Verbs : Load(w, m, verb) => QueueInv'
           /\ Claim(w) => QueueInv'
           /\ Retry(w) => QueueInv'
           /\ Cancel(w) => QueueInv'
           /\ Discard(w) => QueueInv'
           /\ Vanished(w) => QueueInv'
\* A step that touches the requests alone.
<1>0. ASSUME UNCHANGED <<db, frame, told>>, ClaimHasRow' PROVE QueueInv'
  BY <1>0 DEF QueueInv, RowWithMessage, StateIsCurrent, DiscardedIsGone, QueuedIsLive, Exists, db, frame
\* A request that ends leaves the others as they were.
<1>a. ASSUME win' = [win EXCEPT ![w] = NoRequest] PROVE ClaimHasRow'
  BY <1>a DEF QueueInv, ClaimHasRow, TypeOK, NoRequest
<1>1. ASSUME NEW m \in Msg, NEW verb \in Verbs, Load(w, m, verb) PROVE QueueInv'
  <2>1. ClaimHasRow'
    BY <1>1 DEF Load, QueueInv, ClaimHasRow, TypeOK
  <2> QED  BY <1>0, <1>1, <2>1 DEF Load, history
<1>2. ASSUME Claim(w) PROVE QueueInv'
  <2>1. ClaimHasRow'
    <3>1. CASE win' = [win EXCEPT ![w] = NoRequest]
      BY <1>a, <3>1
    <3>2. CASE win' # [win EXCEPT ![w] = NoRequest]
      <4> DEFINE m    == win[w].msg
                 rows == {r \in RowsOf(m) : Exists(r)}
                 live == {r \in rows : action[r].status # "done"}
      <4>1. /\ ~(BeingSent(rows) \/ (live = {} /\ (rows # {} \/ outbound[m] \notin Unsent)))
            /\ \E r \in IF live = {} THEN {NoRow}
                        ELSE {x \in live : \A y \in live : x[2] <= y[2]} :
                 win' = [win EXCEPT ![w].at = "claimed", ![w].row = r,
                                    ![w].act = IF r = NoRow THEN NoAction ELSE action[r],
                                    ![w].locks = rows]
        BY <1>2, <3>2 DEF Claim
      <4>2. m \in Msg /\ win[w] \in Request
        <5>1. win[w].at = "loaded"
          BY <1>2 DEF Claim
        <5> QED  BY <5>1 DEF TypeOK, NoRequest, Request
      <4>3. live # {}
        <5>1. CASE rows # {}
          BY <4>1, <5>1
        <5>2. CASE outbound[m] \in Unsent
          <6>1. <<m, 1>> \in Row /\ MsgOf(<<m, 1>>) = m /\ <<m, 1>> \in RowsOf(m)
            BY <4>2, SlotAssumption DEF Row, MsgOf, RowsOf
          <6>2. Exists(<<m, 1>>)
            BY <5>2, <6>1 DEF QueueInv, RowWithMessage, Unsent
          <6>3. rows # {}
            BY <6>1, <6>2
          <6> QED  BY <4>1, <6>3
        <5> QED  BY <4>1, <5>1, <5>2
      <4>4. PICK r \in live :
              win' = [win EXCEPT ![w].at = "claimed", ![w].row = r,
                                 ![w].act = IF r = NoRow THEN NoAction ELSE action[r],
                                 ![w].locks = rows]
        BY <4>1, <4>3
      <4>5. r # NoRow
        BY <4>2, RowIdentity DEF Row, NoRow
      <4> HIDE DEF rows, live
      <4>6. win'[w].row = r /\ \A v \in Window : v # w => win'[v] = win[v]
        BY <4>2, <4>4 DEF TypeOK, Request
      <4> QED  BY <4>5, <4>6 DEF QueueInv, ClaimHasRow
    <3> QED  BY <3>1, <3>2
  <2> QED  BY <1>0, <1>2, <2>1 DEF Claim, history
<1>3. ASSUME Vanished(w) PROVE QueueInv'
  BY <1>0, <1>3, <1>a DEF Vanished, history
<1> DEFINE r == win[w].row
           m == win[w].msg
\* Each of the three verbs writes the row it holds, and its message.
<1>4. ASSUME win[w].at = "claimed", UNCHANGED frame,
             win' = [win EXCEPT ![w] = NoRequest],
             \A q \in Row : q # r => action'[q] = action[q],
             \A n \in Msg : n # m => outbound'[n] = outbound[n],
             action'[r].status # "none" <=> outbound'[m] \notin {"none", "gone"},
             outbound'[m] = "queued" => action'[r].status \in {"pending", "leased"},
             \A n \in Msg : told'[n] = "discarded" =>
                 \/ told[n] = "discarded" /\ n # m
                 \/ n = m /\ outbound'[m] = "gone"
      PROVE  QueueInv'
  <2>1. /\ r \in Row /\ MsgOf(r) = m /\ m \in Msg
        /\ action[r].status \in {"pending", "held", "error"}
    BY <1>4, ClaimInHand
  <2> HIDE DEF r, m
  <2>2. RowWithMessage' /\ QueuedIsLive'
    BY <1>4, <2>1, OneRowStep
  <2>3. StateIsCurrent'
    <3>1. \A q \in Row : action[q].status = "leased" => MsgOf(q) # m /\ MsgOf(q) \in Msg
      BY <2>1, RowIdentity
    <3> QED  BY <1>4, <3>1, AgentsStandStill
  <2>4. DiscardedIsGone'
    BY <1>4 DEF QueueInv, DiscardedIsGone
  <2> QED  BY <1>4, <1>a, <2>2, <2>3, <2>4 DEF QueueInv
<1>5. ASSUME Retry(w) PROVE QueueInv'
  <2>1. /\ r \in Row /\ m \in Msg /\ MsgOf(r) = m /\ r # NoRow
        /\ win[w].act \in QueueRow /\ win[w].act.status = action[r].status
        /\ action[r].status \in {"pending", "held", "error"}
        /\ outbound[m] \notin {"none", "gone"}
    BY <1>5, ClaimInHand DEF Retry
  <2> DEFINE x == win[w].act
             y == [x EXCEPT !.status = "pending", !.wait = "due"]
  <2>2. /\ action' = [action EXCEPT ![r] = Written(action[r], x, y)]
        /\ outbound' = [outbound EXCEPT ![m] = Kept(outbound[m], win[w].state, "queued")]
        /\ win' = [win EXCEPT ![w] = NoRequest]
        /\ told' = [told EXCEPT ![m] = "queued"]
        /\ UNCHANGED frame
        /\ win[w].at = "claimed"
    BY <1>5, <2>1 DEF Retry, Answer
  <2>3. Written(action[r], x, y).status = "pending"
    BY <2>1 DEF Written, Kept, QueueRow
  <2>4. outbound'[m] \notin {"none", "gone"}
    BY <2>1, <2>2 DEF Kept, TypeOK
  <2> HIDE DEF r, m, x, y
  <2>5. action'[r].status = "pending" /\ \A q \in Row : q # r => action'[q] = action[q]
    BY <2>1, <2>2, <2>3 DEF TypeOK
  <2>6. \A n \in Msg : told'[n] = "discarded" => told[n] = "discarded" /\ n # m
    BY <2>1, <2>2 DEF TypeOK
  <2>7. \A n \in Msg : n # m => outbound'[n] = outbound[n]
    BY <2>2 DEF TypeOK
  <2> QED  BY <1>4, <2>2, <2>4, <2>5, <2>6, <2>7
<1>6. ASSUME Cancel(w) PROVE QueueInv'
  <2>1. /\ r \in Row /\ m \in Msg /\ MsgOf(r) = m /\ r # NoRow
        /\ win[w].act \in QueueRow /\ win[w].act.status = action[r].status
        /\ action[r].status \in {"pending", "held", "error"}
        /\ outbound[m] \notin {"none", "gone"}
    BY <1>6, ClaimInHand DEF Cancel
  <2>2. /\ win' = [win EXCEPT ![w] = NoRequest]
        /\ told' = [told EXCEPT ![m] = "held"]
        /\ UNCHANGED frame
        /\ win[w].at = "claimed"
    BY <1>6 DEF Cancel, Answer
  <2>3. \A n \in Msg : told'[n] = "discarded" => told[n] = "discarded" /\ n # m
    BY <2>1, <2>2 DEF TypeOK
  <2>4. CASE win[w].state = "held"
    <3>1. outbound' = outbound /\ action' = action
      BY <1>6, <2>4 DEF Cancel
    <3>2. outbound[m] = "queued" => action[r].status \in {"pending", "leased"}
      <4>1. \A q \in RowsOf(m) : q = r
        BY <2>1, RowIdentity
      <4> QED  BY <2>1, <4>1 DEF QueueInv, QueuedIsLive
    <3> HIDE DEF r, m
    <3> QED  BY <1>4, <2>1, <2>2, <2>3, <3>1, <3>2
  <2>5. CASE win[w].state # "held"
    <3> DEFINE x == win[w].act
               y == [x EXCEPT !.status = "held"]
    <3>1. /\ action' = [action EXCEPT ![r] = Written(action[r], x, y)]
          /\ outbound' = [outbound EXCEPT ![m] = "held"]
      BY <1>6, <2>1, <2>5 DEF Cancel, Kept
    <3>2. Written(action[r], x, y).status = "held"
      BY <2>1 DEF Written, Kept, QueueRow
    <3> HIDE DEF r, m, x, y
    <3>3. action'[r].status = "held" /\ \A q \in Row : q # r => action'[q] = action[q]
      BY <2>1, <3>1, <3>2 DEF TypeOK
    <3>4. outbound'[m] = "held" /\ \A n \in Msg : n # m => outbound'[n] = outbound[n]
      BY <2>1, <3>1 DEF TypeOK
    <3> QED  BY <1>4, <2>2, <2>3, <3>3, <3>4
  <2> QED  BY <2>4, <2>5
<1>7. ASSUME Discard(w) PROVE QueueInv'
  <2>1. r \in Row /\ m \in Msg /\ MsgOf(r) = m /\ r # NoRow
    BY <1>7, ClaimInHand DEF Discard
  <2>2. /\ action' = [action EXCEPT ![r] = NoAction]
        /\ outbound' = [outbound EXCEPT ![m] = "gone"]
        /\ win' = [win EXCEPT ![w] = NoRequest]
        /\ told' = [told EXCEPT ![m] = "discarded"]
        /\ UNCHANGED frame
        /\ win[w].at = "claimed"
    BY <1>7, <2>1 DEF Discard, Answer
  <2> HIDE DEF r, m
  <2>3. /\ action'[r].status = "none" /\ \A q \in Row : q # r => action'[q] = action[q]
        /\ outbound'[m] = "gone" /\ \A n \in Msg : n # m => outbound'[n] = outbound[n]
    BY <2>1, <2>2 DEF TypeOK, NoAction, Queued
  <2>4. \A n \in Msg : told'[n] = "discarded" => (told[n] = "discarded" /\ n # m) \/ n = m
    BY <2>2 DEF TypeOK
  <2> QED  BY <1>4, <2>2, <2>3, <2>4
<1> QED  BY <1>1, <1>2, <1>3, <1>5, <1>6, <1>7

\* Composing, requeueing and time preserve the invariant.
LEMMA RestLive ==
    ASSUME TypeOK, TypeOK', AtMostOnceInv, QueueInv, OneSlot
    PROVE  /\ \A m \in Msg : Send(m) => QueueInv'
           /\ RequeueAbandoned => QueueInv'
           /\ \A r \in Row : WaitEnds(r) => QueueInv'
           /\ \A r \in Row : LeaseLapses(r) => QueueInv'
<1>1. ASSUME NEW m \in Msg, Send(m) PROVE QueueInv'
  <2>1. PICK wait \in {"due", "delay"} : action' = [action EXCEPT ![<<m, 1>>] = Queued(wait)]
    BY <1>1 DEF Send
  <2>2. /\ outbound[m] = "none"
        /\ outbound' = [outbound EXCEPT ![m] = "queued"]
        /\ UNCHANGED <<frame, win, told>>
    BY <1>1 DEF Send, history
  <2>3. PICK r \in Row : r = <<m, 1>> /\ MsgOf(r) = m
    <3>1. <<m, 1>> \in Row /\ MsgOf(<<m, 1>>) = m
      BY SlotAssumption DEF Row, MsgOf
    <3> QED  BY <3>1
  <2>4. /\ action'[r].status = "pending"
        /\ \A q \in Row : q # r => action'[q] = action[q]
    BY <2>1, <2>3 DEF TypeOK, Queued
  <2>5. outbound'[m] = "queued" /\ \A n \in Msg : n # m => outbound'[n] = outbound[n]
    BY <2>2 DEF TypeOK
  <2>6. RowWithMessage' /\ QueuedIsLive'
    BY <2>3, <2>4, <2>5, OneRowStep
  <2>7. StateIsCurrent'
    <3>1. action[r].status = "none"
      BY <2>2, <2>3 DEF QueueInv, RowWithMessage, Exists
    <3>2. \A q \in Row : action[q].status = "leased" => MsgOf(q) # m /\ MsgOf(q) \in Msg
      BY <2>3, <3>1, RowIdentity
    <3> QED  BY <2>2, <2>5, <3>2, AgentsStandStill
  <2>8. ClaimHasRow' /\ DiscardedIsGone'
    BY <2>2, <2>5 DEF QueueInv, ClaimHasRow, DiscardedIsGone
  <2> QED  BY <2>6, <2>7, <2>8 DEF QueueInv
<1>2. ASSUME RequeueAbandoned PROVE QueueInv'
  <2> DEFINE retired == {r \in Row : Abandoned(action[r])}
  <2>1. /\ \A r \in Row : action'[r] = IF r \in retired THEN Queued("due") ELSE action[r]
        /\ \A m \in Msg : outbound'[m] = IF outbound[m] = "error" /\ retired \cap RowsOf(m) # {}
                                         THEN "queued" ELSE outbound[m]
        /\ UNCHANGED <<frame, win, told>>
    BY <1>2 DEF RequeueAbandoned, history
  <2>2. \A r \in Row : /\ action[r].status = "error" => action'[r].status = "pending"
                       /\ action[r].status # "error" => action'[r].status = action[r].status
    BY <2>1 DEF Abandoned, Queued
  <2>3. \A m \in Msg : \A r \in RowsOf(m) :
          /\ r \in Row /\ MsgOf(r) = m /\ \A q \in RowsOf(m) : q = r
          /\ outbound'[m] = outbound[m] \/ /\ outbound[m] = "error" /\ outbound'[m] = "queued"
                                           /\ action[r].status = "error"
    BY <2>1, RowIdentity DEF Abandoned
  <2>4. \A m \in Msg : outbound[m] # "error" => outbound'[m] = outbound[m]
    BY <2>1
  <2> HIDE DEF retired
  <2>5. ASSUME NEW r \in Row
        PROVE  /\ MsgOf(r) \in Msg /\ r \in RowsOf(MsgOf(r))
               /\ \/ outbound'[MsgOf(r)] = outbound[MsgOf(r)]
                  \/ /\ outbound[MsgOf(r)] = "error" /\ outbound'[MsgOf(r)] = "queued"
                     /\ action[r].status = "error"
    BY <2>3, RowIdentity
  <2>6. RowWithMessage'
    BY <2>2, <2>5 DEF QueueInv, RowWithMessage, Exists
  <2>7. QueuedIsLive'
    <3> SUFFICES ASSUME NEW m \in Msg, outbound'[m] = "queued"
                 PROVE  \E r \in RowsOf(m) : action'[r].status \in {"pending", "leased"}
      BY DEF QueuedIsLive
    <3>1. <<m, 1>> \in RowsOf(m)
      BY SlotAssumption DEF RowsOf
    <3>2. CASE outbound[m] = "queued"
      <4>1. PICK r \in RowsOf(m) : action[r].status \in {"pending", "leased"}
        BY <3>2 DEF QueueInv, QueuedIsLive
      <4> QED  BY <2>2, <2>3, <4>1
    <3>3. CASE outbound[m] # "queued"
      BY <2>2, <2>3, <3>1, <3>3
    <3> QED  BY <3>2, <3>3
  <2>8. StateIsCurrent'
    BY <2>1, <2>5, AgentsStandStill
  <2>9. ClaimHasRow' /\ DiscardedIsGone'
    BY <2>1, <2>4 DEF QueueInv, ClaimHasRow, DiscardedIsGone
  <2> QED  BY <2>6, <2>7, <2>8, <2>9 DEF QueueInv
<1>3. ASSUME UNCHANGED <<outbound, frame, win, told>>,
             \A q \in Row : action'[q].status = action[q].status
      PROVE  QueueInv'
  BY <1>3, RowsStandStill, AgentsStandStill DEF QueueInv, ClaimHasRow, DiscardedIsGone
<1>4. ASSUME NEW r \in Row, WaitEnds(r) PROVE QueueInv'
  <2>1. \A q \in Row : action'[q].status = action[q].status
    BY <1>4 DEF WaitEnds, TypeOK, QueueRow
  <2> QED  BY <1>3, <1>4, <2>1 DEF WaitEnds, history
<1>5. ASSUME NEW r \in Row, LeaseLapses(r) PROVE QueueInv'
  <2>1. \A q \in Row : action'[q].status = action[q].status
    BY <1>5 DEF LeaseLapses, TypeOK, QueueRow
  <2> QED  BY <1>3, <1>5, <2>1 DEF LeaseLapses, history
<1> QED  BY <1>1, <1>2, <1>4, <1>5

\* The agent's steps preserve the invariant.
LEMMA AgentLive ==
    ASSUME TypeOK, TypeOK', AtMostOnceInv, QueueInv, OneAgent, OneSlot, NEW a \in Agent
    PROVE  /\ DueQueue(a) => QueueInv'
           /\ Reload(a) => QueueInv'
           /\ Lease(a) => QueueInv'
           /\ Begin(a) => QueueInv'
           /\ Converse(a) => QueueInv'
           /\ Settle(a) => QueueInv'
           /\ Crash(a) => QueueInv'
<1>0. \A b \in Agent : b = a
  BY DEF OneAgent
\* A step that leaves the rows' status and the messages alone.
<1>1. ASSUME UNCHANGED <<outbound, win, told>>, StateIsCurrent',
             \A q \in Row : action'[q].status = action[q].status
      PROVE  QueueInv'
  BY <1>1, RowsStandStill DEF QueueInv, ClaimHasRow, DiscardedIsGone
<1>2. ASSUME NEW rest, NextRow(a, rest) PROVE StateIsCurrent'
  BY <1>0, <1>2 DEF StateIsCurrent, NextRow, TypeOK
<1>3. ASSUME DueQueue(a) PROVE QueueInv'
  <2>1. StateIsCurrent'
    BY <1>0, <1>3 DEF DueQueue, StateIsCurrent, TypeOK
  <2> QED  BY <1>1, <1>3, <2>1 DEF DueQueue, db, history
<1>4. ASSUME Reload(a) PROVE QueueInv'
  <2>1. StateIsCurrent'
    <3>1. CASE PassDies(a)
      BY <1>2, <3>1 DEF PassDies
    <3>2. CASE ~PassDies(a)
      BY <1>0, <1>4, <3>2 DEF Reload, StateIsCurrent, TypeOK
    <3> QED  BY <3>1, <3>2
  <2> QED  BY <1>1, <1>4, <2>1 DEF Reload, db, history
<1>5. ASSUME Lease(a) PROVE QueueInv'
  <2>1. /\ UNCHANGED <<outbound, win, told>>
        /\ pc[a] = "picked" /\ cur[a] \in Row
    BY <1>5 DEF Lease, history, TypeOK
  <2>2. CASE NextRow(a, queue[a]) /\ UNCHANGED action
    BY <1>1, <1>2, <2>1, <2>2
  <2>3. CASE ~(NextRow(a, queue[a]) /\ UNCHANGED action)
    <3> DEFINE r == cur[a]
               x == seen[a]
               y == [x EXCEPT !.status = "leased"]
               z == [Written(action[r], x, y) EXCEPT !.lapsed = FALSE]
    <3>1. /\ action' = [action EXCEPT ![r] = z]
          /\ pc' = [pc EXCEPT ![a] = "leased"]
          /\ Exists(r) /\ x.status \in {"pending", "leased"}
      BY <1>5, <2>3 DEF Lease, Claimable
    <3>2. z.status = "leased"
      <4>1. Written(action[r], x, y).status = Kept(action[r].status, x.status, "leased")
        BY DEF Written, TypeOK, QueueRow
      <4>2. Kept(action[r].status, x.status, "leased") = "leased"
        BY <2>1, <3>1 DEF Kept, AtMostOnceInv, LeaseLasts
      <4>3. z.status = Written(action[r], x, y).status
        BY DEF Written
      <4> QED  BY <4>1, <4>2, <4>3
    <3> HIDE DEF x, y, z
    <3>3. /\ action'[r].status = "leased"
          /\ \A q \in Row : q # r => action'[q] = action[q]
      BY <2>1, <3>1, <3>2 DEF TypeOK
    <3>4. outbound[MsgOf(r)] \notin {"none", "gone"}
      BY <2>1, <3>1 DEF QueueInv, RowWithMessage
    <3> HIDE DEF r
    <3>5. RowWithMessage' /\ QueuedIsLive'
      BY <2>1, <3>3, <3>4, OneRowStep DEF r
    <3>6. StateIsCurrent'
      BY <1>0, <3>1 DEF StateIsCurrent, TypeOK
    <3> QED  BY <2>1, <3>5, <3>6 DEF QueueInv, ClaimHasRow, DiscardedIsGone
  <2> QED  BY <2>2, <2>3
<1>6. ASSUME Begin(a) PROVE QueueInv'
  <2>1. UNCHANGED <<db, win, told>> /\ pc[a] = "leased"
    BY <1>6 DEF Begin, history
  <2>2. StateIsCurrent'
    <3>1. CASE PassDies(a)
      BY <1>2, <3>1 DEF PassDies
    <3>2. CASE ~PassDies(a)
      BY <1>0, <1>6, <2>1, <3>2 DEF Begin, StateIsCurrent, TypeOK, db
    <3> QED  BY <3>1, <3>2
  <2> QED  BY <1>1, <2>1, <2>2 DEF db
<1>7. ASSUME Converse(a) PROVE QueueInv'
  <2>1. StateIsCurrent'
    BY <1>0, <1>7 DEF Converse, StateIsCurrent, TypeOK, QueueInv, db
  <2> QED  BY <1>1, <1>7, <2>1 DEF Converse, db
<1>8. ASSUME Crash(a) PROVE QueueInv'
  BY <1>1, <1>2, <1>8 DEF Crash, PassDies, db
<1>9. ASSUME Settle(a) PROVE QueueInv'
  <2>1. /\ pc[a] = "answered" /\ cur[a] \in Row
        /\ action[cur[a]].status = "leased" /\ seen[a].status = "leased"
        /\ state[a] = outbound[MsgOf(cur[a])]
        /\ UNCHANGED <<win, told>>
    BY <1>9 DEF Settle, TypeOK, AtMostOnceInv, LeaseLasts, QueueInv, StateIsCurrent, history
  <2> DEFINE r == cur[a]
             m == MsgOf(r)
             y == Outcome(seen[a], answer[a])
             z == Written(action[r], seen[a], y)
  <2>2. Exists(r) /\ outbound[m] \notin {"none", "gone"} /\ m \in Msg
    BY <2>1, RowIdentity DEF Exists, QueueInv, RowWithMessage
  <2>3. /\ action' = [action EXCEPT ![r] = z]
        /\ outbound' = [outbound EXCEPT ![m] = Kept(outbound[m], state[a], OutcomeState(answer[a]))]
        /\ NextRow(a, queue[a])
    BY <1>9, <2>2 DEF Settle
  <2>4. /\ y.status = CASE answer[a] = "accepted" -> "done"
                         [] answer[a] = "failed"   -> "pending"
                         [] OTHER                  -> "held"
        /\ z.status = y.status
    <3>1. y.status = CASE answer[a] = "accepted" -> "done"
                       [] answer[a] = "failed"   -> "pending"
                       [] OTHER                  -> "held"
      BY DEF Outcome, TypeOK, QueueRow
    <3>2. z.status = Kept("leased", "leased", y.status)
      BY <2>1 DEF Written
    <3> QED  BY <3>1, <3>2 DEF Kept
  <2>5. Kept(outbound[m], state[a], OutcomeState(answer[a])) = OutcomeState(answer[a])
    BY <2>1 DEF Kept
  <2> HIDE DEF y, z
  <2>6. /\ action'[r] = z /\ \A q \in Row : q # r => action'[q] = action[q]
        /\ outbound'[m] = OutcomeState(answer[a])
        /\ \A n \in Msg : n # m => outbound'[n] = outbound[n]
    BY <2>1, <2>2, <2>3, <2>5 DEF TypeOK
  <2>7. /\ action'[r].status # "none" /\ outbound'[m] \notin {"none", "gone"}
        /\ outbound'[m] = "queued" => action'[r].status = "pending"
    BY <2>4, <2>6 DEF OutcomeState
  <2>8. RowWithMessage' /\ QueuedIsLive'
    <3> HIDE DEF r, m
    <3>1. r \in Row /\ m = MsgOf(r)
      BY <2>1 DEF r, m
    <3> QED  BY <2>6, <2>7, <3>1, OneRowStep
  <2>9. DiscardedIsGone'
    <3>1. told[m] # "discarded"
      BY <2>2 DEF QueueInv, DiscardedIsGone
    <3> HIDE DEF r, m
    <3> QED  BY <2>1, <2>6, <3>1 DEF QueueInv, DiscardedIsGone
  <2>10. StateIsCurrent' /\ ClaimHasRow'
    BY <1>2, <2>1, <2>3 DEF QueueInv, ClaimHasRow
  <2> QED  BY <2>8, <2>9, <2>10 DEF QueueInv
<1> QED  BY <1>3, <1>4, <1>5, <1>6, <1>7, <1>8, <1>9

LEMMA InitLive == ASSUME NoneRowless, OneSlot PROVE Init => QueueInv
<1> SUFFICES ASSUME Init PROVE QueueInv
  OBVIOUS
<1>1. PICK old \in [Msg -> Legacy \cup {"none"}] :
        /\ outbound = [m \in Msg |-> IF old[m] = "none" THEN "none" ELSE "error"]
        /\ action = [r \in Row |-> IF old[MsgOf(r)] = "retired" /\ r[2] = 1
                                   THEN Retired ELSE NoAction]
  BY DEF Init
<1>2. \A m \in Msg : old[m] \in {"none", "retired"}
  BY LegacyAssumption DEF NoneRowless
<1>3. \A r \in Row : MsgOf(r) \in Msg /\ r[2] = 1
  BY DEF Row, MsgOf, OneSlot
<1>4. RowWithMessage
  BY <1>1, <1>2, <1>3 DEF RowWithMessage, Exists, Retired, NoAction, Queued
<1>5. QueuedIsLive
  BY <1>1 DEF QueuedIsLive
<1>6. ClaimHasRow /\ StateIsCurrent /\ DiscardedIsGone
  BY DEF Init, ClaimHasRow, StateIsCurrent, DiscardedIsGone, NoRequest
<1> QED  BY <1>4, <1>5, <1>6 DEF QueueInv

LEMMA LiveStep ==
    ASSUME TypeOK, TypeOK', AtMostOnceInv, QueueInv, OneAgent, OneSlot, [Next]_vars
    PROVE  QueueInv'
<1>1. CASE UNCHANGED vars
  BY <1>1 DEF vars, db, frame, history, QueueInv, RowWithMessage, ClaimHasRow, StateIsCurrent,
              DiscardedIsGone, QueuedIsLive, Exists
<1>2. CASE Next
  <2>1. ASSUME NEW w \in Window, NEW m \in Msg, NEW verb \in Verbs, Load(w, m, verb)
        PROVE  QueueInv'
    BY <2>1, WindowLive
  <2>2. ASSUME NEW w \in Window, Claim(w) \/ Retry(w) \/ Cancel(w) \/ Discard(w) \/ Vanished(w)
        PROVE  QueueInv'
    BY <2>2, WindowLive
  <2>3. ASSUME NEW a \in Agent, AgentStep(a) \/ Crash(a)
        PROVE  QueueInv'
    BY <2>3, AgentLive DEF AgentStep
  <2> QED  BY <1>2, <2>1, <2>2, <2>3, RestLive DEF Next, AgentStep
<1> QED  BY <1>1, <1>2

\* The inductive invariant behind the next two: who holds a row holds it against the
\* others, and a queued message has its one row where an agent will find it.
THEOREM QueueSound ==
    ASSUME OneAgent, OneSlot, NoneRowless
    PROVE  Spec => [](TypeOK /\ AtMostOnceInv /\ QueueInv)
<1>1. Init => AtMostOnceInv /\ QueueInv
  BY InitOnce, InitLive
<1>2. TypeOK /\ TypeOK' /\ AtMostOnceInv /\ QueueInv /\ [Next]_vars => AtMostOnceInv' /\ QueueInv'
  BY OnceStep, LiveStep
<1> QED  BY <1>1, <1>2, TypeCorrect, PTL DEF Spec

\* A message the Outbox shows as queued has a queue row some agent will take:
\* the two rows are written together by compose, retry, requeue_abandoned and
\* _drain_leased's settling, each holding the row against the others.
THEOREM QueuedLives ==
    ASSUME OneAgent, OneSlot, NoneRowless
    PROVE  Spec => []QueuedIsLive
<1>1. QueueInv => QueuedIsLive
  BY DEF QueueInv
<1> QED  BY <1>1, QueueSound, PTL

\* What moves the server's count is an agent in a conversation, about a row
\* that is leased, and so about a message that is still there.
LEMMA DiscardedRests ==
    ASSUME TypeOK, TypeOK', AtMostOnceInv, QueueInv, QueueInv', OneAgent, OneSlot, [Next]_vars,
           NEW m \in Msg, told[m] = "discarded"
    PROVE  accepted'[m] = accepted[m] /\ outbound'[m] = "gone"
<1>1. outbound[m] = "gone"
  BY DEF QueueInv, DiscardedIsGone
<1>2. \A r \in RowsOf(m) : r \in Row /\ action[r].status = "none"
  BY <1>1, RowIdentity DEF QueueInv, RowWithMessage, Exists
<1>3. ASSUME UNCHANGED <<outbound, accepted>> PROVE accepted'[m] = accepted[m] /\ outbound'[m] = "gone"
  BY <1>1, <1>3
<1>4. CASE UNCHANGED vars
  BY <1>3, <1>4 DEF vars, db, history
<1>5. ASSUME NEW n \in Msg, Send(n) PROVE accepted'[m] = accepted[m] /\ outbound'[m] = "gone"
  BY <1>1, <1>5 DEF Send, history, TypeOK
<1>6. ASSUME NEW w \in Window, NEW n \in Msg, NEW verb \in Verbs, Load(w, n, verb)
      PROVE  accepted'[m] = accepted[m] /\ outbound'[m] = "gone"
  BY <1>3, <1>6 DEF Load, db, history
<1>7. ASSUME NEW w \in Window, Claim(w) \/ Retry(w) \/ Cancel(w) \/ Discard(w) \/ Vanished(w)
      PROVE  accepted'[m] = accepted[m] /\ outbound'[m] = "gone"
  <2>1. CASE Claim(w) \/ Vanished(w)
    BY <1>3, <2>1 DEF Claim, Vanished, db, history
  <2>2. CASE Retry(w)
    BY <1>1, <2>2 DEF Retry, TypeOK
  <2>3. CASE Cancel(w)
    BY <1>1, <2>3 DEF Cancel, TypeOK
  <2>4. CASE Discard(w)
    BY <1>1, <2>4 DEF Discard, TypeOK
  <2> QED  BY <1>7, <2>1, <2>2, <2>3, <2>4
<1>8. ASSUME NEW a \in Agent, AgentStep(a) \/ Crash(a)
      PROVE  accepted'[m] = accepted[m] /\ outbound'[m] = "gone"
  <2>1. CASE DueQueue(a) \/ Reload(a) \/ Begin(a) \/ Crash(a)
    BY <1>3, <2>1 DEF DueQueue, Reload, Begin, Crash, db, history
  <2>2. CASE Lease(a)
    BY <1>3, <2>2 DEF Lease, history
  <2>3. CASE Converse(a)
    <3>1. cur[a] \in Row /\ action[cur[a]].status = "leased"
      BY <2>3 DEF Converse, TypeOK, AtMostOnceInv, LeaseLasts
    <3>2. MsgOf(cur[a]) # m
      BY <1>2, <3>1, RowIdentity
    <3>3. accepted'[m] = accepted[m]
      BY <2>3, <3>2 DEF Converse, TypeOK
    <3> QED  BY <1>1, <2>3, <3>3 DEF Converse, db
  <2>4. CASE Settle(a)
    BY <1>1, <2>4 DEF Settle, TypeOK, history, db
  <2> QED  BY <1>8, <2>1, <2>2, <2>3, <2>4 DEF AgentStep
<1>9. CASE RequeueAbandoned
  BY <1>1, <1>9 DEF RequeueAbandoned, history
<1>10. ASSUME NEW r \in Row, WaitEnds(r) \/ LeaseLapses(r)
       PROVE  accepted'[m] = accepted[m] /\ outbound'[m] = "gone"
  BY <1>3, <1>10 DEF WaitEnds, LeaseLapses, history
<1> QED
  BY <1>4, <1>5, <1>6, <1>7, <1>8, <1>9, <1>10 DEF Next, AgentStep

\* Once discard has answered, no agent hands the message to a server, whatever
\* it had read of the row: discard deletes the row under its lock, only an
\* unleased one (_claim), and _lease and apply_action read it again.
THEOREM DiscardFinal ==
    ASSUME OneAgent, OneSlot, NoneRowless
    PROVE  Spec => DiscardIsFinal
<1> DEFINE Inv == TypeOK /\ AtMostOnceInv /\ QueueInv
           Rests == \A m \in Msg : told[m] = "discarded" =>
                      accepted'[m] = accepted[m] /\ outbound'[m] = "gone"
<1>1. Inv /\ Inv' /\ [Next]_vars => [Rests]_vars
  BY DiscardedRests
<1>2. Spec => []Inv
  BY QueueSound
<1> HIDE DEF Inv, Rests
<1>3. Spec => [][Rests]_vars
  BY <1>1, <1>2, PTL DEF Spec
<1> QED  BY <1>3 DEF Rests, DiscardIsFinal
=============================================================================
