--------------------------- MODULE MailboxProofs ---------------------------
(***************************************************************************)
(* What holds of the parts that keep a mailbox in order, for every value   *)
(* of their constants: that the Sent folder has a mail once, that a        *)
(* reminder which is over has brought back what it parked, that mail which *)
(* belongs together is one conversation, and that the repair tool takes no *)
(* row that anything waits on and no mail away.  Folders, the fourth part, *)
(* has its proofs in FoldersProofs.                                        *)
(***************************************************************************)
EXTENDS MCMailbox, FiniteSetTheorems, WellFoundedInduction, TLAPS

----------------------------------------------------------------------------
\* A step of the whole is a step of the part that runs, which it does for good.
LEMMA PartSteps ==
  ASSUME [MailboxNext]_mailboxVars
  PROVE  /\ part' = part
         /\ part = "sent"    => [S!Next]_S!vars
         /\ part = "threads" => [T!Next]_T!vars
         /\ part = "repair"  => [R!Next]_R!vars
  <1>1. CASE MailboxNext
    BY <1>1 DEF MailboxNext
  <1>2. CASE UNCHANGED mailboxVars
    BY <1>2 DEF mailboxVars, sentVars, threadVars, repairVars, S!vars, S!server, S!db, S!bounds,
                T!vars, T!mail, R!vars, R!mail, R!srv, R!tool
  <1> QED
    BY <1>1, <1>2

----------------------------------------------------------------------------
\* Sent mail.  Rows wait in a sequence, and the agent has one of them in hand.
SentRow == [mail : Letters, status : {"pending", "done"}]

SentTyped ==
    /\ files \in BOOLEAN /\ save_sent \in {"unset", "yes", "no"}
    /\ sentCopies \in [Letters -> Nat] /\ outbound \in [Letters -> {"queued", "sent"}]
    /\ sentRows \in Seq(SentRow) /\ mime \subseteq Letters /\ tool.queue \subseteq Letters
    /\ agent = [row |-> agent.row, pc |-> agent.pc]
    /\ agent.pc # "idle" => agent.row \in DOMAIN sentRows

\* Where the server files what it relays, the agent never gets as far as to look, and
\* what the server has still to file is not there.
ServerFilesAlone ==
    files => /\ agent.pc \notin {"search", "append"}
             /\ save_sent # "yes"
             /\ save_sent = "no" => sentRows = <<>> /\ ~tool.open
             /\ \A m \in Letters : outbound[m] = "queued" => sentCopies[m] = 0 /\ m \notin owed
             /\ \A m \in owed \cap Letters : sentCopies[m] = 0

\* Where it does not, it has nothing to file, and the agent has just looked.
AgentFilesAlone ==
    ~files => /\ owed = {}
              /\ agent.pc = "append" => sentCopies[sentRows[agent.row].mail] = 0

SentInv == SentTyped /\ ServerFilesAlone /\ AgentFilesAlone /\ S!OneCopy

\* Nothing has been filed but by the server.
LEMMA SentInvInit == S!Init => SentInv
  BY DEF S!Init, S!Idle, S!NoTool, SentInv, SentTyped, ServerFilesAlone, AgentFilesAlone, S!OneCopy

\* What the tool queues is a row for each mail it found.
LEMMA ToolRows ==
  ASSUME IsFiniteSet(Letters), SentInv, S!ToolCommit
  PROVE  /\ sentRows' \in Seq(SentRow) /\ DOMAIN sentRows \subseteq DOMAIN sentRows'
         /\ \A i \in DOMAIN sentRows : sentRows'[i] = sentRows[i]
  <1> DEFINE Q == tool.queue
             n == S!Cardinality(Q)
             seq == S!SetToSeq(Q)
             more == [i \in 1..n |-> S!Row(seq[i])]
  <1>1. IsFiniteSet(Q) /\ n = Cardinality(Q) /\ n \in Nat
    BY FS_Subset, FS_CardinalityType DEF SentInv, SentTyped, S!Cardinality, Cardinality
  <1>2. \E f \in [1..n -> Q] : S!IsInjective(f)
    <2>1. PICK f \in Bijection(1..n, Q) : TRUE
      BY <1>1, FS_CardinalityType DEF ExistsBijection
    <2>2. f \in [1..n -> Q] /\ \A a, b \in 1..n : f[a] = f[b] => a = b
      BY <2>1 DEF Bijection, Injection, IsInjective
    <2> QED
      BY <2>2 DEF S!IsInjective
  <1>3. seq \in [1..n -> Q]
    <2>1. seq = CHOOSE f \in [1..n -> Q] : S!IsInjective(f)
      BY DEF S!SetToSeq
    <2> HIDE DEF seq
    <2> QED
      BY <1>2, <2>1
  <1>4. more \in [1..n -> SentRow]
    <2> HIDE DEF seq, n
    <2> QED
      BY <1>3 DEF SentInv, SentTyped, SentRow, S!Row
  <1>5. more \in Seq(SentRow)
    <2> HIDE DEF more
    <2> QED
      BY <1>1, <1>4
  <1>6. sentRows' = sentRows \o more
    BY DEF S!ToolCommit
  <1> HIDE DEF more
  <1> QED
    BY <1>5, <1>6 DEF SentInv, SentTyped

\* The steps that give the agent rows, and take them from it.
LEMMA RowsKeep ==
  ASSUME IsFiniteSet(Letters), SentInv,
         \/ \E m \in Letters : \E asked \in BOOLEAN : S!SendSettles(m, asked)
         \/ S!ToolScan \/ S!ToolCommit \/ S!Settle \/ S!Crash \/ S!Walk
         \/ \E i \in DOMAIN sentRows : S!Take(i)
  PROVE  SentInv'
  <1> USE DEF SentInv
  <1>1. CASE \E m \in Letters : \E asked \in BOOLEAN : S!SendSettles(m, asked)
    <2>1. PICK m \in Letters, asked \in BOOLEAN : S!SendSettles(m, asked)
      BY <1>1
    <2>0. S!Row(m) \in SentRow
      BY DEF SentRow, S!Row
    <2>2. sentRows' \in Seq(SentRow) /\ (sentRows' = sentRows \/ S!_wants_sent_copy)
      BY <2>0, <2>1 DEF S!SendSettles, SentTyped
    <2>3. files /\ save_sent = "no" => ~S!_wants_sent_copy
      BY DEF S!_wants_sent_copy
    <2>4. /\ agent = S!Idle /\ agent' = agent
          /\ outbound[m] = "queued" /\ outbound' = [outbound EXCEPT ![m] = "sent"]
          /\ owed' = IF files THEN owed \cup {m} ELSE owed
          /\ UNCHANGED <<files, sentCopies, save_sent, mime, tool>>
      BY <2>1 DEF S!SendSettles, S!Settled
    <2> QED
      BY <2>2, <2>3, <2>4 DEF SentTyped, ServerFilesAlone, AgentFilesAlone, S!OneCopy, S!Idle
  <1>2. CASE S!ToolScan
    <2>1. /\ UNCHANGED <<files, owed, sentCopies, save_sent, outbound, mime, sentRows, agent>>
          /\ save_sent # "no"
      BY <1>2 DEF S!ToolScan, S!server, S!db
    <2>2. tool'.queue \subseteq Letters
      BY <1>2 DEF S!ToolScan, SentTyped
    <2> QED
      BY <2>1, <2>2 DEF SentTyped, ServerFilesAlone, AgentFilesAlone, S!OneCopy
  <1>3. CASE S!ToolCommit
    <2>1. /\ UNCHANGED <<files, owed, sentCopies, save_sent, outbound, mime, agent>>
          /\ tool' = S!NoTool /\ tool.open
      BY <1>3 DEF S!ToolCommit, S!server
    <2> QED
      BY <1>3, <2>1, ToolRows DEF SentTyped, ServerFilesAlone, AgentFilesAlone, S!OneCopy, S!NoTool
  <1>4. CASE S!Settle
    <2>1. /\ UNCHANGED <<files, owed, sentCopies, save_sent, outbound, mime, tool>> /\ agent' = S!Idle
          /\ sentRows' = [sentRows EXCEPT ![agent.row].status = S!Outcome(agent.pc)]
          /\ agent.row \in DOMAIN sentRows
      BY <1>4 DEF S!Settle, S!server, SentTyped
    <2>2. sentRows' \in Seq(SentRow)
      <3>1. sentRows[agent.row] \in SentRow
        BY <2>1 DEF SentTyped
      <3>2. [sentRows[agent.row] EXCEPT !.status = S!Outcome(agent.pc)] \in SentRow
        BY <3>1 DEF SentRow, S!Outcome
      <3> QED
        BY <2>1, <3>2 DEF SentTyped
    <2> QED
      BY <2>1, <2>2 DEF SentTyped, ServerFilesAlone, AgentFilesAlone, S!OneCopy, S!Idle
  <1>5. CASE S!Crash
    BY <1>5 DEF S!Crash, S!server, S!db, S!Idle, SentTyped, ServerFilesAlone, AgentFilesAlone, S!OneCopy
  <1>6. CASE S!Walk
    BY <1>6 DEF S!Walk, S!server, SentTyped, ServerFilesAlone, AgentFilesAlone, S!OneCopy
  <1>7. CASE \E i \in DOMAIN sentRows : S!Take(i)
    BY <1>7 DEF S!Take, S!server, S!db, SentTyped, ServerFilesAlone, AgentFilesAlone, S!OneCopy
  <1> QED
    BY <1>1, <1>2, <1>3, <1>4, <1>5, <1>6, <1>7

\* The steps of filing one row: the setting and the server's habit are judged first,
\* the folder is searched, and only what is not there is appended.
LEMMA FilingKeeps ==
  ASSUME SentInv, \/ S!Decide \/ S!Search \/ S!Fail
                  \/ \E answered \in BOOLEAN : S!AppendCopy(answered)
  PROVE  SentInv'
  <1> USE DEF SentInv
  <1>0. agent.pc # "idle" => agent.row \in DOMAIN sentRows /\ sentRows[agent.row].mail \in Letters
    <2>1. \A i \in DOMAIN sentRows : sentRows[i] \in SentRow
      BY DEF SentTyped
    <2> QED
      BY <2>1 DEF SentTyped, SentRow
  <1>1. CASE S!Decide
    <2>1. /\ UNCHANGED <<files, owed, sentCopies, save_sent, outbound, mime, sentRows, tool>>
          /\ agent.pc = "decide" /\ agent' = [agent EXCEPT !.pc = agent'.pc]
          /\ agent'.pc \in {"done", "search", "failed"}
      BY <1>1 DEF S!Decide, S!server, S!db, SentTyped
    <2>2. files => agent'.pc = "done"
      <3>1. files => save_sent = "unset"
        BY <1>0, <2>1 DEF SentTyped, ServerFilesAlone
      <3> QED
        BY <1>1, <2>1, <3>1 DEF S!Decide, S!NothingToFile, S!_server_files_sent, SentTyped
    <2> QED
      BY <2>1, <2>2 DEF SentTyped, ServerFilesAlone, AgentFilesAlone, S!OneCopy
  <1>2. CASE S!Search
    <2>1. UNCHANGED <<files, owed, sentCopies, save_sent, outbound, mime, sentRows, tool>> /\ ~files
      BY <1>2 DEF S!Search, S!server, S!db, ServerFilesAlone
    <2>2. agent'.pc = "append" => sentCopies[sentRows[agent.row].mail] = 0
      BY <1>0, <1>2 DEF S!Search, S!_copy_landed, SentTyped
    <2>3. agent' = [row |-> agent'.row, pc |-> agent'.pc] /\ agent'.row = agent.row /\ agent.pc # "idle"
      BY <1>2 DEF S!Search, SentTyped
    <2> QED
      BY <2>1, <2>2, <2>3 DEF SentTyped, ServerFilesAlone, AgentFilesAlone, S!OneCopy
  <1>3. CASE S!Fail
    BY <1>3 DEF S!Fail, S!server, S!db, SentTyped, ServerFilesAlone, AgentFilesAlone, S!OneCopy
  <1>4. CASE \E answered \in BOOLEAN : S!AppendCopy(answered)
    <2> DEFINE m == sentRows[agent.row].mail
    <2>1. /\ UNCHANGED <<files, owed, save_sent, outbound, mime, sentRows, tool>> /\ ~files
          /\ m \in Letters /\ sentCopies[m] = 0 /\ sentCopies' = [sentCopies EXCEPT ![m] = @ + 1]
      BY <1>0, <1>4 DEF S!AppendCopy, S!db, ServerFilesAlone, AgentFilesAlone
    <2>2. /\ agent' = [row |-> agent'.row, pc |-> agent'.pc] /\ agent'.row = agent.row
          /\ agent.pc # "idle" /\ agent'.pc \in {"done", "failed"}
      BY <1>4 DEF S!AppendCopy, SentTyped
    <2> QED
      BY <2>1, <2>2 DEF SentTyped, ServerFilesAlone, AgentFilesAlone, S!OneCopy
  <1> QED
    BY <1>1, <1>2, <1>3, <1>4

\* The server files what it relayed, the folder is made, the setting changes.
LEMMA ElsewhereKeeps ==
  ASSUME SentInv, \/ (\E m \in Letters : S!ServerFiles(m)) \/ S!MakeFolder
                  \/ \E v \in {"unset", "yes", "no"} : S!Configure(v)
  PROVE  SentInv'
  <1> USE DEF SentInv
  <1>1. CASE \E m \in Letters : S!ServerFiles(m)
    <2>1. PICK m \in Letters : S!ServerFiles(m)
      BY <1>1
    <2>2. /\ UNCHANGED <<files, save_sent, outbound, mime, sentRows, tool, agent>> /\ files
          /\ sentCopies[m] = 0 /\ sentCopies' = [sentCopies EXCEPT ![m] = @ + 1]
          /\ m \in owed /\ owed' = owed \ {m}
      BY <2>1 DEF S!ServerFiles, S!db, SentTyped, ServerFilesAlone, AgentFilesAlone
    <2> QED
      BY <2>2 DEF SentTyped, ServerFilesAlone, AgentFilesAlone, S!OneCopy
  <1>2. CASE S!MakeFolder
    BY <1>2 DEF S!MakeFolder, S!db, SentTyped, ServerFilesAlone, AgentFilesAlone, S!OneCopy
  <1>3. CASE \E v \in {"unset", "yes", "no"} : S!Configure(v)
    BY <1>3 DEF S!Configure, S!server, S!db, SentTyped, ServerFilesAlone, AgentFilesAlone, S!OneCopy
  <1> QED
    BY <1>1, <1>2, <1>3

\* Every step leaves a mail in Sent once.
LEMMA SentInvNext == IsFiniteSet(Letters) /\ SentInv /\ [S!Next]_S!vars => SentInv'
  <1> SUFFICES ASSUME IsFiniteSet(Letters), SentInv, [S!Next]_S!vars PROVE SentInv'
    OBVIOUS
  <1>1. CASE UNCHANGED S!vars
    BY <1>1 DEF S!vars, S!server, S!db, SentInv, SentTyped, ServerFilesAlone, AgentFilesAlone, S!OneCopy
  <1>2. CASE S!Next
    BY <1>2, RowsKeep, FilingKeeps, ElsewhereKeeps DEF S!Next, S!AgentStep
  <1> QED
    BY <1>1, <1>2

\* A message is in Sent once, however many there are, and however often appends lose
\* their answer, the agent dies, the setting changes and the tool runs (apply_save_sent).
THEOREM FiledOnce == ASSUME IsFiniteSet(Letters) PROVE MailboxSpec => []OneCopy
  <1> DEFINE Inv == part = "sent" => SentInv
  <1>1. MailboxInit => Inv
    BY SentInvInit DEF MailboxInit
  <1>2. Inv /\ [MailboxNext]_mailboxVars => Inv'
    BY PartSteps, SentInvNext
  <1>3. Inv => OneCopy
    BY DEF SentInv, OneCopy
  <1> QED
    BY <1>1, <1>2, <1>3, PTL DEF MailboxSpec

----------------------------------------------------------------------------
\* A set of numbers has a least.
LEMMA Least ==
  ASSUME NEW X \in SUBSET Nat, X # {}
  PROVE  \E x \in X : \A y \in X : x <= y
  <1>1. PICK x \in X : \A y \in X : ~ (<<y, x>> \in OpToRel(<, Nat))
    BY WFMin, NatLessThanWellFounded
  <1>2. \A y \in X : ~(y < x)
    BY <1>1 DEF OpToRel
  <1> QED
    BY <1>2

\* Induction, of a set instead of a predicate.
LEMMA Induct ==
  ASSUME NEW X, 0 \in X, \A n \in Nat : n \in X => n + 1 \in X
  PROVE  Nat \subseteq X
  <1> SUFFICES ASSUME Nat \ X # {} PROVE FALSE
    OBVIOUS
  <1>1. PICK x \in Nat \ X : \A y \in Nat \ X : x <= y
    BY Least
  <1>2. x - 1 \in Nat /\ x - 1 \in X
    BY <1>1
  <1> QED
    BY <1>1, <1>2

\* Min is a member, and no greater than another.
LEMMA MinOf ==
  ASSUME NEW X \in SUBSET Nat, X # {}
  PROVE  T!Min(X) \in X
  BY Least DEF T!Min

\* Conversations.  Message-IDs are numbers, and none is the key of another message's bytes.
ThreadConstants ==
    /\ N \in Nat /\ \A m \in 1..N : Id(m) \in Nat \ {0}
    /\ \A m, n \in 1..N : Id(m) # 100 + n

Tree == [1..N -> Nat]

\* What assign_thread may come to: to merge what it found, to follow a subject, or to
\* begin a conversation.
Merges(t, m, u, found, keep) ==
    /\ keep \in found /\ u[m] = keep
    /\ \A n \in 1..N : n # m => u[n] = IF t[n] \in found THEN keep ELSE t[n]

Follows(t, m, u) ==
    \E n \in T!In(t) : /\ Subject(n) = Subject(m) /\ Subject(m) # "" /\ u = [t EXCEPT ![m] = t[n]]

Begins(t, m, sh, u) == u = [t EXCEPT ![m] = IF sh THEN T!Key(m) ELSE Id(m)]

Assigns(t, m, sh, u, found) ==
    /\ found = T!parents(t, m) \cup T!children(t, m, sh) /\ u \in Tree
    /\ IF found # {} THEN \E keep \in found : Merges(t, m, u, found, keep)
       ELSE Follows(t, m, u) \/ Begins(t, m, sh, u)

\* What is found are conversations of stored mail.
LEMMA FoundStored ==
  ASSUME NEW t, NEW m, NEW sh, NEW th \in T!parents(t, m) \cup T!children(t, m, sh)
  PROVE  \E n \in T!In(t) : th = t[n]
  BY DEF T!parents, T!children

\* assign_thread is one of them.
LEMMA Assigned ==
  ASSUME ThreadConstants, NEW t \in Tree, NEW m \in 1..N, NEW sh \in BOOLEAN
  PROVE  \E found : Assigns(t, m, sh, T!assign_thread(t, m, sh), found)
  <1> DEFINE found == T!parents(t, m) \cup T!children(t, m, sh)
             u == T!assign_thread(t, m, sh)
  <1>0. \A n \in T!In(t) : n \in 1..N /\ t[n] \in Nat
    BY DEF T!In, T!Msg, Tree
  <1>1. CASE found # {}
    <2>1. found \subseteq Nat
      BY <1>0, FoundStored
    <2>2. T!Min(found) \in found
      BY <1>1, <2>1, MinOf
    <2> DEFINE keep == T!Min(found)
    <2>3. u = [T!merge(t, keep, found) EXCEPT ![m] = keep]
      BY <1>1 DEF T!assign_thread
    <2>4. T!merge(t, keep, found) = [n \in 1..N |-> IF t[n] \in found THEN keep ELSE t[n]]
      BY DEF T!merge, T!Msg
    <2> HIDE DEF found, keep, u
    <2>5. u \in Tree /\ Merges(t, m, u, found, keep)
      BY <2>1, <2>2, <2>3, <2>4 DEF Tree, Merges, keep
    <2> QED
      BY <1>1, <2>2, <2>5 DEF Assigns, found, keep, u
  <1>2. CASE found = {} /\ Subject(m) # "" /\ IsReply(m) /\ T!near(t, m) # {}
    <2> DEFINE near == T!near(t, m)
               r == CHOOSE r \in near : \A x \in near : r[1] <= x[1]
    <2>1. u = [t EXCEPT ![m] = r[2]]
      BY <1>2 DEF T!assign_thread
    <2>2. \A x \in near : /\ x[1] \in Nat
                          /\ \E n \in T!In(t) : Subject(n) = Subject(m) /\ x[2] = t[n]
      <3> TAKE x \in near
      <3> DEFINE same(th) == {n \in T!In(t) : t[n] = th /\ Subject(n) = Subject(m)}
      <3>1. PICK n \in T!In(t) : Subject(n) = Subject(m) /\ x = <<T!Min(same(t[n])), t[n]>>
        BY DEF T!near, T!subject_roots
      <3>2. same(t[n]) \subseteq Nat /\ n \in same(t[n])
        BY <1>0, <3>1 DEF ThreadConstants
      <3>3. T!Min(same(t[n])) \in Nat
        <4> HIDE DEF same
        <4> QED
          BY <3>2, MinOf
      <3> QED
        BY <3>1, <3>3
    <2>3. r \in near
      <3> DEFINE firsts == {x[1] : x \in near}
      <3>1. firsts \subseteq Nat /\ firsts # {}
        BY <1>2, <2>2
      <3>2. PICK f \in firsts : \A y \in firsts : f <= y
        BY <3>1, Least
      <3>3. \E x \in near : \A y \in near : x[1] <= y[1]
        BY <3>2
      <3> HIDE DEF near
      <3> QED
        BY <3>3
    <2> HIDE DEF r, near, u
    <2>4. PICK n \in T!In(t) : Subject(n) = Subject(m) /\ r[2] = t[n]
      BY <2>2, <2>3
    <2>5. u \in Tree /\ Follows(t, m, u)
      BY <1>0, <1>2, <2>1, <2>4 DEF Tree, Follows
    <2> QED
      BY <1>2, <2>5 DEF Assigns, u
  <1>3. CASE found = {} /\ ~(Subject(m) # "" /\ IsReply(m) /\ T!near(t, m) # {})
    <2>1. Begins(t, m, sh, u)
      BY <1>3 DEF T!assign_thread, Begins
    <2>2. u \in Tree
      BY <2>1 DEF Begins, Tree, T!Key, ThreadConstants
    <2> QED
      BY <1>3, <2>1, <2>2 DEF Assigns
  <1> QED
    BY <1>1, <1>2, <1>3

\* Who was in a conversation stays in one, and the message is in one.
LEMMA AssignedIn ==
  ASSUME ThreadConstants, NEW t \in Tree, NEW m \in 1..N, NEW sh, NEW u, NEW found,
         Assigns(t, m, sh, u, found)
  PROVE  T!In(u) = T!In(t) \cup {m}
  <1>1. \A th \in found : th \in Nat \ {0}
    <2> TAKE th \in found
    <2>1. PICK n \in T!In(t) : th = t[n]
      BY FoundStored DEF Assigns
    <2> QED
      BY <2>1 DEF T!In, T!Msg, Tree
  <1>2. CASE found # {}
    BY <1>1, <1>2 DEF Assigns, Merges, T!In, T!Msg, Tree
  <1>3. CASE found = {} /\ Follows(t, m, u)
    BY <1>3 DEF Follows, T!In, T!Msg, Tree
  <1>4. CASE found = {} /\ Begins(t, m, sh, u)
    BY <1>4 DEF Begins, T!In, T!Msg, Tree, T!Key, ThreadConstants
  <1> QED
    BY <1>2, <1>3, <1>4 DEF Assigns

\* A message and the message it names, under an id only one message wears.
WholeOf(t) ==
    \A x, y \in T!In(t) : Id(y) \in Refs(x) /\ T!Alone(y) => t[x] = t[y]

LEMMA ThreadCounts == ASSUME NEW X PROVE T!Cardinality(X) = Cardinality(X)
  BY DEF T!Cardinality, Cardinality

\* Who is named alone is found, and so is who names a message that is alone.
LEMMA AloneFound ==
  ASSUME NEW t, NEW m, NEW y \in T!In(t), Id(y) \in Refs(m), T!Alone(y)
  PROVE  t[y] \in T!parents(t, m)
  <1> DEFINE th == {t[n] : n \in {x \in T!In(t) : Id(x) = Id(y)}}
  <1>1. th = {t[y]}
    BY DEF T!Alone, T!In, T!Msg
  <1>2. T!Cardinality(th) = 1
    BY <1>1, FS_Singleton, ThreadCounts
  <1>3. th \in {{t[n] : n \in {x \in T!In(t) : Id(x) = i}} : i \in Refs(m)}
    OBVIOUS
  <1> HIDE DEF th
  <1> QED
    BY <1>1, <1>2, <1>3 DEF T!parents

\* Putting a message in its conversation leaves what belongs together together.
LEMMA WholeAssigned ==
  ASSUME ThreadConstants, NEW t \in Tree, NEW m \in 1..N, t[m] = 0, NEW sh, sh => ~T!Alone(m),
         NEW u, NEW found, Assigns(t, m, sh, u, found), WholeOf(t)
  PROVE  WholeOf(u)
  <1>1. \A y \in T!In(t) : Id(y) \in Refs(m) /\ T!Alone(y) => t[y] \in found
    BY AloneFound DEF Assigns
  <1>2. \A x \in T!In(t) : Id(m) \in Refs(x) /\ T!Alone(m) => t[x] \in found
    BY DEF Assigns, T!children
  <1>3. m \notin T!In(t) /\ T!In(u) = T!In(t) \cup {m} /\ T!In(t) \subseteq 1..N
    BY AssignedIn DEF T!In, T!Msg
  <1> SUFFICES ASSUME NEW x \in T!In(u), NEW y \in T!In(u), Id(y) \in Refs(x), T!Alone(y), x # y
               PROVE  u[x] = u[y]
    BY DEF WholeOf
  <1>4. x # m /\ y # m => t[x] = t[y]
    BY <1>3 DEF WholeOf
  <1>5. CASE found # {}
    <2>1. PICK keep \in found : Merges(t, m, u, found, keep)
      BY <1>5 DEF Assigns
    <2> QED
      BY <1>1, <1>2, <1>3, <1>4, <2>1 DEF Merges
  <1>6. CASE found = {}
    <2>1. \A n \in T!In(t) : u[n] = t[n]
      BY <1>3, <1>6 DEF Assigns, Follows, Begins, Tree
    <2>2. x # m /\ y # m
      BY <1>1, <1>2, <1>3, <1>6
    <2> QED
      BY <1>3, <1>4, <2>1, <2>2
  <1> QED
    BY <1>5, <1>6

ThreadInv ==
    /\ thread \in Tree /\ WholeOf(thread)
    /\ shared \subseteq {m \in 1..N : ~T!Alone(m)}

\* The mailbox is empty.
LEMMA ThreadInvInit == T!Init => ThreadInv
  BY DEF T!Init, ThreadInv, Tree, WholeOf, T!In, T!Msg

\* Mail is stored.
LEMMA IngestKeeps ==
  ASSUME ThreadConstants, ThreadInv, NEW m \in 1..N, T!ingest_raw(m)
  PROVE  ThreadInv'
  <1>1. T!id_taken(m) \in BOOLEAN /\ thread[m] = 0 /\ (T!id_taken(m) => ~T!Alone(m))
    BY DEF T!ingest_raw, T!id_taken, T!Stored, T!Alone, T!Msg
  <1>2. PICK found : Assigns(thread, m, T!id_taken(m), thread', found)
    BY <1>1, Assigned DEF T!ingest_raw, ThreadInv
  <1>3. WholeOf(thread')
    BY <1>1, <1>2, WholeAssigned DEF ThreadInv
  <1>4. shared' \subseteq {n \in 1..N : ~T!Alone(n)}
    BY <1>1 DEF T!ingest_raw, ThreadInv
  <1> QED
    BY <1>2, <1>3, <1>4 DEF Assigns, ThreadInv

\* The mail up to k, threaded anew.
IsReplay(f, n) ==
    f = [k \in 0..n |-> IF k = 0 THEN [m \in 1..N |-> 0]
                        ELSE IF k \in T!Stored THEN T!assign_thread(f[k-1], k, k \in shared)
                        ELSE f[k-1]]

\* The replay is what it is defined to be.
LEMMA ReplayDefined ==
  ASSUME ThreadConstants, T!rethread_account
  PROVE  \E f : IsReplay(f, N) /\ thread' = f[N]
  <1> DEFINE X == {n \in Nat : \E f : IsReplay(f, n)}
  <1>1. 0 \in X
    <2> DEFINE f == [k \in 0..0 |-> [m \in 1..N |-> 0]]
    <2>1. IsReplay(f, 0)
      BY DEF IsReplay
    <2> QED
      BY <2>1
  <1>2. ASSUME NEW n \in Nat, n \in X PROVE n + 1 \in X
    <2>1. PICK f : IsReplay(f, n)
      BY <1>2
    <2> DEFINE h == [k \in 0..(n+1) |-> IF k <= n THEN f[k]
                       ELSE IF k \in T!Stored THEN T!assign_thread(f[n], k, k \in shared) ELSE f[n]]
    <2>2. \A k \in 0..n : f[k] = IF k = 0 THEN [m \in 1..N |-> 0]
                        ELSE IF k \in T!Stored THEN T!assign_thread(f[k-1], k, k \in shared) ELSE f[k-1]
      BY <2>1 DEF IsReplay
    <2>3. \A k \in 0..(n+1) : h[k] = IF k = 0 THEN [m \in 1..N |-> 0]
                        ELSE IF k \in T!Stored THEN T!assign_thread(h[k-1], k, k \in shared) ELSE h[k-1]
      <3> TAKE k \in 0..(n+1)
      <3>1. CASE k = 0
        <4>1. f[0] = [m \in 1..N |-> 0]
          BY <2>1 DEF IsReplay
        <4>2. h[k] = f[0]
          BY <3>1
        <4> HIDE DEF h
        <4> QED
          BY <3>1, <4>1, <4>2
      <3>2. CASE k # 0
        <4>1. k - 1 \in 0..n /\ h[k-1] = f[k-1]
          BY <3>2
        <4>2. CASE k = n + 1
          <5>1. f[n] = h[k-1]
            BY <4>1, <4>2
          <5>2. h[k] = IF k \in T!Stored THEN T!assign_thread(f[n], k, k \in shared) ELSE f[n]
            BY <4>2
          <5> HIDE DEF h
          <5> QED
            BY <3>2, <5>1, <5>2
        <4>3. CASE k # n + 1
          <5>1. k \in 0..n /\ h[k] = f[k]
            BY <4>3
          <5>2. f[k] = IF k \in T!Stored THEN T!assign_thread(f[k-1], k, k \in shared) ELSE f[k-1]
            BY <2>2, <3>2, <5>1
          <5> HIDE DEF h
          <5> QED
            BY <3>2, <4>1, <5>1, <5>2
        <4> QED
          BY <4>2, <4>3
      <3> QED
        BY <3>1, <3>2
    <2>4. IsReplay(h, n + 1)
      BY <2>3 DEF IsReplay
    <2> QED
      BY <2>4
  <1>3. N \in X
    <2> HIDE DEF X
    <2> QED
      BY <1>1, <1>2, Induct DEF ThreadConstants
  <1> DEFINE g == CHOOSE f : IsReplay(f, N)
  <1>4. IsReplay(g, N)
    BY <1>3
  <1>5. thread' = g[N]
    BY Zenon DEF T!rethread_account, IsReplay, T!Msg
  <1> QED
    BY <1>4, <1>5

\* Threading everything anew keeps together what belongs together, one message at a time.
LEMMA ReplayKeeps ==
  ASSUME ThreadConstants, ThreadInv, T!Rethread
  PROVE  ThreadInv'
  <1>1. PICK f : IsReplay(f, N) /\ thread' = f[N]
    BY ReplayDefined DEF T!Rethread
  <1> DEFINE Good(k) == /\ f[k] \in Tree /\ WholeOf(f[k])
                        /\ \A n \in 1..N : n > k => f[k][n] = 0
             X == {k \in Nat : k <= N => Good(k)}
  <1>2. 0 \in X
    <2>1. f[0] = [m \in 1..N |-> 0]
      BY <1>1 DEF IsReplay, ThreadConstants
    <2>2. T!In(f[0]) = {}
      BY <2>1 DEF T!In, T!Msg
    <2>3. f[0] \in Tree /\ \A n \in 1..N : f[0][n] = 0
      BY <2>1 DEF Tree
    <2>4. WholeOf(f[0])
      BY <2>2 DEF WholeOf
    <2> QED
      BY <2>3, <2>4
  <1>3. ASSUME NEW k \in Nat, k \in X PROVE k + 1 \in X
    <2> SUFFICES ASSUME k + 1 <= N PROVE Good(k + 1)
      OBVIOUS
    <2>1. Good(k) /\ k + 1 \in 1..N /\ f[k][k+1] = 0
      BY <1>3 DEF ThreadConstants
    <2>2. f[k+1] = IF k + 1 \in T!Stored THEN T!assign_thread(f[k], k + 1, k + 1 \in shared) ELSE f[k]
      <3>1. k + 1 \in 0..N /\ k + 1 # 0 /\ (k + 1) - 1 = k
        BY <2>1
      <3> QED
        BY <1>1, <3>1 DEF IsReplay
    <2>3. CASE k + 1 \in T!Stored
      <3> DEFINE c == k + 1
                 sh == c \in shared
      <3>0. sh \in BOOLEAN /\ c \in 1..N /\ f[k] \in Tree /\ f[c] = T!assign_thread(f[k], c, sh)
        BY <2>1, <2>2, <2>3
      <3> HIDE DEF c, sh
      <3>1. PICK found : Assigns(f[k], c, sh, f[c], found)
        BY <3>0, Assigned
      <3>2. sh => ~T!Alone(c)
        BY DEF ThreadInv, sh
      <3>3. WholeOf(f[c]) /\ f[c] \in Tree
        <4>1. f[k][c] = 0 /\ WholeOf(f[k])
          BY <2>1 DEF c
        <4> QED
          BY <3>0, <3>1, <3>2, <4>1, WholeAssigned DEF Assigns
      <3>4. T!In(f[c]) = T!In(f[k]) \cup {c}
        BY <3>0, <3>1, AssignedIn
      <3> USE DEF c
      <3>5. ASSUME NEW n \in 1..N, n > k + 1 PROVE f[k+1][n] = 0
        <4>1. n > k /\ f[k][n] = 0
          BY <2>1, <3>5 DEF ThreadConstants
        <4> QED
          BY <3>4, <3>5, <4>1 DEF T!In, T!Msg
      <3> QED
        BY <3>3, <3>5
    <2>4. CASE k + 1 \notin T!Stored
      BY <2>1, <2>2, <2>4 DEF ThreadConstants
    <2> QED
      BY <2>3, <2>4
  <1>4. N \in X
    <2> HIDE DEF X
    <2> QED
      BY <1>2, <1>3, Induct DEF ThreadConstants
  <1>5. thread' \in Tree /\ WholeOf(thread')
    BY <1>1, <1>4 DEF ThreadConstants
  <1> QED
    BY <1>5 DEF T!Rethread, ThreadInv

\* Every step keeps it.
LEMMA ThreadInvNext == ThreadConstants /\ ThreadInv /\ [T!Next]_T!vars => ThreadInv'
  <1> SUFFICES ASSUME ThreadConstants, ThreadInv, [T!Next]_T!vars PROVE ThreadInv'
    OBVIOUS
  <1>1. CASE UNCHANGED <<thread, shared>>
    BY <1>1 DEF ThreadInv
  <1>2. CASE \E m \in T!Msg : T!Delete(m)
    <2>1. PICK m \in 1..N : T!Delete(m)
      BY <1>2 DEF T!Msg
    <2>2. /\ thread' \in Tree /\ T!In(thread') = T!In(thread) \ {m}
          /\ \A n \in T!In(thread') : thread'[n] = thread[n]
      BY <2>1 DEF T!Delete, ThreadInv, Tree, T!In, T!Msg
    <2> QED
      BY <2>1, <2>2 DEF T!Delete, ThreadInv, WholeOf
  <1>3. CASE \/ T!ReadDue \/ T!Relist \/ UNCHANGED T!vars
             \/ \E m \in T!Msg : \/ T!set_reminder(m) \/ \E restore \in BOOLEAN : T!ReadClear(m, restore)
                                \/ \E b \in {"inbox", "archive", "other"} : T!Touch(m, b)
             \/ \E i \in T!Ids : T!ComesDue(i) \/ T!FireDue(i) \/ T!CommitClear(i)
    BY <1>1, <1>3 DEF T!ReadDue, T!Relist, T!vars, T!mail, T!set_reminder, T!ReadClear, T!Touch,
                      T!ComesDue, T!FireDue, T!CommitClear
  <1> QED
    BY <1>2, <1>3, IngestKeeps, ReplayKeeps DEF T!Next, T!Msg

\* In whatever order mail arrives, is threaded anew and is deleted, a message and the
\* message it names, under an id only one message wears, are in one conversation
\* (assign_thread, _merge_threads, rethread_account).
THEOREM ConversationsWhole ==
  ASSUME ThreadConstants PROVE MailboxSpec => [](part = "threads" => T!Whole)
  <1> DEFINE Inv == part = "threads" => ThreadInv
  <1>1. MailboxInit => Inv
    BY ThreadInvInit DEF MailboxInit
  <1>2. Inv /\ [MailboxNext]_mailboxVars => Inv'
    BY PartSteps, ThreadInvNext
  <1>3. Inv => (part = "threads" => T!Whole)
    BY DEF ThreadInv, WholeOf, T!Whole, T!Stored, T!In
  <1> QED
    BY <1>1, <1>2, <1>3, PTL DEF MailboxSpec

----------------------------------------------------------------------------
\* What ties reach, where a reference to a worn id is to w, is a class of messages: it
\* has its first, is closed, and is least.
Joins(x, y, w) == T!Tied(x, y, w) \/ T!Tied(y, x, w)
Grown(C, w)    == C \cup {n \in 1..N : \E x \in C : Joins(x, n, w)}
Closed(C, w)   == \A x \in C : \A n \in 1..N : Joins(x, n, w) => n \in C

IsSteps(f, m, w, n) == f = [k \in 0..n |-> IF k = 0 THEN {m} ELSE Grown(f[k-1], w)]

\* The steps are what they are defined to be.
LEMMA StepsDefined ==
  ASSUME ThreadConstants, NEW m, NEW w
  PROVE  \E f : IsSteps(f, m, w, N) /\ T!Reach(m, w) = f[N]
  <1> DEFINE X == {n \in Nat : \E f : IsSteps(f, m, w, n)}
  <1>1. 0 \in X
    <2> DEFINE f == [k \in 0..0 |-> {m}]
    <2>1. IsSteps(f, m, w, 0)
      BY DEF IsSteps
    <2> QED
      BY <2>1
  <1>2. ASSUME NEW n \in Nat, n \in X PROVE n + 1 \in X
    <2>1. PICK f : IsSteps(f, m, w, n)
      BY <1>2
    <2> DEFINE h == [k \in 0..(n+1) |-> IF k <= n THEN f[k] ELSE Grown(f[n], w)]
    <2>2. f = [k \in 0..n |-> IF k = 0 THEN {m} ELSE Grown(f[k-1], w)]
      BY <2>1 DEF IsSteps
    <2>3. \A k \in 0..(n+1) : h[k] = IF k = 0 THEN {m} ELSE Grown(h[k-1], w)
      <3> TAKE k \in 0..(n+1)
      <3>1. CASE k = 0
        <4>1. f[0] = {m} /\ h[0] = f[0]
          BY <2>2
        <4> QED
          BY <3>1, <4>1
      <3>2. CASE k # 0
        <4>1. k - 1 \in 0..n /\ h[k-1] = f[k-1]
          BY <3>2
        <4>2. CASE k = n + 1
          <5>1. h[k] = Grown(f[n], w) /\ f[n] = h[k-1]
            BY <4>1, <4>2
          <5> HIDE DEF h
          <5> QED
            BY <3>2, <5>1
        <4>3. CASE k # n + 1
          <5>1. k \in 0..n /\ h[k] = f[k]
            BY <4>3
          <5>2. f[k] = Grown(f[k-1], w)
            BY <2>2, <3>2, <5>1
          <5> HIDE DEF h
          <5> QED
            BY <3>2, <4>1, <5>1, <5>2
        <4> QED
          BY <4>2, <4>3
      <3> QED
        BY <3>1, <3>2
    <2>4. IsSteps(h, m, w, n + 1)
      BY <2>3 DEF IsSteps
    <2> QED
      BY <2>4
  <1>3. N \in X
    <2> HIDE DEF X
    <2> QED
      BY <1>1, <1>2, Induct DEF ThreadConstants
  <1> DEFINE g == CHOOSE f : IsSteps(f, m, w, N)
  <1>4. IsSteps(g, m, w, N)
    BY <1>3
  <1>5. T!Reach(m, w) = g[N]
    BY Zenon DEF T!Reach, IsSteps, Grown, Joins, T!Msg
  <1> QED
    BY <1>4, <1>5

\* Each step adds a message, or there is no more to add: N steps are enough.
LEMMA ReachCloses ==
  ASSUME ThreadConstants, NEW m \in 1..N, NEW w
  PROVE  m \in T!Reach(m, w) /\ T!Reach(m, w) \subseteq 1..N /\ Closed(T!Reach(m, w), w)
  <1>1. PICK f : IsSteps(f, m, w, N) /\ T!Reach(m, w) = f[N]
    BY StepsDefined
  <1>2. f[0] = {m} /\ \A k \in 0..N : k # 0 => f[k] = Grown(f[k-1], w)
    <2>1. f = [k \in 0..N |-> IF k = 0 THEN {m} ELSE Grown(f[k-1], w)]
      BY <1>1 DEF IsSteps
    <2>2. 0 \in 0..N
      BY DEF ThreadConstants
    <2>3. f[0] = {m}
      BY <2>1, <2>2
    <2>4. ASSUME NEW k \in 0..N, k # 0 PROVE f[k] = Grown(f[k-1], w)
      BY <2>1, <2>4
    <2> QED
      BY <2>3, <2>4
  <1>3. IsFiniteSet(1..N) /\ Cardinality(1..N) = N
    BY FS_Interval DEF ThreadConstants
  <1> DEFINE Good(C, k) == /\ m \in C /\ C \subseteq 1..N
                           /\ Closed(C, w) \/ Cardinality(C) >= k + 1
             X == {k \in Nat : k <= N => Good(f[k], k)}
  <1>4. 0 \in X
    <2>1. Cardinality({m}) = 1
      BY FS_Singleton
    <2> QED
      BY <1>2, <2>1
  <1>5. ASSUME NEW k \in Nat, k \in X PROVE k + 1 \in X
    <2> SUFFICES ASSUME k + 1 <= N PROVE Good(f[k+1], k + 1)
      OBVIOUS
    <2>1. Good(f[k], k)
      BY <1>5 DEF ThreadConstants
    <2>2. f[k+1] = Grown(f[k], w)
      <3>1. k + 1 \in 0..N /\ k + 1 # 0 /\ (k + 1) - 1 = k
        BY DEF ThreadConstants
      <3> QED
        BY <1>2, <3>1
    <2>3. m \in f[k+1] /\ f[k+1] \subseteq 1..N /\ f[k] \subseteq f[k+1]
      BY <2>1, <2>2 DEF Grown
    <2>4. CASE f[k+1] = f[k]
      <3>1. Closed(f[k+1], w)
        BY <2>2, <2>4 DEF Grown, Closed
      <3> QED
        BY <2>3, <3>1
    <2>5. CASE f[k+1] # f[k]
      <3>1. ~Closed(f[k], w)
        BY <2>1, <2>2, <2>5 DEF Grown, Closed
      <3>2. Cardinality(f[k]) >= k + 1
        BY <2>1, <3>1
      <3>3. /\ IsFiniteSet(f[k+1]) /\ IsFiniteSet(f[k])
            /\ Cardinality(f[k]) <= Cardinality(f[k+1]) /\ Cardinality(f[k]) # Cardinality(f[k+1])
        BY <1>3, <2>3, <2>5, FS_Subset
      <3>4. Cardinality(f[k]) \in Nat /\ Cardinality(f[k+1]) \in Nat
        BY <3>3, FS_CardinalityType
      <3> QED
        BY <2>3, <3>2, <3>3, <3>4
    <2> QED
      BY <2>4, <2>5
  <1>6. N \in X
    <2> HIDE DEF X
    <2> QED
      BY <1>4, <1>5, Induct DEF ThreadConstants
  <1>7. Good(f[N], N)
    BY <1>6 DEF ThreadConstants
  <1>8. IsFiniteSet(f[N]) /\ Cardinality(f[N]) <= N /\ Cardinality(f[N]) \in Nat
    BY <1>3, <1>7, FS_Subset, FS_CardinalityType
  <1> QED
    BY <1>1, <1>7, <1>8 DEF ThreadConstants

\* Whatever is closed and has the first has what is reached from it.
LEMMA ReachLeast ==
  ASSUME ThreadConstants, NEW m \in 1..N, NEW w, NEW C, m \in C, Closed(C, w)
  PROVE  T!Reach(m, w) \subseteq C
  <1>1. PICK f : IsSteps(f, m, w, N) /\ T!Reach(m, w) = f[N]
    BY StepsDefined
  <1>2. f[0] = {m} /\ \A k \in 0..N : k # 0 => f[k] = Grown(f[k-1], w)
    <2>1. f = [k \in 0..N |-> IF k = 0 THEN {m} ELSE Grown(f[k-1], w)]
      BY <1>1 DEF IsSteps
    <2>2. 0 \in 0..N
      BY DEF ThreadConstants
    <2>3. f[0] = {m}
      BY <2>1, <2>2
    <2>4. ASSUME NEW k \in 0..N, k # 0 PROVE f[k] = Grown(f[k-1], w)
      BY <2>1, <2>4
    <2> QED
      BY <2>3, <2>4
  <1> DEFINE X == {k \in Nat : k <= N => f[k] \subseteq C}
  <1>3. 0 \in X
    BY <1>2
  <1>4. ASSUME NEW k \in Nat, k \in X PROVE k + 1 \in X
    <2> SUFFICES ASSUME k + 1 <= N PROVE f[k+1] \subseteq C
      OBVIOUS
    <2>1. f[k] \subseteq C
      BY <1>4 DEF ThreadConstants
    <2>2. k + 1 \in 0..N /\ k + 1 # 0 /\ (k + 1) - 1 = k
      BY DEF ThreadConstants
    <2>3. f[k+1] = Grown(f[k], w)
      BY <1>2, <2>2
    <2> QED
      BY <2>1, <2>3 DEF Grown, Closed
  <1>5. N \in X
    <2> HIDE DEF X
    <2> QED
      BY <1>3, <1>4, Induct DEF ThreadConstants
  <1> QED
    BY <1>1, <1>5 DEF ThreadConstants

\* Classes are equal or apart.
LEMMA ReachSame ==
  ASSUME ThreadConstants, NEW x \in 1..N, NEW w, NEW y \in T!Reach(x, w)
  PROVE  T!Reach(y, w) = T!Reach(x, w)
  <1>1. y \in 1..N /\ Closed(T!Reach(x, w), w) /\ x \in T!Reach(x, w)
    BY ReachCloses
  <1>2. y \in T!Reach(y, w) /\ Closed(T!Reach(y, w), w)
    BY <1>1, ReachCloses
  <1>3. T!Reach(y, w) \subseteq T!Reach(x, w)
    BY <1>1, ReachLeast
  <1>4. x \in T!Reach(y, w)
    <2> SUFFICES ASSUME x \notin T!Reach(y, w) PROVE FALSE
      OBVIOUS
    <2> DEFINE C == (1..N) \ T!Reach(y, w)
    <2>1. Closed(C, w)
      BY <1>2 DEF Closed, Joins
    <2>2. T!Reach(x, w) \subseteq C
      <3>1. x \in C
        OBVIOUS
      <3> HIDE DEF C
      <3> QED
        BY <2>1, <3>1, ReachLeast
    <2> QED
      BY <1>2, <2>2
  <1>5. T!Reach(x, w) \subseteq T!Reach(y, w)
    BY <1>2, <1>4, ReachLeast
  <1> QED
    BY <1>3, <1>5

\* A tie puts two messages in one class.
LEMMA TiedReach ==
  ASSUME ThreadConstants, NEW x \in 1..N, NEW y \in 1..N, NEW w, Joins(x, y, w)
  PROVE  T!Reach(y, w) = T!Reach(x, w)
  <1>1. y \in T!Reach(x, w)
    BY ReachCloses DEF Closed
  <1> QED
    BY <1>1, ReachSame

----------------------------------------------------------------------------
\* One Message-ID is worn by two messages, and every other by one.
OneWorn ==
    \A a, b, c, d \in 1..N : a # b /\ Id(a) = Id(b) /\ c # d /\ Id(c) = Id(d) => {a, b} = {c, d}

\* Of the mail that wears it, all that is stored under its id is w.
Holder(w, there) == \A y \in there : T!Alone(y) \/ y = w

\* A conversation is named after a message, by its id or by its bytes, and what is in
\* the conversation is tied to that message.
Names(r, th, w)   == (th = Id(r) /\ (T!Alone(r) \/ r = w)) \/ th = T!Key(r)
Labelled(t, w)    == \A x \in T!In(t) : \E r \in T!Reach(x, w) : Names(r, t[x], w)

\* A conversation has one name.
LEMMA NamesOne ==
  ASSUME ThreadConstants, NEW w, NEW r \in 1..N, NEW q \in 1..N, NEW th, Names(r, th, w), Names(q, th, w)
  PROVE  r = q
  <1>1. Id(r) \in Nat /\ Id(q) \in Nat /\ Id(r) # 100 + q /\ Id(q) # 100 + r
    BY DEF ThreadConstants
  <1>2. CASE th = Id(r) /\ th = Id(q)
    <2>1. r # q => ~T!Alone(r) /\ ~T!Alone(q)
      BY <1>2 DEF T!Alone, T!Msg
    <2> QED
      BY <1>1, <1>2, <2>1 DEF Names, T!Key
  <1> QED
    BY <1>1, <1>2 DEF Names, T!Key

\* So messages in one conversation are of one class.
LEMMA SameThread ==
  ASSUME ThreadConstants, NEW t \in Tree, NEW w, Labelled(t, w),
         NEW x \in T!In(t), NEW y \in T!In(t), t[x] = t[y]
  PROVE  T!Reach(x, w) = T!Reach(y, w)
  <1>1. x \in 1..N /\ y \in 1..N
    BY DEF T!In, T!Msg
  <1>2. PICK r \in T!Reach(x, w) : Names(r, t[x], w)
    BY DEF Labelled
  <1>3. PICK q \in T!Reach(y, w) : Names(q, t[x], w)
    BY DEF Labelled
  <1>4. r \in 1..N /\ q \in 1..N
    BY <1>1, ReachCloses
  <1>5. r = q
    BY <1>2, <1>3, <1>4, NamesOne
  <1> QED
    BY <1>1, <1>5, ReachSame

\* A message is put where what ties it is, or named after itself.
LEMMA LabelsAssigned ==
  ASSUME ThreadConstants, NEW t \in Tree, NEW m \in 1..N, t[m] = 0, NEW sh, NEW u, NEW found, NEW w,
         Assigns(t, m, sh, u, found), Labelled(t, w),
         \A th \in found : \E n \in T!In(t) : t[n] = th /\ Joins(m, n, w),
         sh \/ T!Alone(m) \/ m = w
  PROVE  Labelled(u, w)
  <1>1. m \notin T!In(t) /\ T!In(u) = T!In(t) \cup {m} /\ T!In(t) \subseteq 1..N
    BY AssignedIn DEF T!In, T!Msg
  <1>2. ASSUME NEW n \in T!In(t), Joins(m, n, w)
        PROVE  T!Reach(n, w) = T!Reach(m, w) /\ \E r \in T!Reach(m, w) : Names(r, t[n], w)
    <2>1. T!Reach(n, w) = T!Reach(m, w)
      BY <1>1, <1>2, TiedReach
    <2> QED
      BY <2>1 DEF Labelled
  <1>3. CASE found # {}
    <2>1. PICK keep \in found : Merges(t, m, u, found, keep)
      BY <1>3 DEF Assigns
    <2>2. PICK r \in T!Reach(m, w) : Names(r, keep, w)
      BY <1>2
    <2>3. ASSUME NEW x \in T!In(t), t[x] \in found PROVE T!Reach(x, w) = T!Reach(m, w)
      <3>1. PICK n \in T!In(t) : t[n] = t[x] /\ Joins(m, n, w)
        BY <2>3
      <3>2. T!Reach(x, w) = T!Reach(n, w)
        BY <3>1, SameThread
      <3> QED
        BY <1>2, <3>1, <3>2
    <2>4. ASSUME NEW x \in T!In(u) PROVE \E q \in T!Reach(x, w) : Names(q, u[x], w)
      <3>1. CASE x = m
        BY <2>1, <2>2, <3>1 DEF Merges
      <3>2. CASE x # m /\ t[x] \in found
        <4>1. u[x] = keep /\ x \in T!In(t)
          BY <1>1, <2>1, <3>2 DEF Merges
        <4> QED
          BY <2>2, <2>3, <3>2, <4>1
      <3>3. CASE x # m /\ t[x] \notin found
        <4>1. u[x] = t[x] /\ x \in T!In(t)
          BY <1>1, <2>1, <3>3 DEF Merges
        <4> QED
          BY <4>1 DEF Labelled
      <3> QED
        BY <3>1, <3>2, <3>3
    <2> QED
      BY <2>4 DEF Labelled
  <1>4. CASE found = {}
    <2>1. \A x \in T!In(t) : u[x] = t[x]
      BY <1>1, <1>4 DEF Assigns, Follows, Begins, Tree
    <2>2. \E r \in T!Reach(m, w) : Names(r, u[m], w)
      <3>1. CASE Follows(t, m, u)
        <4>1. PICK n \in T!In(t) : Subject(n) = Subject(m) /\ Subject(m) # "" /\ u = [t EXCEPT ![m] = t[n]]
          BY <3>1 DEF Follows
        <4>2. Joins(m, n, w) /\ u[m] = t[n]
          BY <4>1 DEF Joins, T!Tied, Tree
        <4> QED
          BY <1>2, <4>2
      <3>2. CASE Begins(t, m, sh, u)
        <4>1. Names(m, u[m], w)
          BY <3>2 DEF Begins, Names, Tree
        <4> QED
          BY <4>1, ReachCloses
      <3> QED
        BY <1>4, <3>1, <3>2 DEF Assigns
    <2> QED
      BY <1>1, <2>1, <2>2 DEF Labelled
  <1> QED
    BY <1>3, <1>4

\* As long as mail has only arrived: an id is held by one message, which came first, and
\* every conversation is named after what is tied to it.
OwnIds   == \A a, b \in T!Stored \ shared : a # b => Id(a) # Id(b)
LaterTwo == \A a \in shared : a \in T!Stored /\ \E b \in T!Stored \ shared : b # a /\ Id(b) = Id(a)
Labels   == \A w \in 1..N : Holder(w, T!Stored \ shared) => Labelled(thread, w)
ApartInv == ~reordered => OwnIds /\ LaterTwo /\ Labels

\* What a message finds is tied to it, whoever holds the worn id.
LEMMA FoundTied ==
  ASSUME ThreadConstants, ThreadInv, OwnIds, LaterTwo, NEW m \in 1..N, NEW w \in 1..N,
         Holder(w, T!Stored \ shared), NEW sh, sh \/ T!Alone(m) \/ m = w,
         NEW th \in T!parents(thread, m) \cup T!children(thread, m, sh)
  PROVE  \E n \in T!Stored : thread[n] = th /\ Joins(m, n, w)
  <1>0. T!In(thread) = T!Stored /\ T!Stored \subseteq 1..N
    BY DEF T!In, T!Stored, T!Msg
  <1>1. CASE th \in T!parents(thread, m)
    <2>1. PICK i \in Refs(m) :
             LET all == {thread[n] : n \in {x \in T!Stored : Id(x) = i}}
             IN  T!Cardinality(all) = 1 /\ th \in all
      <3> HIDE DEF T!Cardinality
      <3> QED
        BY <1>0, <1>1 DEF T!parents
    <2>2. {thread[n] : n \in {x \in T!Stored : Id(x) = i}} = {th}
      <3> DEFINE all == {thread[n] : n \in {x \in T!Stored : Id(x) = i}}
      <3>0. IsFiniteSet(1..N)
        BY FS_Interval DEF ThreadConstants
      <3>1. T!Stored \subseteq 1..N /\ IsFiniteSet(1..N)
        BY <1>0, <3>0
      <3>2. IsFiniteSet(all)
        <4>1. all \subseteq {thread[n] : n \in 1..N}
          BY <3>1
        <4> DEFINE g == [n \in 1..N |-> thread[n]]
        <4>2. g \in Surjection(1..N, {thread[n] : n \in 1..N})
          BY DEF Surjection
        <4>3. IsFiniteSet({thread[n] : n \in 1..N})
          BY <3>1, <4>2, FS_Surjection
        <4> QED
          BY <4>1, <4>3, FS_Subset
      <3>3. Cardinality(all) = 1 /\ th \in all
        BY <2>1, ThreadCounts
      <3> HIDE DEF all
      <3>4. PICK y : all = {y}
        BY <3>2, <3>3, FS_Singleton
      <3>5. all = {th}
        BY <3>3, <3>4
      <3> QED
        BY <3>5 DEF all
    <2>3. PICK n \in T!Stored : Id(n) = i /\ thread[n] = th
      BY <2>2
    <2>4. CASE T!Alone(n) \/ n = w
      BY <2>3, <2>4 DEF Joins, T!Tied
    <2>5. CASE ~T!Alone(n) /\ n # w
      <3>1. n \in shared
        BY <2>5 DEF Holder
      <3>2. PICK b \in T!Stored \ shared : b # n /\ Id(b) = Id(n)
        BY <3>1 DEF LaterTwo
      <3>3. ~T!Alone(b)
        BY <1>0, <3>2 DEF T!Alone, T!Msg
      <3>4. b = w
        BY <3>2, <3>3 DEF Holder
      <3>5. thread[b] = th
        BY <2>2, <2>3, <3>2
      <3> QED
        BY <2>3, <3>2, <3>4, <3>5 DEF Joins, T!Tied
    <2> QED
      BY <2>4, <2>5
  <1>2. CASE th \in T!children(thread, m, sh)
    <2>1. PICK x \in T!Stored : thread[x] = th /\ ~sh /\ Id(m) \in Refs(x)
      BY <1>0, <1>2 DEF T!children
    <2> QED
      BY <2>1 DEF Joins, T!Tied
  <1> QED
    BY <1>1, <1>2

\* Mail that arrives is put with what it is tied to, and nothing else.
LEMMA IngestApart ==
  ASSUME ThreadConstants, ThreadInv, ApartInv, NEW m \in 1..N, T!ingest_raw(m)
  PROVE  ApartInv'
  <1> SUFFICES ASSUME ~reordered PROVE (OwnIds /\ LaterTwo /\ Labels)'
    BY DEF ApartInv, T!ingest_raw
  <1> DEFINE sh == T!id_taken(m)
  <1>1. /\ sh \in BOOLEAN /\ thread[m] = 0 /\ m \notin T!Stored /\ OwnIds /\ LaterTwo /\ Labels
        /\ shared' = IF sh THEN shared \cup {m} ELSE shared
        /\ sh <=> \E n \in T!Stored \ shared : Id(n) = Id(m)
    <2>1. sh \in BOOLEAN /\ (sh <=> \E n \in T!Stored \ shared : Id(n) = Id(m))
      BY DEF T!id_taken
    <2>2. OwnIds /\ LaterTwo /\ Labels
      BY DEF ApartInv
    <2>3. m \notin T!Stored /\ thread[m] = 0
      BY DEF T!ingest_raw, T!Stored, T!Msg
    <2>4. shared' = IF sh THEN shared \cup {m} ELSE shared
      BY DEF T!ingest_raw
    <2> QED
      BY <2>1, <2>2, <2>3, <2>4
  <1>2. PICK found : Assigns(thread, m, sh, thread', found)
    BY <1>1, Assigned DEF T!ingest_raw, ThreadInv
  <1>3. T!Stored' = T!Stored \cup {m} /\ T!Stored = T!In(thread) /\ T!Stored \subseteq 1..N
    <2>1. T!In(thread') = T!In(thread) \cup {m}
      BY <1>2, AssignedIn DEF ThreadInv
    <2> QED
      BY <2>1 DEF T!In, T!Stored, T!Msg
  <1> HIDE DEF sh
  <1>4. m \notin shared
    BY <1>1 DEF LaterTwo
  <1>5. OwnIds'
    BY <1>1, <1>3, <1>4 DEF OwnIds
  <1>6. LaterTwo'
    BY <1>1, <1>3, <1>4 DEF LaterTwo
  <1>7. ASSUME NEW w \in 1..N, Holder(w, (T!Stored \ shared)') PROVE Labelled(thread', w)
    <2>1. Holder(w, T!Stored \ shared) /\ (sh \/ T!Alone(m) \/ m = w)
      BY <1>1, <1>3, <1>4, <1>7 DEF Holder
    <2>2. \A th \in found : \E n \in T!In(thread) : thread[n] = th /\ Joins(m, n, w)
      BY <1>1, <1>2, <1>3, <2>1, FoundTied DEF Assigns
    <2> QED
      BY <1>1, <1>2, <2>1, <2>2, LabelsAssigned DEF Labels, ThreadInv
  <1> QED
    BY <1>5, <1>6, <1>7 DEF Labels

\* Every step keeps it, or threads anew.
LEMMA ApartInvNext ==
  ThreadConstants /\ ThreadInv /\ ApartInv /\ [T!Next]_T!vars => ApartInv'
  <1> SUFFICES ASSUME ThreadConstants, ThreadInv, ApartInv, [T!Next]_T!vars PROVE ApartInv'
    OBVIOUS
  <1>1. CASE UNCHANGED <<thread, shared, reordered>>
    BY <1>1 DEF ApartInv, OwnIds, LaterTwo, Labels, T!Stored
  <1>2. CASE \E m \in T!Msg : T!Delete(m)
    <2>1. PICK m \in 1..N : T!Delete(m)
      BY <1>2 DEF T!Msg
    <2>2. SUFFICES ASSUME ~reordered' PROVE (OwnIds /\ LaterTwo /\ Labels)'
      BY DEF ApartInv
    <2>3. /\ T!Stored' = T!Stored \ {m} /\ shared' = shared \ {m} /\ T!Stored \subseteq 1..N
          /\ \A n \in T!Stored' : thread'[n] = thread[n]
      BY <2>1 DEF T!Delete, ThreadInv, Tree, T!Stored, T!Msg
    <2>4. T!Alone(m) /\ OwnIds /\ LaterTwo /\ Labels
      BY <2>1, <2>2 DEF T!Delete, T!Alone, ApartInv
    <2>5. OwnIds' /\ LaterTwo'
      BY <2>3, <2>4 DEF OwnIds, LaterTwo, T!Alone, T!Msg
    <2>6. ASSUME NEW w \in 1..N, Holder(w, (T!Stored \ shared)') PROVE Labelled(thread', w)
      <3>1. Holder(w, T!Stored \ shared)
        BY <2>3, <2>4, <2>6 DEF Holder
      <3>2. Labelled(thread, w)
        BY <2>4, <3>1 DEF Labels
      <3>3. T!In(thread') = T!Stored' /\ T!In(thread) = T!Stored
        BY DEF T!In, T!Stored
      <3> QED
        BY <2>3, <3>2, <3>3 DEF Labelled
    <2> QED
      BY <2>5, <2>6 DEF Labels
  <1>3. CASE T!Rethread
    BY <1>3 DEF T!Rethread, ApartInv
  <1>4. CASE \/ T!ReadDue \/ T!Relist \/ UNCHANGED T!vars
             \/ \E m \in T!Msg : \/ T!set_reminder(m) \/ \E restore \in BOOLEAN : T!ReadClear(m, restore)
                                \/ \E b \in {"inbox", "archive", "other"} : T!Touch(m, b)
             \/ \E i \in T!Ids : T!ComesDue(i) \/ T!FireDue(i) \/ T!CommitClear(i)
    BY <1>1, <1>4 DEF T!ReadDue, T!Relist, T!vars, T!mail, T!set_reminder, T!ReadClear, T!Touch,
                      T!ComesDue, T!FireDue, T!CommitClear
  <1> QED
    BY <1>2, <1>3, <1>4, IngestApart DEF T!Next, T!Msg

\* Two messages of one id in one conversation are tied by more.
LEMMA ApartInvApart ==
  ASSUME ThreadConstants, OneWorn, ThreadInv, ApartInv
  PROVE  T!Apart
  <1> SUFFICES ASSUME ~reordered, NEW m \in T!Stored, NEW n \in T!Stored,
                      m # n, Id(m) = Id(n), thread[m] = thread[n]
               PROVE  n \in T!Kin[<<m, m>>] \cup T!Kin[<<m, n>>]
    BY DEF T!Apart, T!StaysApart
  <1>1. m \in 1..N /\ n \in 1..N /\ T!In(thread) = T!Stored /\ T!Stored \subseteq 1..N
    BY DEF T!Stored, T!In, T!Msg
  <1>2. OwnIds /\ LaterTwo /\ Labels
    BY DEF ApartInv
  <1>3. \A y \in T!Stored : ~T!Alone(y) => y \in {m, n}
    <2> TAKE y \in T!Stored
    <2> SUFFICES ASSUME ~T!Alone(y) PROVE y \in {m, n}
      OBVIOUS
    <2>1. PICK z \in 1..N : z # y /\ Id(z) = Id(y)
      BY DEF T!Alone, T!Msg
    <2> QED
      BY <1>1, <2>1 DEF OneWorn
  <1>4. PICK w \in {m, n} : Holder(w, T!Stored \ shared)
    BY <1>2, <1>3 DEF Holder, OwnIds
  <1>5. Labelled(thread, w)
    BY <1>1, <1>2, <1>4 DEF Labels
  <1>6. T!Reach(m, w) = T!Reach(n, w)
    BY <1>1, <1>5, SameThread DEF ThreadInv
  <1>7. n \in T!Reach(m, w)
    BY <1>1, <1>6, ReachCloses
  <1>8. T!Kin[<<m, w>>] = T!Reach(m, w)
    BY <1>1, <1>4 DEF T!Kin, T!Msg
  <1> QED
    BY <1>4, <1>7, <1>8

\* Mail that belongs together is together, and as long as mail only arrives two messages
\* that have nothing but their Message-ID in common are apart, where one id is worn
\* twice: the message that came first holds it, and every conversation is named after a
\* message its members are tied to (ingest_raw, assign_thread, _merge_threads).
THEOREM MailGrouped == ASSUME ThreadConstants, OneWorn PROVE MailboxSpec => []Grouped
  <1> DEFINE Inv == part = "threads" => ThreadInv /\ ApartInv
  <1>1. MailboxInit => Inv
    <2>1. T!Init => ApartInv
      BY DEF T!Init, ApartInv, OwnIds, LaterTwo, Labels, Labelled, T!Stored, T!In, T!Msg
    <2> QED
      BY <2>1, ThreadInvInit DEF MailboxInit
  <1>2. Inv /\ [MailboxNext]_mailboxVars => Inv'
    BY PartSteps, ThreadInvNext, ApartInvNext
  <1>3. Inv => Grouped
    <2> SUFFICES ASSUME ThreadInv, ApartInv PROVE T!Grouped
      BY DEF Grouped
    <2>1. T!Whole
      BY DEF ThreadInv, WholeOf, T!Whole, T!Stored, T!In
    <2>2. T!Apart
      BY ApartInvApart
    <2> QED
      BY <2>1, <2>2 DEF T!Grouped
  <1> QED
    BY <1>1, <1>2, <1>3, PTL DEF MailboxSpec

----------------------------------------------------------------------------
\* Something added to a sequence, whatever it is of.
LEMMA Appended ==
  ASSUME NEW n \in Nat, NEW s, s = [i \in 1..n |-> s[i]], NEW e, NEW u, u = Append(s, e)
  PROVE  u = [i \in 1..(n+1) |-> IF i = n + 1 THEN e ELSE s[i]]
  <1> DEFINE X == {s[i] : i \in 1..n} \cup {e}
  <1>1. s \in [1..n -> X] /\ e \in X
    OBVIOUS
  <1> HIDE DEF X
  <1>2. s \in Seq(X) /\ Len(s) = n
    BY <1>1
  <1> QED
    BY <1>1, <1>2

\* Reminders.  What a pending one parked came from somewhere else than Archive.
IsReminder(r) ==
    r = [message |-> r.message, thread |-> r.thread, due |-> r.due, error |-> r.error,
         state |-> r.state, park |-> r.park, parked |-> r.parked]

FromElsewhere(r) == r.state = "pending" => \A n \in DOMAIN r.parked : r.parked[n] # "archive"

ReminderInv ==
    /\ \E n \in Nat : reminders = [i \in 1..n |-> reminders[i]]
    /\ \A i \in DOMAIN reminders : IsReminder(reminders[i]) /\ FromElsewhere(reminders[i])

\* What a step leaves pending, among the reminders there were.
StillPending(i) == reminders[i].state = "pending" => reminders'[i].state = "pending"

\* The marks of one reminder, i, are changed, and of no other.
LEMMA OneMarked ==
  ASSUME ReminderInv, NEW i \in DOMAIN reminders, NEW due, NEW error, NEW state \in {"done", "cancelled"},
         \/ reminders' = [reminders EXCEPT ![i].due = due]
         \/ reminders' = [reminders EXCEPT ![i].error = error]
         \/ reminders' = [reminders EXCEPT ![i].state = state, ![i].error = error]
  PROVE  ReminderInv' /\ \A j \in DOMAIN reminders \ {i} : StillPending(j)
  <1>1. PICK n \in Nat : reminders = [j \in 1..n |-> reminders[j]]
    BY DEF ReminderInv
  <1>2. \/ reminders'[i] = [reminders[i] EXCEPT !.due = due]
        \/ reminders'[i] = [reminders[i] EXCEPT !.error = error]
        \/ reminders'[i] = [reminders[i] EXCEPT !.state = state, !.error = error]
    BY <1>1
  <1>3. /\ reminders' = [j \in 1..n |-> reminders'[j]]
        /\ \A j \in (1..n) \ {i} : reminders'[j] = reminders[j]
    BY <1>1
  <1>4. IsReminder(reminders[i]) /\ FromElsewhere(reminders[i])
    BY DEF ReminderInv
  <1>5. IsReminder(reminders'[i]) /\ FromElsewhere(reminders'[i])
    <2>1. IsReminder(reminders'[i]) /\ reminders'[i].parked = reminders[i].parked
          /\ reminders'[i].state \in {reminders[i].state, state}
      <3> DEFINE r == reminders[i]
                 u == reminders'[i]
      <3>1. \/ u = [r EXCEPT !.due = due] \/ u = [r EXCEPT !.error = error]
            \/ u = [r EXCEPT !.state = state, !.error = error]
        BY <1>2
      <3>2. IsReminder(r)
        BY <1>4
      <3> HIDE DEF r, u
      <3>3. IsReminder(u) /\ u.parked = r.parked /\ u.state \in {r.state, state}
        <4>1. CASE u = [r EXCEPT !.due = due]
          BY <3>2, <4>1 DEF IsReminder
        <4>2. CASE u = [r EXCEPT !.error = error]
          BY <3>2, <4>2 DEF IsReminder
        <4>3. CASE u = [r EXCEPT !.state = state, !.error = error]
          BY <3>2, <4>3 DEF IsReminder
        <4> QED
          BY <3>1, <4>1, <4>2, <4>3
      <3> QED
        BY <3>3 DEF r, u
    <2> QED
      BY <2>1, <1>4 DEF FromElsewhere
  <1>6. \A j \in 1..n : IsReminder(reminders'[j]) /\ FromElsewhere(reminders'[j])
    BY <1>1, <1>3, <1>5 DEF ReminderInv
  <1>7. DOMAIN reminders' = 1..n /\ DOMAIN reminders = 1..n
    BY <1>1, <1>3
  <1>8. ReminderInv'
    BY <1>3, <1>6, <1>7 DEF ReminderInv
  <1> QED
    BY <1>3, <1>7, <1>8 DEF StillPending

\* What is parked is brought back by what fires.
LEMMA Fired ==
  ASSUME ReminderInv, NEW i \in DOMAIN reminders, T!Pending(i), box' = T!fire(i),
         reminders[i].park = archive,
         NEW n \in DOMAIN reminders[i].parked, n \in T!Stored, box[n] = "archive"
  PROVE  box'[n] # "archive"
  <1>1. reminders[i].parked[n] # "archive"
    BY DEF ReminderInv, FromElsewhere, T!Pending
  <1>2. box'[n] = reminders[i].parked[n]
    BY DEF T!fire, T!Stored
  <1> QED
    BY <1>1, <1>2

\* A reminder is set, or one that waits is moved.
LEMMA SetKeeps ==
  ASSUME ReminderInv, NEW m, T!set_reminder(m)
  PROVE  ReminderInv' /\ \A i \in DOMAIN reminders : StillPending(i)
  <1>1. PICK n \in Nat : reminders = [j \in 1..n |-> reminders[j]]
    BY DEF ReminderInv
  <1>2. DOMAIN reminders = 1..n
    BY <1>1
  <1>3. CASE T!pending_for(m) # {}
    <2>1. reminders' = [i \in 1..n |-> IF i \in T!pending_for(m)
                                THEN [reminders[i] EXCEPT !.due = FALSE, !.error = FALSE]
                                ELSE reminders[i]]
      BY <1>2, <1>3 DEF T!set_reminder, T!Ids
    <2>2. DOMAIN reminders' = 1..n /\ reminders' = [i \in 1..n |-> reminders'[i]]
      BY <2>1
    <2>3. ASSUME NEW i \in 1..n
          PROVE  IsReminder(reminders'[i]) /\ FromElsewhere(reminders'[i]) /\ StillPending(i)
      <3>1. IsReminder(reminders[i]) /\ FromElsewhere(reminders[i])
        BY <1>2 DEF ReminderInv
      <3>2. CASE reminders'[i] = reminders[i]
        BY <3>1, <3>2 DEF StillPending
      <3>3. CASE reminders'[i] = [reminders[i] EXCEPT !.due = FALSE, !.error = FALSE]
        <4>1. PICK u : u = [reminders[i] EXCEPT !.due = FALSE, !.error = FALSE]
          OBVIOUS
        <4>2. IsReminder(u) /\ u.parked = reminders[i].parked /\ u.state = reminders[i].state
          BY <3>1, <4>1 DEF IsReminder
        <4> QED
          BY <3>1, <3>3, <4>1, <4>2 DEF FromElsewhere, StillPending
      <3> QED
        BY <2>1, <3>2, <3>3
    <2> QED
      BY <1>2, <2>2, <2>3 DEF ReminderInv
  <1>4. CASE T!pending_for(m) = {}
    <2>1. PICK e : /\ reminders' = Append(reminders, e)
                   /\ IsReminder(e) /\ FromElsewhere(e)
      <3> DEFINE conv == T!conversation(m)
                 put0 == [k \in conv |-> IF box[k] = "archive" THEN "inbox" ELSE box[k]]
                 e0 == [message |-> m, thread |-> thread[m], due |-> FALSE, error |-> FALSE,
                        state |-> "pending", park |-> archive, parked |-> put0]
      <3>1. reminders' = Append(reminders, e0)
        BY <1>4 DEF T!set_reminder
      <3>2. \A k \in DOMAIN put0 : put0[k] # "archive"
        OBVIOUS
      <3>3. IsReminder(e0) /\ e0.parked = put0
        BY DEF IsReminder
      <3>4. FromElsewhere(e0)
        BY <3>2, <3>3 DEF FromElsewhere
      <3> QED
        BY <3>1, <3>3, <3>4
    <2>2. reminders' = [i \in 1..(n+1) |-> IF i = n + 1 THEN e ELSE reminders[i]]
      BY <1>1, <2>1, Appended
    <2>3. DOMAIN reminders' = 1..(n+1) /\ reminders' = [i \in 1..(n+1) |-> reminders'[i]]
      BY <2>2
    <2>4. \A i \in 1..(n+1) : IsReminder(reminders'[i]) /\ FromElsewhere(reminders'[i])
      BY <1>2, <2>1, <2>2 DEF ReminderInv
    <2>5. \A i \in 1..n : reminders'[i] = reminders[i]
      BY <2>2
    <2>6. ReminderInv'
      BY <2>3, <2>4 DEF ReminderInv
    <2> QED
      BY <1>2, <2>5, <2>6 DEF StillPending
  <1> QED
    BY <1>3, <1>4

\* Mail goes for good, and what was set on it, which is nothing that waits.
LEMMA DeleteKeeps ==
  ASSUME ~AnchorsToo, ReminderInv, NEW m, T!Delete(m)
  PROVE  ReminderInv' /\ \A i \in DOMAIN reminders : StillPending(i)
  <1>1. PICK n \in Nat : reminders = [j \in 1..n |-> reminders[j]]
    BY DEF ReminderInv
  <1>2. DOMAIN reminders = 1..n
    BY <1>1
  <1>3. reminders' = [i \in 1..n |-> IF reminders[i].message = m THEN T!Gone ELSE reminders[i]]
    BY <1>2 DEF T!Delete, T!Ids
  <1>4. DOMAIN reminders' = 1..n /\ reminders' = [i \in 1..n |-> reminders'[i]]
    BY <1>3
  <1>5. IsReminder(T!Gone) /\ FromElsewhere(T!Gone)
    BY DEF T!Gone, IsReminder, FromElsewhere
  <1>6. \A i \in 1..n : reminders[i].state = "pending" => reminders'[i] = reminders[i]
    BY <1>2, <1>3 DEF T!Delete, T!Ids, T!Pending
  <1>7. \A i \in 1..n : IsReminder(reminders'[i]) /\ FromElsewhere(reminders'[i])
    BY <1>2, <1>3, <1>5 DEF ReminderInv
  <1> QED
    BY <1>2, <1>4, <1>6, <1>7 DEF ReminderInv, StillPending

\* The tick comes to one of those it read.
LEMMA FireKeeps ==
  ASSUME ReminderInv, NEW i \in DOMAIN reminders, T!FireDue(i)
  PROVE  ReminderInv' /\ T!BroughtBack
  <1>1. PICK n \in Nat : reminders = [j \in 1..n |-> reminders[j]]
    BY DEF ReminderInv
  <1>2. CASE T!Pending(i) /\ box' = T!fire(i) /\ reminders' = T!Done(i)
    <2>1. ReminderInv' /\ \A j \in DOMAIN reminders \ {i} : StillPending(j)
      <3>1. reminders' = [reminders EXCEPT ![i].state = "done", ![i].error = FALSE]
        BY <1>2 DEF T!Done
      <3> QED
        BY <3>1, OneMarked
    <2> QED
      BY <1>2, <2>1, Fired DEF T!BroughtBack, T!Pending, T!Ids, StillPending
  <1>3. CASE T!Pending(i) /\ reminders' = [reminders EXCEPT ![i].error = TRUE]
    <2>1. ReminderInv' /\ \A j \in DOMAIN reminders \ {i} : StillPending(j)
      BY <1>3, OneMarked
    <2>2. reminders'[i].state = reminders[i].state
      <3>1. reminders'[i] = [reminders[i] EXCEPT !.error = TRUE] /\ IsReminder(reminders[i])
        BY <1>1, <1>3 DEF ReminderInv
      <3> QED
        BY <3>1 DEF IsReminder
    <2> QED
      BY <2>1, <2>2 DEF T!BroughtBack, T!Pending, T!Ids, StillPending
  <1>4. CASE UNCHANGED reminders
    BY <1>4 DEF T!BroughtBack, T!Pending, ReminderInv
  <1> QED
    BY <1>2, <1>3, <1>4 DEF T!FireDue

\* The user takes one back.
LEMMA ClearKeeps ==
  ASSUME ReminderInv, NEW i \in DOMAIN reminders, T!CommitClear(i)
  PROVE  ReminderInv' /\ T!BroughtBack
  <1>1. CASE UNCHANGED reminders
    BY <1>1 DEF T!BroughtBack, T!Pending, ReminderInv
  <1>2. CASE ~UNCHANGED reminders
    <2>1. ReminderInv' /\ \A j \in DOMAIN reminders \ {i} : StillPending(j)
      <3>1. \/ reminders' = [reminders EXCEPT ![i].state = "done", ![i].error = FALSE]
            \/ reminders' = [reminders EXCEPT ![i].state = "cancelled", ![i].error = FALSE]
        BY <1>2 DEF T!CommitClear, T!Done
      <3> QED
        BY <3>1, OneMarked
    <2>2. i \in taken'
      BY DEF T!CommitClear
    <2> QED
      BY <2>1, <2>2 DEF T!BroughtBack, T!Pending, T!Ids, StillPending
  <1> QED
    BY <1>1, <1>2

\* Every step keeps it, and brings back what it is over with.
LEMMA ReminderNext ==
  ~AnchorsToo /\ ReminderInv /\ [T!Next]_T!vars => ReminderInv' /\ T!BroughtBack
  <1> SUFFICES ASSUME ~AnchorsToo, ReminderInv, [T!Next]_T!vars PROVE ReminderInv' /\ T!BroughtBack
    OBVIOUS
  <1>1. CASE UNCHANGED reminders
    BY <1>1 DEF T!BroughtBack, T!Pending, ReminderInv
  <1>2. CASE \E m \in T!Msg : T!set_reminder(m) \/ T!Delete(m)
    BY <1>2, SetKeeps, DeleteKeeps DEF T!BroughtBack, T!Pending, T!Ids, StillPending
  <1>3. CASE \E i \in T!Ids : T!ComesDue(i)
    <2>1. PICK i \in DOMAIN reminders : T!ComesDue(i)
      BY <1>3 DEF T!Ids
    <2>2. ReminderInv' /\ \A j \in DOMAIN reminders \ {i} : StillPending(j)
      <3>1. reminders' = [reminders EXCEPT ![i].due = TRUE]
        BY <2>1 DEF T!ComesDue
      <3> QED
        BY <3>1, OneMarked
    <2>3. reminders'[i].state = reminders[i].state
      <3>1. PICK n \in Nat : reminders = [j \in 1..n |-> reminders[j]]
        BY DEF ReminderInv
      <3>2. reminders'[i] = [reminders[i] EXCEPT !.due = TRUE] /\ IsReminder(reminders[i])
        BY <2>1, <3>1 DEF ReminderInv, T!ComesDue
      <3> QED
        BY <3>2 DEF IsReminder
    <2> QED
      BY <2>2, <2>3 DEF T!BroughtBack, T!Pending, T!Ids, StillPending
  <1>4. CASE \E i \in T!Ids : T!FireDue(i) \/ T!CommitClear(i)
    BY <1>4, FireKeeps, ClearKeeps DEF T!Ids
  <1>5. CASE \/ T!Rethread \/ T!ReadDue \/ T!Relist \/ UNCHANGED T!vars
             \/ \E m \in T!Msg : \/ T!ingest_raw(m) \/ \E restore \in BOOLEAN : T!ReadClear(m, restore)
                                \/ \E b \in {"inbox", "archive", "other"} : T!Touch(m, b)
    <2>1. UNCHANGED reminders
      BY <1>5 DEF T!Rethread, T!ReadDue, T!Relist, T!vars, T!ingest_raw, T!ReadClear, T!Touch
    <2> QED
      BY <1>1, <2>1
  <1> QED
    BY <1>2, <1>3, <1>4, <1>5 DEF T!Next

\* A reminder that is over, unless the user took it back, has brought back all of what
\* it parked and nobody has filed elsewhere since, whatever has been threaded, deleted
\* or filed by hand meanwhile (set_reminder, fire, run_due).  What one was set on is
\* not deleted while it waits: by ON DELETE CASCADE it would go too.
THEOREM PromiseKept == ASSUME ~AnchorsToo PROVE MailboxSpec => Promise
  <1> DEFINE Inv == part = "threads" => ReminderInv
  <1>1. MailboxInit => Inv
    <2>1. T!Init => ReminderInv
      <3> SUFFICES ASSUME T!Init PROVE ReminderInv
        OBVIOUS
      <3>1. reminders = [i \in 1..0 |-> reminders[i]] /\ DOMAIN reminders = {}
        BY DEF T!Init
      <3> QED
        BY <3>1 DEF ReminderInv
    <2> QED
      BY <2>1 DEF MailboxInit
  <1>2. Inv /\ [MailboxNext]_mailboxVars => Inv' /\ (part = "threads" => T!BroughtBack)
    BY PartSteps, ReminderNext
  <1>3. Inv /\ [MailboxNext]_mailboxVars => [part = "threads" => T!BroughtBack]_mailboxVars
    BY <1>2
  <1> QED
    BY <1>1, <1>2, <1>3, PTL DEF MailboxSpec, Promise

----------------------------------------------------------------------------
\* The repair tool.  Rows are what they are, and no two that live share a key: their
\* Message-ID, if they are filed under it, or else their bytes (dedup_key is unique).
IsRow(r) ==
    /\ r = [bytes |-> r.bytes, status |-> r.status, own |-> r.own]
    /\ r.status \in {"full", "pruned", "gone"} /\ r.own \in BOOLEAN

IsRows(w) ==
    /\ \E n \in Nat : w = [i \in 1..n |-> w[i]]
    /\ \A i \in DOMAIN w : IsRow(w[i])

SameKey(a, b) == (a.own /\ b.own) \/ (~a.own /\ ~b.own /\ a.bytes = b.bytes)

OneKey(w) ==
    \A a, b \in DOMAIN w :
        a # b /\ w[a].status # "gone" /\ w[b].status # "gone" => ~SameKey(w[a], w[b])

\* What earlier versions left is that too.
RepairConstants == \A s \in Starts : IsRows(s.rows) /\ OneKey(s.rows)

\* A set of twins lives, is of one letter, and its keeper is complete if any of them is;
\* if none is they are of the same bytes, and the keeper is filed under its Message-ID,
\* where the walk will look for them first.
Sound(g, w) ==
    /\ g.keeper \in g.all /\ g.all \subseteq DOMAIN w
    /\ \A r \in g.all : /\ w[r].status # "gone"
                        /\ Letter(w[r].bytes) = Letter(w[g.keeper].bytes)
                        /\ w[r].status = "full" => w[g.keeper].status = "full"
    /\ w[g.keeper].status # "full" =>
        w[g.keeper].own /\ \A r \in g.all : w[r].bytes = w[g.keeper].bytes

Disjoint(gs) == \A g, h \in gs : g = h \/ g.all \cap h.all = {}

RepairInv ==
    /\ IsRows(rows) /\ OneKey(rows)
    /\ \A g \in groups : Sound(g, rows)
    /\ Disjoint(groups)
    /\ pc # "merge" => groups = {}

LEMMA RowCounts == ASSUME NEW X PROVE R!Cardinality(X) = Cardinality(X)
  BY DEF R!Cardinality, Cardinality

\* What is joined is joined by something, a set that no part of is apart from the rest.
Bound(s) == \A t \in SUBSET s : t # {} /\ t # s => \E x \in t, y \in s \ t : R!Twins(x, y)

LEMMA JoinedBy ==
  ASSUME NEW a, NEW b
  PROVE  R!Joined(a, b) <=> \E s \in SUBSET R!Rows : a \in s /\ b \in s /\ Bound(s)
  BY DEF R!Joined, Bound

\* Joined rows are of one letter.
LEMMA OneLetter ==
  ASSUME NEW a, NEW b, R!Joined(a, b)
  PROVE  Letter(rows[a].bytes) = Letter(rows[b].bytes)
  <1>1. PICK s \in SUBSET R!Rows : a \in s /\ b \in s /\ Bound(s)
    BY JoinedBy
  <1> DEFINE t == {x \in s : Letter(rows[x].bytes) = Letter(rows[a].bytes)}
  <1>2. \A x \in t, y \in s \ t : ~R!Twins(x, y)
    BY DEF R!Twins, R!bridge_neutral_key
  <1>3. t \in SUBSET s /\ a \in t
    BY <1>1
  <1> HIDE DEF t
  <1>4. t = s
    BY <1>1, <1>2, <1>3 DEF Bound
  <1> QED
    BY <1>1, <1>4 DEF t

\* Where none of what a is joined to is complete, it is all of the same bytes.
LEMMA OneWriting ==
  ASSUME NEW a, NEW b, R!Joined(a, b),
         \A x \in R!Rows : R!Live(x) /\ R!Joined(a, x) => rows[x].status # "full"
  PROVE  rows[a].bytes = rows[b].bytes
  <1>1. PICK s \in SUBSET R!Rows : a \in s /\ b \in s /\ Bound(s)
    BY JoinedBy
  <1> DEFINE t == {x \in s : rows[x].bytes = rows[a].bytes}
  <1>2. \A x \in s : R!Joined(a, x)
    BY <1>1, JoinedBy
  <1>3. \A x \in t, y \in s \ t : ~R!Twins(x, y)
    BY <1>1, <1>2 DEF R!Twins
  <1>4. t \in SUBSET s /\ a \in t
    BY <1>1
  <1> HIDE DEF t
  <1>5. t = s
    BY <1>1, <1>3, <1>4 DEF Bound
  <1> QED
    BY <1>1, <1>5 DEF t

\* What two rows are joined to by a third, they are joined to by each other.
LEMMA JoinedOver ==
  ASSUME NEW a, NEW b, NEW c, R!Joined(a, c), R!Joined(b, c)
  PROVE  R!Joined(a, b)
  <1>1. PICK u \in SUBSET R!Rows : a \in u /\ c \in u /\ Bound(u)
    BY JoinedBy
  <1>2. PICK v \in SUBSET R!Rows : b \in v /\ c \in v /\ Bound(v)
    BY JoinedBy
  <1>3. ASSUME NEW t \in SUBSET (u \cup v), t # {}, t # u \cup v
        PROVE  \E x \in t, y \in (u \cup v) \ t : R!Twins(x, y)
    <2>1. CASE t \cap u # {} /\ t \cap u # u
      <3>1. \E x \in t \cap u, y \in u \ (t \cap u) : R!Twins(x, y)
        BY <1>1, <2>1 DEF Bound
      <3> QED
        BY <3>1
    <2>2. CASE t \cap v # {} /\ t \cap v # v
      <3>1. \E x \in t \cap v, y \in v \ (t \cap v) : R!Twins(x, y)
        BY <1>2, <2>2 DEF Bound
      <3> QED
        BY <3>1
    <2>3. ~((t \cap u = {} \/ t \cap u = u) /\ (t \cap v = {} \/ t \cap v = v))
      <3>1. c \in t \/ c \notin t
        OBVIOUS
      <3> QED
        BY <1>1, <1>2, <1>3
    <2> QED
      BY <2>1, <2>2, <2>3
  <1>4. Bound(u \cup v)
    BY <1>3 DEF Bound
  <1>5. u \cup v \in SUBSET R!Rows /\ a \in u \cup v /\ b \in u \cup v
    BY <1>1, <1>2
  <1> QED
    BY <1>4, <1>5, JoinedBy

\* The keeper is one of them: complete, if one is, and filed under its Message-ID, if one
\* that might be the keeper is.
LEMMA KeeperOf ==
  ASSUME NEW g \in SUBSET Nat, g # {}
  PROVE  LET k == R!_keeper_first(g) IN
         /\ k \in g
         /\ (\E r \in g : rows[r].status = "full") => rows[k].status = "full"
         /\ (\A r \in g : rows[r].status # "full") /\ (\E r \in g : rows[r].own) => rows[k].own
  <1> DEFINE full == {r \in g : rows[r].status = "full"}
             best == IF full = {} THEN g ELSE full
             own  == {r \in best : rows[r].own}
             pool == IF own = {} THEN best ELSE own
             k    == R!_keeper_first(g)
  <1>1. k = CHOOSE r \in pool : \A q \in pool : r <= q
    BY DEF R!_keeper_first
  <1>2. pool \in SUBSET Nat /\ pool # {} /\ pool \subseteq best /\ best \subseteq g
        /\ (own # {} => pool = own)
    OBVIOUS
  <1> HIDE DEF pool, k
  <1>3. k \in pool
    <2>1. \E r \in pool : \A q \in pool : r <= q
      BY <1>2, Least
    <2> QED
      BY <1>1, <2>1
  <1>4. k \in g /\ (full # {} => k \in full) /\ (own # {} => k \in own)
    BY <1>2, <1>3
  <1> QED
    BY <1>4 DEF k

\* The tool finds the twins.
LEMMA FindKeeps ==
  ASSUME RepairInv, R!find_duplicates
  PROVE  RepairInv'
  <1> DEFINE Class(g) == \E a \in g : g = {b \in R!Rows : R!Live(b) /\ R!Joined(a, b)}
  <1>1. PICK n \in Nat : rows = [i \in 1..n |-> rows[i]]
    BY DEF RepairInv, IsRows
  <1>2. \A h \in groups' : /\ h.all \subseteq R!Rows /\ Cardinality(h.all) > 1 /\ Class(h.all)
                           /\ h = [keeper |-> R!_keeper_first(h.all), all |-> h.all]
    BY RowCounts DEF R!find_duplicates
  <1>3. ASSUME NEW h \in groups' PROVE Sound(h, rows)
    <2> DEFINE g == h.all
               k == h.keeper
    <2>1. PICK a \in g : g = {b \in R!Rows : R!Live(b) /\ R!Joined(a, b)}
      BY <1>2, <1>3
    <2>2. \A b \in g : b \in DOMAIN rows /\ R!Live(b) /\ R!Joined(a, b)
      BY <2>1 DEF R!Rows
    <2>3. g \in SUBSET Nat /\ g # {} /\ k = R!_keeper_first(g)
      <3>1. h = [keeper |-> R!_keeper_first(h.all), all |-> h.all] /\ h.all \subseteq DOMAIN rows
        BY <1>2, <1>3 DEF R!Rows
      <3>2. h.keeper = R!_keeper_first(h.all)
        <4> DEFINE all == h.all
                   first == R!_keeper_first(all)
        <4>1. h = [keeper |-> first, all |-> all]
          BY <3>1
        <4> HIDE DEF all, first
        <4>2. h.keeper = first
          BY <4>1
        <4> QED
          BY <4>2 DEF first, all
      <3>3. DOMAIN rows \in SUBSET Nat
        BY <1>1
      <3> QED
        BY <2>1, <3>1, <3>2, <3>3
    <2>4. /\ k \in g
          /\ (\E r \in g : rows[r].status = "full") => rows[k].status = "full"
          /\ (\A r \in g : rows[r].status # "full") /\ (\E r \in g : rows[r].own) => rows[k].own
      BY <2>3, KeeperOf
    <2>5. \A r \in g : Letter(rows[r].bytes) = Letter(rows[k].bytes)
      <3>1. \A r \in g : Letter(rows[r].bytes) = Letter(rows[a].bytes)
        BY <2>2, OneLetter
      <3> QED
        BY <2>4, <3>1
    <2>6. ASSUME rows[k].status # "full"
          PROVE  rows[k].own /\ \A r \in g : rows[r].bytes = rows[k].bytes
      <3>1. \A r \in g : rows[r].status # "full"
        BY <2>4, <2>6
      <3>2. \A x \in R!Rows : R!Live(x) /\ R!Joined(a, x) => rows[x].status # "full"
        BY <2>1, <3>1
      <3>3. \A r \in g : rows[r].bytes = rows[a].bytes
        BY <2>2, <3>2, OneWriting
      <3>4. PICK r \in g : r # k
        <4>1. g # {k}
          <5>1. Cardinality({k}) = 1
            BY FS_Singleton
          <5>2. Cardinality(g) > 1
            BY <1>2, <1>3
          <5> QED
            BY <5>1, <5>2
        <4> QED
          BY <2>4, <4>1
      <3>5. rows[r].own \/ rows[k].own
        BY <2>2, <2>4, <3>3, <3>4 DEF RepairInv, OneKey, SameKey, R!Live, R!Rows
      <3> QED
        BY <2>4, <3>1, <3>3, <3>5
    <2> HIDE DEF g, k
    <2>7. k \in g /\ g \subseteq DOMAIN rows /\ \A r \in g : rows[r].status # "gone"
      BY <2>2, <2>4 DEF R!Live
    <2>8. Sound([keeper |-> k, all |-> g], rows)
      BY <2>4, <2>5, <2>6, <2>7 DEF Sound
    <2> QED
      BY <2>7, <2>4, <2>5, <2>6 DEF Sound, g, k
  <1>4. Disjoint(groups')
    <2> SUFFICES ASSUME NEW g \in groups', NEW h \in groups', NEW c \in g.all \cap h.all
                 PROVE  g = h
      BY DEF Disjoint
    <2>1. PICK a \in g.all : g.all = {b \in R!Rows : R!Live(b) /\ R!Joined(a, b)}
      BY <1>2
    <2>2. PICK d \in h.all : h.all = {b \in R!Rows : R!Live(b) /\ R!Joined(d, b)}
      BY <1>2
    <2>3. R!Joined(a, c) /\ R!Joined(d, c)
      BY <2>1, <2>2
    <2>4. R!Joined(a, d) /\ R!Joined(d, a)
      BY <2>3, JoinedOver
    <2>5. ASSUME NEW b PROVE R!Joined(a, b) <=> R!Joined(d, b)
      <3>1. \A x, y : R!Joined(x, y) <=> R!Joined(y, x)
        BY DEF R!Joined
      <3> QED
        BY <2>4, <3>1, JoinedOver
    <2>6. g.all = h.all
      BY <2>1, <2>2, <2>5
    <2> QED
      BY <1>2, <2>6
  <1>5. rows' = rows /\ pc' = "merge"
    BY DEF R!find_duplicates, R!mail
  <1> QED
    BY <1>3, <1>4, <1>5 DEF RepairInv

\* The walk fills a row, or adds one; what the tool has read of the others stands.
LEMMA WalkKeeps ==
  ASSUME RepairInv, NEW c, R!Walk(c)
  PROVE  RepairInv' /\ \A r \in R!Rows : R!Live(r) => rows'[r].status # "gone"
  <1>1. PICK n \in Nat : rows = [i \in 1..n |-> rows[i]]
    BY DEF RepairInv, IsRows
  <1>2. DOMAIN rows = 1..n
    BY <1>1
  <1>3. CASE R!Holding(c.bytes) = {}
    <2> DEFINE e == [bytes |-> c.bytes, status |-> "full",
                     own |-> ~\E r \in R!Rows : R!Live(r) /\ rows[r].own]
    <2>1. rows' = Append(rows, e)
      BY <1>3 DEF R!Walk
    <2>2. /\ IsRow(e) /\ e.bytes = c.bytes /\ e.status = "full"
          /\ e.own <=> ~\E r \in R!Rows : R!Live(r) /\ rows[r].own
      BY DEF IsRow
    <2>3. \A r \in 1..n : R!Live(r) => rows[r].bytes # c.bytes
      BY <1>2, <1>3 DEF R!Holding, R!Rows
    <2> HIDE DEF e
    <2>4. rows' = [i \in 1..(n+1) |-> IF i = n + 1 THEN e ELSE rows[i]]
      BY <1>1, <2>1, Appended
    <2>5. DOMAIN rows' = 1..(n+1) /\ rows' = [i \in 1..(n+1) |-> rows'[i]]
      BY <2>4
    <2>6. rows'[n+1] = e /\ \A i \in 1..n : rows'[i] = rows[i]
      BY <2>4
    <2>7. IsRows(rows')
      <3>1. \A i \in 1..n : IsRow(rows'[i])
        BY <1>2, <2>6 DEF RepairInv, IsRows
      <3>2. \A i \in 1..(n+1) : i \in 1..n \/ i = n + 1
        OBVIOUS
      <3>3. \A i \in 1..(n+1) : IsRow(rows'[i])
        BY <2>2, <2>6, <3>1, <3>2
      <3> QED
        BY <2>5, <3>3 DEF IsRows
    <2>8. OneKey(rows')
      <3>1. \A a \in 1..n : rows[a].status # "gone" => ~SameKey(rows[a], e) /\ ~SameKey(e, rows[a])
        BY <1>2, <2>2, <2>3 DEF SameKey, R!Live, R!Rows
      <3>2. \A a, b \in 1..n : a # b /\ rows[a].status # "gone" /\ rows[b].status # "gone"
                => ~SameKey(rows[a], rows[b])
        BY <1>2 DEF RepairInv, OneKey
      <3> QED
        BY <2>5, <2>6, <3>1, <3>2 DEF OneKey
    <2>9. \A g \in groups : Sound(g, rows')
      BY <1>2, <2>5, <2>6 DEF RepairInv, Sound
    <2> QED
      BY <1>2, <2>6, <2>7, <2>8, <2>9 DEF RepairInv, R!Walk, R!Rows, R!Live
  <1>4. CASE \E r \in R!Holding(c.bytes) : rows' = [rows EXCEPT ![r].status = "full"]
    <2>1. PICK h \in R!Holding(c.bytes) : rows' = [rows EXCEPT ![h].status = "full"]
      BY <1>4
    <2>2. h \in 1..n /\ R!Live(h) /\ rows[h].bytes = c.bytes
      BY <1>2 DEF R!Holding, R!Rows
    <2>3. rows'[h] = [rows[h] EXCEPT !.status = "full"] /\ IsRow(rows[h])
      BY <1>1, <1>2, <2>1, <2>2 DEF RepairInv, IsRows
    <2>4. /\ IsRow(rows'[h]) /\ rows'[h].status = "full" /\ rows'[h].bytes = rows[h].bytes
          /\ rows'[h].own = rows[h].own
      BY <2>3 DEF IsRow
    <2>5. rows' = [i \in 1..n |-> rows'[i]] /\ \A i \in 1..n : i # h => rows'[i] = rows[i]
      BY <1>1, <2>1
    <2>6. DOMAIN rows' = 1..n
      BY <2>5
    <2>7. IsRows(rows')
      BY <1>2, <2>4, <2>5, <2>6 DEF RepairInv, IsRows
    <2>8. \A i \in 1..n : /\ rows'[i].bytes = rows[i].bytes /\ rows'[i].own = rows[i].own
                          /\ rows'[i].status = "gone" <=> rows[i].status = "gone"
                          /\ rows[i].status = "full" => rows'[i].status = "full"
      BY <2>2, <2>4, <2>5 DEF R!Live
    <2>9. OneKey(rows')
      BY <1>2, <2>6, <2>8 DEF RepairInv, OneKey, SameKey
    <2>10. ASSUME NEW g \in groups PROVE Sound(g, rows')
      <3>1. Sound(g, rows)
        BY DEF RepairInv
      <3>2. rows[g.keeper].status # "full" /\ h \in g.all => h = g.keeper
        <4> SUFFICES ASSUME rows[g.keeper].status # "full", h \in g.all PROVE h = g.keeper
          OBVIOUS
        <4>1. /\ rows[g.keeper].own /\ rows[g.keeper].bytes = c.bytes /\ g.keeper \in R!Rows
              /\ R!Live(g.keeper)
          BY <2>2, <3>1 DEF Sound, R!Rows, R!Live
        <4>2. rows[h].own
          BY <4>1 DEF R!Holding
        <4> QED
          BY <1>2, <2>2, <4>1, <4>2 DEF RepairInv, OneKey, SameKey, R!Live, R!Rows
      <3>3. g.keeper \in 1..n /\ g.all \subseteq 1..n
        BY <1>2, <3>1 DEF Sound
      <3>4. \A r \in g.all : rows'[r].status = "full" => rows'[g.keeper].status = "full"
        <4>1. CASE rows[g.keeper].status = "full"
          BY <2>8, <3>3, <4>1
        <4>2. CASE rows[g.keeper].status # "full"
          BY <2>4, <2>5, <3>1, <3>2, <3>3, <4>2 DEF Sound
        <4> QED
          BY <4>1, <4>2
      <3>5. rows'[g.keeper].status # "full" => rows[g.keeper].status # "full"
        BY <2>8, <3>3
      <3> QED
        BY <2>6, <2>8, <3>1, <3>3, <3>4, <3>5 DEF Sound
    <2> QED
      BY <1>2, <2>7, <2>8, <2>9, <2>10 DEF RepairInv, R!Walk, R!Rows, R!Live
  <1> QED
    BY <1>3, <1>4 DEF R!Walk

\* Rows that go leave keys behind.
LEMMA GoneKeeps ==
  ASSUME IsRows(rows), OneKey(rows), NEW X \in SUBSET DOMAIN rows, NEW w,
         w = [r \in DOMAIN rows |-> IF r \in X THEN [rows[r] EXCEPT !.status = "gone"] ELSE rows[r]]
  PROVE  IsRows(w) /\ OneKey(w)
  <1>1. PICK n \in Nat : rows = [i \in 1..n |-> rows[i]]
    BY DEF IsRows
  <1>2. DOMAIN rows = 1..n
    BY <1>1
  <1>3. DOMAIN w = 1..n /\ w = [i \in 1..n |-> w[i]]
    BY <1>2
  <1>4. ASSUME NEW i \in 1..n
        PROVE  IsRow(w[i]) /\ (w[i].status # "gone" => w[i] = rows[i])
    <2>1. IsRow(rows[i])
      BY <1>2 DEF IsRows
    <2>2. CASE i \in X
      <3>1. w[i] = [rows[i] EXCEPT !.status = "gone"]
        BY <1>2, <2>2
      <3>2. w[i].status = "gone" /\ IsRow(w[i])
        BY <2>1, <3>1 DEF IsRow
      <3> QED
        BY <3>2
    <2>3. CASE i \notin X
      BY <1>2, <2>1, <2>3
    <2> QED
      BY <2>2, <2>3
  <1>5. IsRows(w)
    BY <1>3, <1>4 DEF IsRows
  <1>6. OneKey(w)
    BY <1>2, <1>3, <1>4 DEF OneKey
  <1> QED
    BY <1>5, <1>6

\* A set of twins is merged into its keeper, or left alone.
LEMMA MergeKeeps ==
  ASSUME RepairInv, NEW g \in groups, R!merge(g)
  PROVE  RepairInv' /\ R!Replaces
  <1>1. groups' \subseteq groups /\ pc' = pc /\ Disjoint(groups')
    BY DEF R!merge, RepairInv, Disjoint
  <1>2. pc' # "merge" => groups' = {}
    BY DEF R!merge
  <1>3. CASE rows' = rows
    BY <1>1, <1>2, <1>3 DEF RepairInv, R!Replaces, R!Live
  <1>4. CASE rows' # rows
    <2> DEFINE k == g.keeper
    <2>1. /\ ~R!_busy(g.all)
          /\ loc' = {p \in loc : p.row \notin g.all} \cup R!Folded(g)
          /\ rows' = [r \in DOMAIN rows |-> IF r \in g.all \ {k}
                                     THEN [rows[r] EXCEPT !.status = "gone"] ELSE rows[r]]
      BY <1>4 DEF R!merge, R!mail, R!Rows
    <2>2. Sound(g, rows)
      BY DEF RepairInv
    <2>3. IsRows(rows') /\ OneKey(rows')
      <3>1. g.all \ {k} \in SUBSET DOMAIN rows
        BY <2>2 DEF Sound
      <3> QED
        BY <2>1, <3>1, GoneKeeps DEF RepairInv
    <2>4. DOMAIN rows' = DOMAIN rows /\ \A r \in DOMAIN rows : r \notin g.all \ {k} => rows'[r] = rows[r]
      BY <2>1
    <2>5. ASSUME NEW h \in groups' PROVE Sound(h, rows')
      <3>1. h \in groups /\ h # g
        BY DEF R!merge
      <3>2. Sound(h, rows) /\ h.all \cap g.all = {}
        BY <3>1 DEF RepairInv, Disjoint
      <3>3. rows'[h.keeper] = rows[h.keeper] /\ \A r \in h.all : rows'[r] = rows[r]
        BY <2>4, <3>2 DEF Sound
      <3> QED
        BY <2>4, <3>2, <3>3 DEF Sound
    <2>6. RepairInv'
      BY <1>1, <1>2, <2>3, <2>5 DEF RepairInv
    <2>7. ASSUME NEW r \in R!Rows, R!Live(r), ~R!Live(r)' PROVE R!Replaced(r)
      <3>1. r \in g.all \ {k}
        BY <2>4, <2>7 DEF R!Rows, R!Live
      <3>2. ~R!_busy({r})
        BY <2>1, <3>1 DEF R!_busy
      <3>3. k \in R!Rows \ {r} /\ rows'[k] = rows[k] /\ k \in g.all
        BY <2>2, <2>4, <3>1 DEF Sound, R!Rows
      <3>4. R!Live(k)' /\ Letter(rows[k].bytes) = Letter(rows[r].bytes)
            /\ (rows[r].status = "full" => rows'[k].status = "full")
        BY <2>2, <3>1, <3>3 DEF Sound, R!Live
      <3>5. \A p \in R!Real(r) : [p EXCEPT !.row = k] \in loc'
        BY <2>1, <3>1 DEF R!Real, R!Folded
      <3> QED
        BY <3>2, <3>3, <3>4, <3>5 DEF R!Replaced
    <2> QED
      BY <2>6, <2>7 DEF R!Replaces
  <1> QED
    BY <1>3, <1>4

\* A row no folder holds the mail of is deleted, unless something has changed.
LEMMA ForgottenKeeps ==
  ASSUME RepairInv, R!Forgotten
  PROVE  RepairInv' /\ R!Replaces
  <1>1. groups = {} /\ groups' = {}
    BY DEF R!Forgotten, RepairInv
  <1>2. CASE rows' = rows
    BY <1>1, <1>2 DEF RepairInv, Disjoint, R!Replaces, R!Live
  <1>3. CASE rows' # rows
    <2> DEFINE q == asking.row
    <2>1. /\ ~R!Changed(q) /\ backup' = backup \cup {Letter(rows[q].bytes)}
          /\ rows' = [rows EXCEPT ![q].status = "gone"]
      BY <1>3 DEF R!Forgotten
    <2>2. PICK n \in Nat : rows = [i \in 1..n |-> rows[i]]
      BY DEF RepairInv, IsRows
    <2>3. rows' = [r \in DOMAIN rows |-> IF r \in {q} \cap DOMAIN rows
                                     THEN [rows[r] EXCEPT !.status = "gone"] ELSE rows[r]]
      BY <2>1, <2>2
    <2>4. IsRows(rows') /\ OneKey(rows')
      <3>1. {q} \cap DOMAIN rows \in SUBSET DOMAIN rows
        OBVIOUS
      <3> QED
        BY <2>3, <3>1, GoneKeeps DEF RepairInv
    <2>5. \A r \in DOMAIN rows : r # q => rows'[r] = rows[r]
      BY <2>3
    <2>6. ASSUME NEW r \in R!Rows, R!Live(r), ~R!Live(r)' PROVE R!Replaced(r)
      <3>1. r = q
        BY <2>5, <2>6 DEF R!Rows, R!Live
      <3> QED
        BY <2>1, <3>1 DEF R!Replaced, R!Changed
    <2> QED
      BY <1>1, <2>4, <2>6 DEF RepairInv, Disjoint, R!Replaces
  <1> QED
    BY <1>2, <1>3

\* Every step keeps it, and accounts for the rows that go.
LEMMA RepairNext == RepairInv /\ [R!Next]_R!vars => RepairInv' /\ R!Replaces
  <1> SUFFICES ASSUME RepairInv, [R!Next]_R!vars PROVE RepairInv' /\ R!Replaces
    OBVIOUS
  <1>1. CASE UNCHANGED <<rows, groups>> /\ (pc' = "merge" \/ pc' = pc \/ groups = {})
    BY <1>1 DEF RepairInv, R!Replaces, R!Live
  <1>2. CASE R!find_duplicates
    <2>1. rows' = rows
      BY <1>2 DEF R!find_duplicates, R!mail
    <2> QED
      BY <1>2, <2>1, FindKeeps DEF R!Replaces, R!Live
  <1>3. CASE \E g \in groups : R!merge(g)
    BY <1>3, MergeKeeps
  <1>4. CASE R!Forgotten
    BY <1>4, ForgottenKeeps
  <1>5. CASE \E c \in copies : R!Walk(c)
    BY <1>5, WalkKeeps DEF R!Replaces, R!Live
  <1>6. CASE \/ R!find_placeholders \/ (\E p \in besides : R!drop(p)) \/ R!Dropped
             \/ (\E n \in nowhere : R!forget(n)) \/ (\E f \in RepairFolder : R!Ask(f)) \/ R!Doubt
    <2>1. UNCHANGED <<rows, groups>> /\ groups = {}
      BY <1>6 DEF R!find_placeholders, R!drop, R!Dropped, R!forget, R!Ask, R!Doubt, R!Spared, R!mail,
                  RepairInv
    <2> QED
      BY <1>1, <2>1
  <1>7. CASE \/ R!Fires \/ R!Day \/ UNCHANGED R!vars
             \/ \E p \in loc, g \in RepairFolder : R!Press(p, g) \/ R!Refile(p, g)
             \/ \E r \in R!Rows : R!Remind(r)
             \/ \E a \in queue : R!Apply(a)
             \/ \E c \in copies : R!Elsewhere(c)
             \/ \E p \in loc : R!Vanish(p)
    <2>1. UNCHANGED <<rows, groups, pc>>
      BY <1>7 DEF R!Fires, R!Day, R!vars, R!Press, R!Refile, R!Remind, R!Apply, R!Elsewhere, R!Vanish,
                  R!mail, R!tool
    <2> QED
      BY <1>1, <2>1
  <1> QED
    BY <1>2, <1>3, <1>4, <1>5, <1>6, <1>7 DEF R!Next, R!Tool

\* A row the repair tool takes out is nothing's to wait on, whenever that began; its mail
\* stays, as complete as it was, in the row that takes its place or in the backup, and
\* every placement the server confirmed is on that row (_keeper_first, merge, forget).
THEOREM RowsAccounted == ASSUME RepairConstants PROVE MailboxSpec => Accounted
  <1> DEFINE Inv == part = "repair" => RepairInv
  <1>1. MailboxInit => Inv
    <2>1. R!Init => RepairInv
      BY DEF R!Init, RepairInv, RepairConstants, Disjoint
    <2> QED
      BY <2>1 DEF MailboxInit
  <1>2. Inv /\ [MailboxNext]_mailboxVars => Inv' /\ (part = "repair" => R!Replaces)
    BY PartSteps, RepairNext
  <1>3. Inv /\ [MailboxNext]_mailboxVars => [part = "repair" => R!Replaces]_mailboxVars
    BY <1>2
  <1> QED
    BY <1>1, <1>2, <1>3, PTL DEF MailboxSpec, Accounted
=============================================================================
