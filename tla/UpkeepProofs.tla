---------------------------- MODULE UpkeepProofs ----------------------------
(***************************************************************************)
(* What holds of the parts that store mail and serve it, for every value   *)
(* of their constants: that no request goes by a verdict older than its    *)
(* TTL, that keyword search may trust its index once it does, that a       *)
(* settings row keeps what AtomicSettings promises, that no attachment is  *)
(* given up for what another did to Tika, that a search finds a message by *)
(* the attachments whose text it has, and that an underline stands under   *)
(* the units the checker meant.                                            *)
(*                                                                         *)
(* Two of them go through what is computed step by step, the rows of a     *)
(* message that is stored again and the text a draft's paragraphs make.    *)
(* The library states induction of a predicate, which cannot be cited      *)
(* here; Induct is induction of a set, from the least element of what the  *)
(* set leaves out.                                                         *)
(***************************************************************************)
EXTENDS MCUpkeep, FiniteSetTheorems, WellFoundedInduction, TLAPS

----------------------------------------------------------------------------
\* A step of the whole is a step of the part that runs, which it does for good; the
\* settings row is changed by its own part alone.
LEMMA PartSteps ==
  ASSUME [UpkeepNext]_upkeepVars
  PROVE  /\ part' = part
         /\ [Q!Next]_Q!vars
         /\ part = "indexer"  => [I!Next]_I!vars
         /\ part = "guard"    => [G!Next]_G!vars
         /\ part = "segments" => [M!Next]_M!vars
         /\ part = "backfill" => [B!Next]_B!vars
  <1>1. CASE UpkeepNext
    BY <1>1 DEF UpkeepNext, settingsVars, Q!vars
  <1>2. CASE UNCHANGED upkeepVars
    BY <1>2 DEF upkeepVars, settingsVars, indexerVars, guardVars, segmentVars, backfillVars,
                Q!vars, I!vars, I!rows, G!vars, M!vars, B!vars, B!columns
  <1> QED
    BY <1>1, <1>2

----------------------------------------------------------------------------
TTLs == GUARD_TTL \in Nat \ {0} /\ UNRESOLVED_TTL \in Nat \ {0}

Asking == [at : {"idle", "lookup", "store", "decided"}, now : Nat, verdict : G!Verdict]

GuardType ==
    /\ clock \in Nat /\ dns \in G!Verdict /\ true_at \in [G!Verdict -> Int]
    /\ cache \in [until : Nat, verdict : G!Verdict]
    /\ thread \in [Thread -> Asking]

\* What the host resolves to is the truth now, and nothing was the truth later.
TruthIsNow == true_at[dns] = clock /\ \A v \in G!Verdict : true_at[v] <= clock

\* Nobody looks in the future, and what was looked up was so when it was, or later.
LookedUp ==
    \A t \in Thread : /\ thread[t].now <= clock
                      /\ thread[t].at = "store" => true_at[thread[t].verdict] >= thread[t].now

\* A verdict that is kept was so no longer before it expires than its TTL.
KeptInTime == cache.until > 0 => true_at[cache.verdict] >= cache.until - G!TTL(cache.verdict)

GuardInv == GuardType /\ TruthIsNow /\ LookedUp /\ KeptInTime /\ G!FreshVerdict

\* Nothing is kept, and nobody has asked.
LEMMA GuardInvInit == TTLs /\ G!Init => GuardInv
  BY DEF G!Init, GuardInv, GuardType, TruthIsNow, LookedUp, KeptInTime, G!FreshVerdict, TTLs, G!TTL,
         G!Idle, Asking, G!Verdict

\* A TTL is a positive number.
LEMMA TTLType == ASSUME TTLs, NEW v PROVE G!TTL(v) \in Nat \ {0}
  BY DEF TTLs, G!TTL

\* A thread's step moves no clock and no truth: only what it decides by is in question,
\* and what it leaves in the cache.
LEMMA ThreadKeeps ==
  ASSUME TTLs, GuardInv, NEW t \in Thread, G!Ask(t) \/ G!Lookup(t) \/ G!Store(t) \/ G!Done(t)
  PROVE  GuardInv'
  <1> USE TTLType DEF GuardInv
  <1>1. CASE G!Ask(t)
    <2>1. CASE cache.until > clock /\ G!Set(t, [at |-> "decided", now |-> clock, verdict |-> cache.verdict])
      BY <1>1, <2>1 DEF G!Ask, G!Set, GuardType, Asking, TruthIsNow, LookedUp, KeptInTime, G!FreshVerdict
    <2>2. CASE cache.until <= clock /\ G!Set(t, [G!Idle EXCEPT !.at = "lookup", !.now = clock])
      BY <1>1, <2>2 DEF G!Ask, G!Set, G!Idle, G!Verdict, GuardType, Asking, TruthIsNow, LookedUp, KeptInTime,
                        G!FreshVerdict
    <2> QED
      BY <1>1, <2>1, <2>2 DEF G!Ask
  <1>2. CASE G!Lookup(t)
    BY <1>2 DEF G!Lookup, G!Set, GuardType, Asking, TruthIsNow, LookedUp, KeptInTime, G!FreshVerdict
  <1>3. CASE G!Store(t)
    BY <1>3 DEF G!Store, G!expires, G!Set, GuardType, Asking, TruthIsNow, LookedUp, KeptInTime, G!FreshVerdict
  <1>4. CASE G!Done(t)
    BY <1>4 DEF G!Done, G!Set, G!Idle, G!Verdict, GuardType, Asking, TruthIsNow, LookedUp, KeptInTime,
                G!FreshVerdict
  <1> QED
    BY <1>1, <1>2, <1>3, <1>4

\* The clock and the host only make verdicts true later than they were.
LEMMA WorldKeeps ==
  ASSUME TTLs, GuardInv, G!Tick \/ \E v \in G!Verdict : G!Move(v)
  PROVE  GuardInv'
  <1> USE TTLType DEF GuardInv
  <1>1. \A v \in G!Verdict : true_at'[v] \in Int /\ true_at'[v] >= true_at[v]
    BY DEF G!Tick, G!Move, GuardType, TruthIsNow
  <1>2. GuardType' /\ TruthIsNow' /\ clock' >= clock /\ UNCHANGED <<cache, thread>>
    BY DEF G!Tick, G!Move, GuardType, TruthIsNow
  <1>3. LookedUp' /\ KeptInTime' /\ G!FreshVerdict'
    BY <1>1, <1>2 DEF GuardType, Asking, LookedUp, KeptInTime, G!FreshVerdict
  <1> QED
    BY <1>2, <1>3

\* Every step keeps the verdicts in time.
LEMMA GuardInvNext == TTLs /\ GuardInv /\ [G!Next]_G!vars => GuardInv'
  BY ThreadKeeps, WorldKeeps
     DEF G!Next, G!vars, GuardInv, GuardType, TruthIsNow, LookedUp, KeptInTime, G!FreshVerdict, G!TTL

\* Whatever a request goes by was so less than its TTL before it looked, or later, however
\* slow lookups are and however the threads' lookups overtake each other (_guard).
THEOREM VerdictsFresh == ASSUME TTLs PROVE UpkeepSpec => []FreshVerdict
  <1> DEFINE Inv == part = "guard" => GuardInv
  <1>1. UpkeepInit => Inv
    BY GuardInvInit DEF UpkeepInit
  <1>2. Inv /\ [UpkeepNext]_upkeepVars => Inv'
    BY PartSteps, GuardInvNext
  <1>3. Inv => FreshVerdict
    BY DEF GuardInv, FreshVerdict
  <1> QED
    BY <1>1, <1>2, <1>3, PTL DEF UpkeepSpec


----------------------------------------------------------------------------
Columns ==
    /\ content = [m \in Message |-> content[m]]
    /\ search_tsv = [m \in Message |-> search_tsv[m]]

\* A column says what the text says now, or nothing.
NeverStale == \A m \in B!Rows : search_tsv[m] \in {content[m], B!NULL}

\* The trigger is there before anybody asks whether the index is built.
ReadyLast == ready => migrated

IndexInv == Columns /\ NeverStale /\ ReadyLast /\ B!IndexHonest

\* Before the migration no column says anything and nobody asks.
LEMMA IndexInvInit == B!Init => IndexInv
  BY DEF B!Init, IndexInv, Columns, NeverStale, ReadyLast, B!IndexHonest, B!Rows

\* What is stored goes to the column in the same statement, from the migration on.
LEMMA ColumnsStored ==
  ASSUME IndexInv, NEW m \in Message, NEW v, B!Stored(m, v), UNCHANGED <<migrated, ready>>
  PROVE  IndexInv'
  <1> USE DEF IndexInv, Columns, B!Stored, B!trg_messages_search_tsv
  <1>1. Columns'
    OBVIOUS
  <1>2. NeverStale'
    BY DEF NeverStale, B!Rows
  <1>3. ReadyLast'
    BY DEF ReadyLast
  <1>4. B!IndexHonest'
    BY DEF ReadyLast, B!IndexHonest, B!Rows
  <1> QED
    BY <1>1, <1>2, <1>3, <1>4

\* What the columns and the latch do not depend on.
LEMMA ColumnsElsewhere ==
  ASSUME IndexInv, UNCHANGED <<content, search_tsv>>, migrated => migrated', ready' => ready
  PROVE  IndexInv'
  BY DEF IndexInv, Columns, NeverStale, ReadyLast, B!IndexHonest, B!Rows

\* Every step of upgrade, backfill and storing keeps the columns true.
LEMMA IndexInvNext == IndexInv /\ [B!Next]_B!vars => IndexInv'
  <1> SUFFICES ASSUME IndexInv, [B!Next]_B!vars PROVE IndexInv'
    OBVIOUS
  <1>1. CASE B!init_db \/ B!Upgraded \/ B!PickIndex \/ B!IndexFails
    BY <1>1, ColumnsElsewhere DEF B!init_db, B!Upgraded, B!PickIndex, B!IndexFails, B!columns
  <1>2. CASE B!ReadBodies \/ B!PrintBodies \/ B!PrintsFail \/ B!RestartServer
    BY <1>2, ColumnsElsewhere DEF B!ReadBodies, B!PrintBodies, B!PrintsFail, B!RestartServer, B!columns
  <1>3. CASE B!build_batch
    BY <1>3 DEF B!build_batch, B!from_column, IndexInv, Columns, NeverStale, ReadyLast, B!IndexHonest, B!Rows
  <1>4. CASE B!_index_built
    BY <1>4 DEF B!_index_built, B!columns, B!Owed, IndexInv, Columns, NeverStale, ReadyLast, B!IndexHonest, B!Rows
  <1>5. ASSUME NEW m \in Message, B!Store(m) PROVE IndexInv'
    BY <1>5, ColumnsStored DEF B!Store
  <1>6. ASSUME NEW m \in Message, B!Rewrite(m) PROVE IndexInv'
    BY <1>6, ColumnsStored DEF B!Rewrite
  <1>7. ASSUME NEW m \in Message, B!Remove(m) PROVE IndexInv'
    BY <1>7 DEF B!Remove, IndexInv, Columns, NeverStale, ReadyLast, B!IndexHonest, B!Rows
  <1>8. CASE UNCHANGED B!vars
    BY <1>8, ColumnsElsewhere DEF B!vars, B!columns
  <1> QED
    BY <1>1, <1>2, <1>3, <1>4, <1>5, <1>6, <1>7, <1>8 DEF B!Next

\* Once _index_built has said yes, every message is found by what its text says now: the
\* latch never has to be taken back, however backfill, rewrites and restarts overlap.
THEOREM IndexTrusted == UpkeepSpec => []IndexHonest
  <1> DEFINE Inv == part = "backfill" => IndexInv
  <1>1. UpkeepInit => Inv
    BY IndexInvInit DEF UpkeepInit
  <1>2. Inv /\ [UpkeepNext]_upkeepVars => Inv'
    BY PartSteps, IndexInvNext
  <1>3. Inv => IndexHonest
    BY DEF IndexInv, IndexHonest
  <1> QED
    BY <1>1, <1>2, <1>3, PTL DEF UpkeepSpec


----------------------------------------------------------------------------
\* What is asked of the constants: requests of the three kinds, and room for a word.
Requests ==
    /\ MaxWords \in Nat \ {0}
    /\ \A q \in Request : Op(q).kind \in {"ignore", "put", "enable"}

\* A row has the two fields.
IsValue(v) == v = [enabled |-> v.enabled, words |-> v.words]

Steps   == {"first", "read", "again", "reread", "done"}
Answers == {"none", "ok", "refused", "error"}

RowType ==
    /\ row = {} \/ \E v : IsValue(v) /\ row = {v}
    /\ at \in [Request -> Steps] /\ reply \in [Request -> Answers]
    /\ read = [q \in Request |-> read[q]]

Holds(q) == at[q] \in {"read", "reread"}

\* Whoever has read a row holds it and has read it as it is.
ReadIsCurrent == \A q \in Request : Holds(q) /\ read[q] # {} => lock = {q} /\ read[q] = row

\* Whoever lost the race to insert finds the row the second time.
SecondTimeFinds ==
    \A q \in Request : /\ at[q] \in {"again", "reread"} => row # {}
                       /\ at[q] = "reread" => read[q] # {}

AnsweredAtTheEnd == \A q \in Request : reply[q] = "none" <=> at[q] # "done"

RowInv == RowType /\ ReadIsCurrent /\ SecondTimeFinds /\ AnsweredAtTheEnd

----------------------------------------------------------------------------
\* What each kind of request makes of a row.
LEMMA Kinds ==
  ASSUME NEW q \in Request, NEW v, IsValue(v)
  PROVE  /\ Op(q).kind = "ignore" =>
              Q!Change(q, v) = [enabled |-> v.enabled, words |-> Q!AddWord(v, Op(q).word)]
         /\ Op(q).kind = "put" => Q!Change(q, v) = [enabled |-> v.enabled, words |-> Op(q).words]
         /\ Op(q).kind = "enable" => Q!Change(q, v) = [enabled |-> Op(q).on, words |-> v.words]
  <1>1. CASE Op(q).kind = "ignore"
    <2>1. Q!Change(q, v) = [v EXCEPT !.words = Q!AddWord(v, Op(q).word)]
      BY <1>1, Zenon DEF Q!Change, Q!merge
    <2> QED
      BY <1>1, <2>1 DEF IsValue
  <1>2. CASE Op(q).kind = "put"
    <2>1. Q!Change(q, v) = [v EXCEPT !.words = Op(q).words]
      BY <1>2, Zenon DEF Q!Change, Q!merge
    <2> QED
      BY <1>2, <2>1 DEF IsValue
  <1>3. CASE Op(q).kind = "enable"
    <2>1. Q!Change(q, v) = [v EXCEPT !.enabled = Op(q).on]
      BY <1>3, Zenon DEF Q!Change, Q!merge
    <2> QED
      BY <1>3, <2>1 DEF IsValue
  <1> QED
    BY <1>1, <1>2, <1>3

\* A change leaves the two fields.
LEMMA ChangedIsValue ==
  ASSUME Requests, NEW q \in Request, NEW v, IsValue(v)
  PROVE  IsValue(Q!Change(q, v))
  BY Kinds DEF Requests, IsValue

\* parse_stored gives a value with the two fields.
LEMMA ParsedIsValue == RowInv => IsValue(Q!parse_stored(row))
  BY DEF RowInv, RowType, Q!parse_stored, IsValue, Q!Default

----------------------------------------------------------------------------
\* Nobody has read anything yet.
LEMMA RowInvInit == Q!Init => RowInv
  BY DEF Q!Init, RowInv, RowType, ReadIsCurrent, SecondTimeFinds, AnsweredAtTheEnd, Holds,
         Steps, Answers

\* Reading keeps the invariant: a row that is there is read only when nobody holds it.
LEMMA ReadKeeps ==
  ASSUME RowInv, NEW q \in Request, Q!Read(q)
  PROVE  RowInv'
  <1> USE DEF RowInv, Q!Read, Q!for_update
  <1>1. RowType'
    BY DEF RowType, Steps
  <1>2. ReadIsCurrent'
    BY DEF RowType, ReadIsCurrent, Holds
  <1>3. SecondTimeFinds'
    BY DEF RowType, SecondTimeFinds
  <1>4. AnsweredAtTheEnd'
    BY DEF RowType, AnsweredAtTheEnd
  <1> QED
    BY <1>1, <1>2, <1>3, <1>4

\* Writing keeps it: the row changes only under its holder, or from nothing, when
\* nobody can have read anything.
LEMMA WriteKeeps ==
  ASSUME Requests, RowInv, NEW q \in Request, Q!Write(q)
  PROVE  RowInv'
  <1> USE DEF RowInv, Q!Write, Q!Told
  <1>1. RowType'
    <2>1. IsValue(Q!Change(q, Q!parse_stored(read[q])))
      <3>1. read[q] = {} \/ read[q] = row
        BY DEF ReadIsCurrent, Holds
      <3>2. IsValue(Q!parse_stored(read[q]))
        BY <3>1, ParsedIsValue DEF Q!parse_stored, IsValue, Q!Default
      <3> QED
        BY <3>2, ChangedIsValue
    <2>2. row' = {} \/ \E v : IsValue(v) /\ row' = {v}
      BY <2>1 DEF RowType
    <2> QED
      BY <2>2 DEF RowType, Steps, Answers
  <1>2. ReadIsCurrent'
    <2> SUFFICES ASSUME NEW p \in Request, Holds(p)', read'[p] # {}
                 PROVE  lock' = {p} /\ read'[p] = row'
      BY DEF ReadIsCurrent
    <2>1. p # q
      BY DEF RowType, Holds
    <2>2. lock = {p} /\ read[p] = row
      BY <2>1 DEF RowType, ReadIsCurrent, Holds
    <2>3. UNCHANGED row
      BY <2>1, <2>2 DEF ReadIsCurrent, Holds
    <2> QED
      BY <2>1, <2>2, <2>3
  <1>3. SecondTimeFinds'
    BY DEF RowType, SecondTimeFinds
  <1>4. AnsweredAtTheEnd'
    BY DEF RowType, AnsweredAtTheEnd, SecondTimeFinds
  <1> QED
    BY <1>1, <1>2, <1>3, <1>4

----------------------------------------------------------------------------
\* SettingsRow counts as everybody does.
LEMMA Counted == ASSUME NEW S PROVE Q!Cardinality(S) = Cardinality(S)
  BY DEF Q!Cardinality, Cardinality

\* What no row may become, no row at all may become: a first word fits, turning the
\* checker off adds none, and a list that is put is as long whatever was there.
LEMMA RefusedFromNothing ==
  ASSUME Requests, NEW q \in Request, NEW v, IsValue(v), Q!Refuses(q, Q!Default)
  PROVE  Q!Refuses(q, v)
  <1>0. IsValue(Q!Default)
    BY DEF IsValue, Q!Default
  <1>1. CASE Op(q).kind = "ignore"
    <2>1. Q!Change(q, Q!Default).words = {Op(q).word}
      BY <1>0, <1>1, Kinds DEF Q!AddWord, Q!Default
    <2>2. Cardinality({Op(q).word}) = 1
      BY FS_Singleton
    <2> QED
      BY <2>1, <2>2, Counted DEF Q!Refuses, Requests
  <1>2. CASE Op(q).kind = "enable"
    <2>1. Q!Change(q, Q!Default).words = {}
      BY <1>0, <1>2, Kinds DEF Q!Default
    <2> QED
      BY <2>1, FS_EmptySet, Counted DEF Q!Refuses, Requests
  <1>3. CASE Op(q).kind = "put"
    <2>1. Q!Change(q, Q!Default).words = Q!Change(q, v).words
      BY <1>0, <1>3, Kinds
    <2> QED
      BY <2>1 DEF Q!Refuses
  <1> QED
    BY <1>1, <1>2, <1>3 DEF Requests

\* No row reads as the defaults.
LEMMA InitImplements == Q!Init => Q!Atomic!Init
  BY DEF Q!Init, Q!Atomic!Init, Q!parse_stored

\* A commit answers a request from what the row is then; a lost insert answers nothing.
LEMMA WriteImplements ==
  ASSUME Requests, RowInv, NEW q \in Request, Q!Write(q)
  PROVE  Q!Atomic!Answer(q) \/ UNCHANGED <<Q!parse_stored(row), reply>>
  <1> DEFINE v == Q!parse_stored(read[q])
  <1>0. reply[q] = "none" /\ reply \in [Request -> Answers]
    BY DEF Q!Write, RowInv, RowType, AnsweredAtTheEnd
  <1>1. CASE Q!Refuses(q, v) /\ Q!Told(q, "refused") /\ UNCHANGED row
    <2>1. Q!Refuses(q, Q!parse_stored(row))
      <3>1. CASE read[q] = {}
        BY <1>1, <3>1, ParsedIsValue, RefusedFromNothing DEF Q!parse_stored
      <3>2. CASE read[q] # {}
        BY <1>1, <3>2 DEF Q!Write, RowInv, ReadIsCurrent, Holds
      <3> QED
        BY <3>1, <3>2
    <2> QED
      BY <1>0, <1>1, <2>1 DEF Q!Atomic!Answer, Q!Told
  <1>2. CASE ~Q!Refuses(q, v) /\ (read[q] # {} \/ row = {}) /\ row' = {Q!Change(q, v)} /\ Q!Told(q, "ok")
    <2>1. read[q] = row
      <3>1. CASE read[q] = {}
        BY <1>2, <3>1
      <3>2. CASE read[q] # {}
        BY <3>2 DEF Q!Write, RowInv, ReadIsCurrent, Holds
      <3> QED
        BY <3>1, <3>2
    <2>2. Q!parse_stored(row') = Q!Change(q, v)
      BY <1>2 DEF Q!parse_stored
    <2> QED
      BY <1>0, <1>2, <2>1, <2>2 DEF Q!Atomic!Answer, Q!Told
  <1>3. CASE ~Q!Refuses(q, v) /\ read[q] = {} /\ row # {} /\ UNCHANGED row /\ UNCHANGED reply
    BY <1>3
  <1> QED
    BY <1>1, <1>2, <1>3 DEF Q!Write, RowInv, SecondTimeFinds

\* However requests overlap, the row is what they make of it one after another, each is
\* answered once, and losing the race to insert the row is never an error (_save,
\* _write of the grammar checker and of dictation).
THEOREM SettingsSerialised == ASSUME Requests PROVE UpkeepSpec => Serialised
  <1>0. UpkeepSpec => Q!Init /\ [][Q!Next]_Q!vars
    <2>1. UpkeepInit => Q!Init
      BY DEF UpkeepInit
    <2>2. [UpkeepNext]_upkeepVars => [Q!Next]_Q!vars
      BY PartSteps
    <2> QED
      BY <2>1, <2>2, PTL DEF UpkeepSpec
  <1>1. RowInv /\ [Q!Next]_Q!vars => RowInv'
    <2> SUFFICES ASSUME RowInv, [Q!Next]_Q!vars PROVE RowInv'
      OBVIOUS
    <2>1. ASSUME NEW q \in Request, Q!Read(q) PROVE RowInv'
      BY <2>1, ReadKeeps
    <2>2. ASSUME NEW q \in Request, Q!Write(q) PROVE RowInv'
      BY <2>2, WriteKeeps
    <2>3. CASE UNCHANGED Q!vars
      BY <2>3 DEF Q!vars, RowInv, RowType, ReadIsCurrent, SecondTimeFinds, AnsweredAtTheEnd, Holds
    <2> QED
      BY <2>1, <2>2, <2>3 DEF Q!Next
  <1>2. RowInv /\ [Q!Next]_Q!vars => [Q!Atomic!Next]_<<Q!parse_stored(row), reply>>
    <2> SUFFICES ASSUME RowInv, [Q!Next]_Q!vars
                 PROVE  Q!Atomic!Next \/ UNCHANGED <<Q!parse_stored(row), reply>>
      OBVIOUS
    <2>1. ASSUME NEW q \in Request, Q!Read(q) PROVE UNCHANGED <<Q!parse_stored(row), reply>>
      BY <2>1 DEF Q!Read, Q!parse_stored
    <2>2. ASSUME NEW q \in Request, Q!Write(q)
          PROVE  Q!Atomic!Next \/ UNCHANGED <<Q!parse_stored(row), reply>>
      BY <2>2, WriteImplements DEF Q!Atomic!Next
    <2>3. CASE UNCHANGED Q!vars
      BY <2>3 DEF Q!vars, Q!parse_stored
    <2> QED
      BY <2>1, <2>2, <2>3 DEF Q!Next
  <1> QED
    BY <1>0, <1>1, <1>2, RowInvInit, InitImplements, PTL DEF Serialised, Q!Serialised, Q!Atomic!Spec

----------------------------------------------------------------------------
\* Every nonempty set of numbers has a least.
LEMMA Least ==
  ASSUME NEW T \in SUBSET Nat, T # {}
  PROVE  \E x \in T : \A y \in T : x <= y
  <1>1. PICK x \in T : \A y \in T : ~ (<<y, x>> \in OpToRel(<, Nat))
    BY WFMin, NatLessThanWellFounded
  <1>2. \A y \in T : ~(y < x)
    BY <1>1 DEF OpToRel
  <1> QED
    BY <1>2

\* Induction, of a set instead of a predicate: what holds of zero, and of the next of
\* whatever it holds of, holds of every number.
LEMMA Induct ==
  ASSUME NEW S, 0 \in S, \A n \in Nat : n \in S => n + 1 \in S
  PROVE  Nat \subseteq S
  <1> SUFFICES ASSUME Nat \ S # {} PROVE FALSE
    OBVIOUS
  <1>1. PICK x \in Nat \ S : \A y \in Nat \ S : x <= y
    BY Least
  <1>2. x - 1 \in Nat /\ x - 1 \in S
    BY <1>1
  <1> QED
    BY <1>1, <1>2

\* Two sequences put together.
LEMMA Joined ==
  ASSUME NEW S, NEW a \in Seq(S), NEW b \in Seq(S), NEW c, c = a \o b
  PROVE  /\ c \in Seq(S) /\ Len(c) = Len(a) + Len(b) /\ Len(a) \in Nat /\ Len(b) \in Nat
         /\ \A k \in 1..Len(a) : c[k] = a[k]
         /\ \A k \in (Len(a)+1)..Len(c) : k - Len(a) \in 1..Len(b) /\ c[k] = b[k - Len(a)]
  OBVIOUS

----------------------------------------------------------------------------
FileKinds == {"good", "bad", "slow", "killer"}
FileRow == [msg : Msg, kind : FileKinds]
IndexerConstants ==
    /\ Files \in Seq(FileRow) /\ MaxAtt \in Nat /\ Len(Files) <= MaxAtt
    /\ IsFiniteSet(Drain) /\ Agent \in Drain

\* What of the first n files a message has, as Fresh collects it.
IsFresh(m, g, n) ==
    g = [k \in 0..n |-> IF k = 0 THEN <<>>
                        ELSE IF Files[k].msg = m THEN Append(g[k-1], Files[k]) ELSE g[k-1]]

\* Fresh is what it is defined to be.
LEMMA FreshDefined ==
  ASSUME IndexerConstants, NEW m
  PROVE  \E g : IsFresh(m, g, Len(Files)) /\ I!Fresh(m) = g[Len(Files)]
  <1> DEFINE S == {n \in Nat : \E g : IsFresh(m, g, n)}
  <1>1. 0 \in S
    <2> DEFINE g == [k \in 0..0 |-> <<>>]
    <2>1. IsFresh(m, g, 0)
      BY DEF IsFresh
    <2> QED
      BY <2>1
  <1>2. ASSUME NEW n \in Nat, n \in S PROVE n + 1 \in S
    <2>1. PICK g : IsFresh(m, g, n)
      BY <1>2
    <2> DEFINE h == [k \in 0..(n+1) |-> IF k <= n THEN g[k]
                       ELSE IF Files[k].msg = m THEN Append(g[n], Files[k]) ELSE g[n]]
    <2>2. \A k \in 0..n : g[k] = IF k = 0 THEN <<>>
                        ELSE IF Files[k].msg = m THEN Append(g[k-1], Files[k]) ELSE g[k-1]
      BY <2>1 DEF IsFresh
    <2>3. \A k \in 0..(n+1) : h[k] = IF k = 0 THEN <<>>
                        ELSE IF Files[k].msg = m THEN Append(h[k-1], Files[k]) ELSE h[k-1]
      BY <2>2
    <2>4. IsFresh(m, h, n + 1)
      BY <2>3 DEF IsFresh
    <2> QED
      BY <2>4
  <1>3. Len(Files) \in S
    <2> HIDE DEF S
    <2> QED
      BY <1>1, <1>2, Induct DEF IndexerConstants
  <1> DEFINE f == CHOOSE g : IsFresh(m, g, Len(Files))
  <1>4. IsFresh(m, f, Len(Files))
    BY <1>3
  <1>5. I!Fresh(m) = f[Len(Files)]
    BY Zenon DEF I!Fresh, IsFresh
  <1> QED
    BY <1>4, <1>5

\* A message's files are files of the message.
LEMMA FreshType ==
  ASSUME IndexerConstants, NEW m
  PROVE  /\ I!Fresh(m) \in Seq(FileRow)
         /\ \A i \in DOMAIN I!Fresh(m) : I!Fresh(m)[i].msg = m
         /\ (\E i \in DOMAIN Files : Files[i].msg = m) => Len(I!Fresh(m)) > 0
  <1>0. PICK g : IsFresh(m, g, Len(Files)) /\ I!Fresh(m) = g[Len(Files)]
    BY FreshDefined
  <1> DEFINE Good(n) == /\ g[n] \in Seq(FileRow)
                        /\ \A i \in DOMAIN g[n] : g[n][i].msg = m
                        /\ (\E i \in 1..n : Files[i].msg = m) => Len(g[n]) > 0
             S == {n \in Nat : n <= Len(Files) => Good(n)}
  <1>1. 0 \in S
    BY <1>0 DEF IsFresh, IndexerConstants
  <1>2. ASSUME NEW n \in Nat, n \in S PROVE n + 1 \in S
    <2> SUFFICES ASSUME n + 1 <= Len(Files) PROVE Good(n + 1)
      OBVIOUS
    <2>1. g[n+1] = IF Files[n+1].msg = m THEN Append(g[n], Files[n+1]) ELSE g[n]
      <3>1. n + 1 \in 0..Len(Files) /\ n + 1 # 0 /\ (n + 1) - 1 = n
        BY DEF IndexerConstants
      <3> QED
        BY <1>0, <3>1 DEF IsFresh
    <2>2. Good(n) /\ Files[n+1] \in FileRow
      BY <1>2 DEF IndexerConstants
    <2> QED
      BY <2>1, <2>2
  <1>3. Len(Files) \in S
    <2> HIDE DEF S
    <2> QED
      BY <1>1, <1>2, Induct DEF IndexerConstants
  <1> QED
    BY <1>0, <1>3 DEF IndexerConstants

----------------------------------------------------------------------------
\* The rows of the attachments, and what a drain is.
Statuses == {"pending", "done", "error", "deleted", "skipped"}
AttRow   == [msg : Msg, kind : FileKinds, status : Statuses]
Pcs      == {"idle", "next", "asking", "waiting", "checked", "flushed"}

IsDrain(s) == s = [pc |-> s.pc, batch |-> s.batch, hand |-> s.hand, again |-> s.again,
                   text |-> s.text, reject |-> s.reject, search |-> s.search, done |-> s.done]

RowsTyped == atts \in Seq(AttRow) /\ Len(atts) <= MaxAtt /\ losses \in [1..MaxAtt -> Nat]

\* Every file a drain knows of has a row, at Tika or not.
DrainTyped(s, a) ==
    /\ IsDrain(s) /\ s.pc \in Pcs /\ s.again \in BOOLEAN
    /\ s.batch \subseteq DOMAIN a /\ s.text \subseteq DOMAIN a /\ s.reject \subseteq DOMAIN a
    /\ s.done \subseteq DOMAIN a
    /\ s.pc \in {"asking", "waiting"} => s.hand \in DOMAIN a

\* A file that waits for a second try, or is on it, took Tika with it, or was there.
SecondTry(s, l) ==
    /\ s.again => s.pc = "asking"
    /\ s.pc = "waiting" \/ s.again => l[s.hand] >= 1

\* What is given up was not a bystander.
GivenUp(s, a, l, st) ==
    \A i \in s.reject : a[i].kind = "good" => l[i] >= 2 \/ i \in st

DrainOk(s, a, l, st) == DrainTyped(s, a) /\ SecondTry(s, l) /\ GivenUp(s, a, l, st)

QueueInv ==
    /\ RowsTyped
    /\ drain = [d \in Drain |-> drain[d]]
    /\ \A d \in Drain : DrainOk(drain[d], atts, losses, stalled)

\* No drain has a file yet.
LEMMA QueueInvInit == IndexerConstants /\ I!Init => QueueInv
  <1> SUFFICES ASSUME IndexerConstants, I!Init PROVE QueueInv
    OBVIOUS
  <1>1. atts \in Seq(AttRow) /\ Len(atts) = Len(Files)
    <2>1. \A i \in 1..Len(Files) : I!New(Files[i]) \in AttRow
      <3> TAKE i \in 1..Len(Files)
      <3>1. Files[i] \in FileRow
        BY DEF IndexerConstants
      <3> QED
        BY <3>1 DEF I!New, FileRow, AttRow, Statuses
    <2>2. atts = [i \in 1..Len(Files) |-> I!New(Files[i])] /\ Len(Files) \in Nat
      BY DEF I!Init, IndexerConstants
    <2> QED
      BY <2>1, <2>2
  <1>3. RowsTyped
    BY <1>1 DEF I!Init, RowsTyped, IndexerConstants
  <1>4. \A d \in Drain : drain[d] = I!Idle
    BY DEF I!Init
  <1>5. DrainOk(I!Idle, atts, losses, stalled)
    BY DEF I!Idle, DrainOk, DrainTyped, IsDrain, Pcs, SecondTry, GivenUp
  <1> QED
    BY <1>3, <1>4, <1>5 DEF QueueInv, I!Init

\* Rows are added and change their state, never message or kind; Tika is lost and
\* stalls the more often: what held of a drain holds on.
Grows ==
    /\ RowsTyped'
    /\ DOMAIN atts \subseteq DOMAIN atts' /\ \A i \in DOMAIN atts : atts'[i].kind = atts[i].kind
    /\ \A i \in 1..MaxAtt : losses'[i] >= losses[i]
    /\ stalled \subseteq stalled'

\* There is room to count how often Tika was lost with each file.
LEMMA AttsRange == IndexerConstants /\ RowsTyped => DOMAIN atts \subseteq 1..MaxAtt
  BY DEF RowsTyped, IndexerConstants

\* What holds of a drain holds on.
LEMMA OkStays ==
  ASSUME IndexerConstants, RowsTyped, Grows, NEW s, DrainOk(s, atts, losses, stalled)
  PROVE  DrainOk(s, atts', losses', stalled')
  <1>0. DOMAIN atts \subseteq 1..MaxAtt /\ \A i \in 1..MaxAtt : losses[i] \in Nat /\ losses'[i] \in Nat
    BY AttsRange DEF RowsTyped, Grows
  <1>1. DrainTyped(s, atts')
    BY DEF Grows, DrainOk, DrainTyped
  <1>2. SecondTry(s, losses')
    <2>1. s.pc = "waiting" \/ s.again => s.hand \in 1..MaxAtt
      BY <1>0 DEF DrainOk, DrainTyped, SecondTry
    <2> QED
      BY <1>0, <2>1 DEF Grows, DrainOk, SecondTry
  <1>3. GivenUp(s, atts', losses', stalled')
    <2> SUFFICES ASSUME NEW i \in s.reject, atts'[i].kind = "good"
                 PROVE  losses'[i] >= 2 \/ i \in stalled'
      BY DEF GivenUp
    <2>1. i \in DOMAIN atts /\ i \in 1..MaxAtt
      BY <1>0 DEF DrainOk, DrainTyped
    <2>2. losses[i] >= 2 \/ i \in stalled
      BY <2>1 DEF DrainOk, GivenUp, Grows
    <2> QED
      BY <1>0, <2>1, <2>2 DEF Grows
  <1> QED
    BY <1>1, <1>2, <1>3 DEF DrainOk

\* Rows that stay as they are have grown.
LEMMA SameGrows == RowsTyped /\ UNCHANGED <<atts, losses>> /\ stalled \subseteq stalled' => Grows
  BY DEF RowsTyped, Grows

\* A step of one drain.
LEMMA OneDrain ==
  ASSUME IndexerConstants, QueueInv, Grows, NEW d \in Drain, NEW s, drain' = [drain EXCEPT ![d] = s],
         DrainOk(s, atts', losses', stalled')
  PROVE  QueueInv'
  <1>1. drain' = [e \in Drain |-> drain'[e]] /\ drain'[d] = s
    BY DEF QueueInv
  <1>2. \A e \in Drain : e # d => drain'[e] = drain[e]
    BY DEF QueueInv
  <1>3. \A e \in Drain : DrainOk(drain'[e], atts', losses', stalled')
    <2> TAKE e \in Drain
    <2>1. CASE e = d
      BY <1>1, <2>1
    <2>2. CASE e # d
      <3>1. DrainOk(drain[e], atts, losses, stalled) /\ RowsTyped
        BY DEF QueueInv
      <3> QED
        BY <1>2, <2>2, <3>1, OkStays
    <2> QED
      BY <2>1, <2>2
  <1> QED
    BY <1>1, <1>3 DEF QueueInv, Grows

\* The verdicts on a file.
LEMMA Verdicts ==
  ASSUME IndexerConstants, QueueInv, NEW d \in Drain, I!At(d, "asking") \/ I!At(d, "waiting") \/ I!At(d, "next")
  PROVE  /\ DrainOk(I!Stop(d), atts, losses, stalled)
         /\ drain[d].hand \in DOMAIN atts => DrainOk(I!Keep(d, drain[d].hand), atts, losses, stalled)
  <1>1. DrainOk(drain[d], atts, losses, stalled) /\ IsDrain(drain[d])
    BY DEF QueueInv, DrainOk, DrainTyped
  <1>2. DrainOk(I!Stop(d), atts, losses, stalled)
    <2>0. PICK s : s = I!Stop(d)
      OBVIOUS
    <2>1. /\ IsDrain(s) /\ s.pc = "next" /\ s.batch = {} /\ s.again = FALSE
          /\ s.text = drain[d].text /\ s.reject = drain[d].reject /\ s.done = drain[d].done
      BY <1>1, <2>0 DEF I!Stop, IsDrain
    <2> QED
      BY <1>1, <2>0, <2>1 DEF DrainOk, DrainTyped, Pcs, SecondTry, GivenUp
  <1>3. ASSUME drain[d].hand \in DOMAIN atts
        PROVE  DrainOk(I!Keep(d, drain[d].hand), atts, losses, stalled)
    <2>0. PICK s : s = I!Keep(d, drain[d].hand)
      OBVIOUS
    <2>1. /\ IsDrain(s) /\ s.pc = "next" /\ s.batch = drain[d].batch /\ s.again = FALSE
          /\ s.text = drain[d].text \cup {drain[d].hand}
          /\ s.reject = drain[d].reject /\ s.done = drain[d].done
      BY <1>1, <2>0 DEF I!Keep, IsDrain
    <2> QED
      BY <1>1, <1>3, <2>0, <2>1 DEF DrainOk, DrainTyped, Pcs, SecondTry, GivenUp
  <1> QED
    BY <1>2, <1>3

\* A file is given up that is no good, or that Tika went with twice, or hung on.
LEMMA Rejected ==
  ASSUME NEW a, NEW l, NEW st, NEW d \in Drain, DrainOk(drain[d], a, l, st),
         drain[d].hand \in DOMAIN a,
         \/ a[drain[d].hand].kind # "good"
         \/ l[drain[d].hand] >= 2
         \/ drain[d].hand \in st
  PROVE  DrainOk(I!Reject(d, drain[d].hand), a, l, st)
  <1>0. PICK s : s = I!Reject(d, drain[d].hand)
    OBVIOUS
  <1>1. /\ IsDrain(s) /\ s.pc = "next" /\ s.batch = drain[d].batch /\ s.again = FALSE
        /\ s.text = drain[d].text /\ s.reject = drain[d].reject \cup {drain[d].hand}
        /\ s.done = drain[d].done
    BY <1>0 DEF I!Reject, DrainOk, DrainTyped, IsDrain
  <1> QED
    BY <1>0, <1>1 DEF DrainOk, DrainTyped, Pcs, SecondTry, GivenUp

\* The steps that put files to Tika and take what it says.
LEMMA AskingKeeps ==
  ASSUME IndexerConstants, QueueInv, NEW d \in Drain,
         I!ReadBatch(d) \/ I!Ask(d) \/ I!AskAgain(d) \/ I!GiveUp(d) \/ I!Answer(d)
  PROVE  QueueInv'
  <1>0. Grows /\ UNCHANGED <<atts, losses, stalled>>
    BY SameGrows DEF QueueInv, I!ReadBatch, I!Ask, I!AskAgain, I!GiveUp, I!Answer, I!rows
  <1>1. DrainOk(drain[d], atts, losses, stalled) /\ IsDrain(drain[d])
    BY DEF QueueInv, DrainOk, DrainTyped
  <1> SUFFICES \E s : I!Goto(d, s) /\ DrainOk(s, atts, losses, stalled)
    BY <1>0, OneDrain DEF I!Goto
  <1>2. CASE I!ReadBatch(d)
    <2>1. PICK b \in SUBSET I!Atts : I!Goto(d, [I!Idle EXCEPT !.pc = "next", !.batch = b])
      BY <1>2 DEF I!ReadBatch
    <2>0. PICK s : s = [I!Idle EXCEPT !.pc = "next", !.batch = b]
      OBVIOUS
    <2>2. /\ IsDrain(s) /\ s.pc = "next" /\ s.batch = b /\ s.again = FALSE
          /\ s.text = {} /\ s.reject = {} /\ s.done = {}
      BY <2>0 DEF I!Idle, IsDrain
    <2>3. DrainOk(s, atts, losses, stalled)
      <3> QED
        BY <2>2 DEF I!Atts, DrainOk, DrainTyped, Pcs, SecondTry, GivenUp
    <2> QED
      BY <2>0, <2>1, <2>3
  <1>3. CASE I!Ask(d)
    <2>1. CASE tika = "down"
      BY <1>3, <2>1, Verdicts DEF I!Ask
    <2>2. CASE tika # "down"
      <3>1. PICK i \in drain[d].batch :
              I!Goto(d, [drain[d] EXCEPT !.pc = "asking", !.batch = @ \ {i}, !.hand = i])
        BY <1>3, <2>2 DEF I!Ask
      <3>0. PICK s : s = [drain[d] EXCEPT !.pc = "asking", !.batch = @ \ {i}, !.hand = i]
        OBVIOUS
      <3>2. /\ IsDrain(s) /\ s.pc = "asking" /\ s.batch = drain[d].batch \ {i} /\ s.hand = i
            /\ s.again = drain[d].again /\ s.text = drain[d].text /\ s.reject = drain[d].reject
            /\ s.done = drain[d].done
        BY <1>1, <3>0 DEF IsDrain
      <3>3. DrainOk(s, atts, losses, stalled)
        <4> QED
          BY <1>1, <1>3, <3>2 DEF I!Ask, I!At, DrainOk, DrainTyped, Pcs, SecondTry, GivenUp
      <3> QED
        BY <3>0, <3>1, <3>3
    <2> QED
      BY <2>1, <2>2
  <1>4. CASE I!AskAgain(d)
    <2>0. PICK s : s = [drain[d] EXCEPT !.pc = "asking", !.again = TRUE]
      OBVIOUS
    <2>1. /\ IsDrain(s) /\ s.pc = "asking" /\ s.batch = drain[d].batch /\ s.hand = drain[d].hand
          /\ s.again = TRUE /\ s.text = drain[d].text /\ s.reject = drain[d].reject
          /\ s.done = drain[d].done
      BY <1>1, <2>0 DEF IsDrain
    <2>2. DrainOk(s, atts, losses, stalled)
      <3> QED
        BY <1>1, <1>4, <2>1 DEF I!AskAgain, I!At, DrainOk, DrainTyped, Pcs, SecondTry, GivenUp
    <2> QED
      BY <1>4, <2>0, <2>2 DEF I!AskAgain
  <1>5. CASE I!GiveUp(d)
    BY <1>5, Verdicts DEF I!GiveUp
  <1>6. CASE I!Answer(d)
    <2>1. drain[d].hand \in DOMAIN atts
      BY <1>1, <1>6 DEF I!Answer, I!At, DrainOk, DrainTyped
    <2> QED
      BY <1>1, <1>6, <2>1, Verdicts, Rejected DEF I!Answer
  <1> QED
    BY <1>2, <1>3, <1>4, <1>5, <1>6

\* A file that is given up for its time was slow, or Tika hung on it and was well again.
LEMMA TimesOutKeeps ==
  ASSUME IndexerConstants, QueueInv, NEW d \in Drain, I!TimesOut(d)
  PROVE  QueueInv'
  <1>0. Grows /\ UNCHANGED <<atts, losses>>
    BY SameGrows DEF QueueInv, I!TimesOut, I!rows
  <1>1. DrainOk(drain[d], atts, losses, stalled) /\ RowsTyped
    BY DEF QueueInv
  <1>2. DrainOk(I!Stop(d), atts', losses', stalled') /\ DrainOk(drain[d], atts', losses', stalled')
    BY <1>0, <1>1, OkStays, Verdicts DEF I!TimesOut
  <1>3. drain[d].hand \in DOMAIN atts'
    BY <1>0, <1>1 DEF I!TimesOut, I!At, DrainOk, DrainTyped
  <1>4. I!Goto(d, I!Stop(d)) \/ I!Goto(d, I!Reject(d, drain[d].hand))
    BY DEF I!TimesOut, I!timed_out
  <1>5. CASE I!Goto(d, I!Stop(d))
    BY <1>0, <1>2, <1>5, OneDrain DEF I!Goto
  <1>6. CASE ~I!Goto(d, I!Stop(d)) /\ I!Goto(d, I!Reject(d, drain[d].hand))
    <2>1. atts'[drain[d].hand].kind # "good" \/ drain[d].hand \in stalled'
      <3>1. CASE tika = "up"
        <4>1. atts[drain[d].hand].kind = "slow"
          BY <3>1 DEF I!TimesOut
        <4> QED
          BY <1>0, <4>1
      <3>2. CASE tika # "up"
        BY <1>6, <3>2 DEF I!TimesOut
      <3> QED
        BY <3>1, <3>2
    <2>2. DrainOk(I!Reject(d, drain[d].hand), atts', losses', stalled')
      BY <1>2, <1>3, <2>1, Rejected
    <2> QED
      BY <1>0, <1>6, <2>2, OneDrain DEF I!Goto
  <1> QED
    BY <1>4, <1>5, <1>6

\* Indexer counts as everybody does.
LEMMA IndexerCounts == ASSUME NEW S PROVE I!Cardinality(S) = Cardinality(S)
  BY DEF I!Cardinality, Cardinality

\* Tika goes, with the files that are in its hands.
LEMMA LoseKeeps ==
  ASSUME IndexerConstants, QueueInv, NEW D \in SUBSET I!Asking, I!Lose(D), UNCHANGED <<I!rows, stalled>>
  PROVE  QueueInv'
  <1> DEFINE with(i) == {d \in D : drain[d].hand = i}
  <1>1. \A i : /\ IsFiniteSet(with(i)) /\ Cardinality(with(i)) \in Nat
               /\ with(i) # {} => Cardinality(with(i)) >= 1
    <2> TAKE i
    <2>1. IsFiniteSet(with(i))
      BY FS_Subset DEF IndexerConstants, I!Asking
    <2>2. Cardinality(with(i)) \in Nat /\ (Cardinality(with(i)) = 0 <=> with(i) = {})
      BY <2>1, FS_CardinalityType, FS_EmptySet
    <2> QED
      BY <2>1, <2>2
  <1>2. DOMAIN losses = 1..MaxAtt /\ \A i \in 1..MaxAtt : losses[i] \in Nat
    BY DEF QueueInv, RowsTyped
  <1>3. losses' = [i \in 1..MaxAtt |-> losses[i] + Cardinality(with(i))]
    BY <1>2, IndexerCounts DEF I!Lose
  <1>4. losses' \in [1..MaxAtt -> Nat] /\ \A i \in 1..MaxAtt : losses'[i] >= losses[i]
    <2>1. \A i \in 1..MaxAtt : losses[i] + Cardinality(with(i)) \in Nat
            /\ losses[i] + Cardinality(with(i)) >= losses[i]
      <3> TAKE i \in 1..MaxAtt
      <3>1. Cardinality(with(i)) \in Nat /\ losses[i] \in Nat
        BY <1>1, <1>2
      <3> HIDE DEF with
      <3> QED
        BY <3>1
    <2> HIDE DEF with
    <2> QED
      BY <1>3, <2>1
  <1>5. Grows
    BY <1>4 DEF QueueInv, RowsTyped, Grows, I!rows
  <1>6. ASSUME NEW d \in Drain PROVE DrainOk(drain'[d], atts', losses', stalled')
    <2>1. DrainOk(drain[d], atts, losses, stalled) /\ RowsTyped
      BY DEF QueueInv
    <2>2. DrainOk(drain[d], atts', losses', stalled')
      BY <1>5, <2>1, OkStays
    <2>3. CASE d \notin D
      BY <2>2, <2>3 DEF I!Lose
    <2>4. CASE d \in D
      <3>1. drain[d].hand \in DOMAIN atts /\ drain[d].hand \in 1..MaxAtt /\ drain[d].pc = "asking"
        BY <2>1, <2>4, AttsRange DEF I!Asking, I!At, DrainOk, DrainTyped
      <3>2. losses'[drain[d].hand] >= losses[drain[d].hand] + 1
        <4>1. d \in with(drain[d].hand)
          BY <2>4
        <4>2. Cardinality(with(drain[d].hand)) >= 1 /\ Cardinality(with(drain[d].hand)) \in Nat
          BY <1>1, <4>1
        <4> HIDE DEF with
        <4> QED
          BY <1>2, <1>3, <3>1, <4>2
      <3>3. losses[drain[d].hand] \in Nat /\ losses'[drain[d].hand] \in Nat
        BY <1>2, <1>4, <3>1
      <3>4. CASE drain[d].again
        <4>1. losses'[drain[d].hand] >= 2
          BY <2>1, <3>2, <3>3, <3>4 DEF DrainOk, SecondTry
        <4>2. drain[d].hand \in DOMAIN atts'
          BY <3>1 DEF I!rows
        <4>3. DrainOk(I!Reject(d, drain[d].hand), atts', losses', stalled')
          BY <2>2, <4>1, <4>2, Rejected
        <4> QED
          BY <2>4, <3>4, <4>3 DEF I!Lose, I!crashed
      <3>5. CASE ~drain[d].again
        <4>0. PICK s : s = [drain[d] EXCEPT !.pc = "waiting"]
          OBVIOUS
        <4>1. /\ IsDrain(s) /\ s.pc = "waiting" /\ s.batch = drain[d].batch /\ s.hand = drain[d].hand
              /\ s.again = drain[d].again /\ s.text = drain[d].text /\ s.reject = drain[d].reject
              /\ s.done = drain[d].done
          BY <2>1, <4>0 DEF DrainOk, DrainTyped, IsDrain
        <4>2. drain'[d] = s
          BY <2>4, <3>5, <4>0 DEF I!Lose, I!crashed
        <4>3. losses'[s.hand] >= 1
          BY <3>2, <3>3, <4>1
        <4> QED
          BY <2>2, <3>1, <3>5, <4>1, <4>2, <4>3 DEF DrainOk, DrainTyped, Pcs, SecondTry, GivenUp
      <3> QED
        BY <3>4, <3>5
    <2> QED
      BY <2>3, <2>4
  <1>7. drain' = [d \in Drain |-> drain'[d]]
    BY DEF I!Lose
  <1> QED
    BY <1>5, <1>6, <1>7 DEF QueueInv, Grows

\* A file takes the JVM with it that reads it.
LEMMA KillKeeps ==
  ASSUME IndexerConstants, QueueInv, NEW d \in Drain, I!Kill(d)
  PROVE  QueueInv'
  <1>1. {d} \in SUBSET I!Asking /\ I!Asking \in SUBSET I!Asking
    BY DEF I!Kill, I!Asking
  <1>2. I!Lose({d}) \/ I!Lose(I!Asking)
    BY DEF I!Kill
  <1>3. UNCHANGED <<I!rows, stalled>>
    BY DEF I!Kill
  <1> QED
    BY <1>1, <1>2, <1>3, LoseKeeps

\* Nothing the drains know changes.
LEMMA TikaKeeps ==
  ASSUME IndexerConstants, QueueInv, I!TikaDies \/ I!TikaHangs \/ I!TikaRecovers \/ UNCHANGED I!vars
  PROVE  QueueInv'
  <1>1. CASE I!TikaDies
    <2>1. I!Asking \in SUBSET I!Asking /\ I!Lose(I!Asking) /\ UNCHANGED <<I!rows, stalled>>
      BY <1>1 DEF I!TikaDies
    <2> QED
      BY <2>1, LoseKeeps
  <1>2. CASE I!TikaHangs \/ I!TikaRecovers \/ UNCHANGED I!vars
    <2>1. UNCHANGED <<atts, drain, losses, stalled>>
      BY <1>2 DEF I!TikaHangs, I!TikaRecovers, I!vars, I!rows
    <2> QED
      BY <2>1 DEF QueueInv, RowsTyped
  <1> QED
    BY <1>1, <1>2

\* What came of the batch is looked at again, and written down, not yet committed.
LEMMA WritingKeeps ==
  ASSUME IndexerConstants, QueueInv, NEW d \in Drain, I!Check(d) \/ I!Stale(d) \/ I!Flush(d)
  PROVE  QueueInv'
  <1>0. Grows /\ UNCHANGED <<atts, losses, stalled>>
    BY SameGrows DEF QueueInv, I!Check, I!Stale, I!Flush, I!rows
  <1>1. DrainOk(drain[d], atts, losses, stalled) /\ IsDrain(drain[d])
    BY DEF QueueInv, DrainOk, DrainTyped
  <1>2. DrainOk(I!Idle, atts, losses, stalled)
    BY DEF I!Idle, DrainOk, DrainTyped, IsDrain, Pcs, SecondTry, GivenUp
  <1> SUFFICES \E s : I!Goto(d, s) /\ DrainOk(s, atts, losses, stalled)
    BY <1>0, OneDrain DEF I!Goto
  <1>3. CASE I!Goto(d, I!Idle)
    BY <1>2, <1>3
  <1>4. CASE I!Check(d) /\ ~I!Goto(d, I!Idle)
    <2> DEFINE done == {i \in drain[d].text \cup drain[d].reject : I!Pending(i)}
    <2>0. PICK s : s = [drain[d] EXCEPT !.pc = "checked", !.done = done]
      OBVIOUS
    <2>1. /\ IsDrain(s) /\ s.pc = "checked" /\ s.batch = drain[d].batch /\ s.again = drain[d].again
          /\ s.text = drain[d].text /\ s.reject = drain[d].reject /\ s.done = done
      BY <1>1, <2>0 DEF IsDrain
    <2>2. DrainOk(s, atts, losses, stalled)
      BY <1>1, <1>4, <2>1 DEF I!Check, I!At, DrainOk, DrainTyped, Pcs, SecondTry, GivenUp
    <2> QED
      BY <1>4, <2>0, <2>2 DEF I!Check
  <1>5. CASE I!Flush(d)
    <2>0. PICK t, s : s = [drain[d] EXCEPT !.pc = "flushed", !.search = t] /\ I!Goto(d, s)
      BY <1>5 DEF I!Flush
    <2>1. /\ IsDrain(s) /\ s.pc = "flushed" /\ s.batch = drain[d].batch /\ s.again = drain[d].again
          /\ s.text = drain[d].text /\ s.reject = drain[d].reject /\ s.done = drain[d].done
      BY <1>1, <2>0 DEF IsDrain
    <2>2. DrainOk(s, atts, losses, stalled)
      BY <1>1, <1>5, <2>1 DEF I!Flush, I!At, DrainOk, DrainTyped, Pcs, SecondTry, GivenUp
    <2> QED
      BY <2>0, <2>2
  <1> QED
    BY <1>3, <1>4, <1>5 DEF I!Stale, I!Check

----------------------------------------------------------------------------
\* What becomes of the rows: each keeps message and kind.
LEMMA CommitRows ==
  ASSUME IndexerConstants, QueueInv, NEW d \in Drain, I!Commit(d)
  PROVE  /\ atts' \in Seq(AttRow) /\ Len(atts') = Len(atts)
         /\ \A i \in DOMAIN atts : /\ atts'[i].msg = atts[i].msg /\ atts'[i].kind = atts[i].kind
                                   /\ atts'[i].status = I!Resolved(d, i)
  <1>0. atts \in Seq(AttRow) /\ Len(atts) \in Nat /\ DOMAIN atts = 1..Len(atts)
    BY DEF QueueInv, RowsTyped
  <1>1. atts' = [i \in 1..Len(atts) |-> [atts[i] EXCEPT !.status = I!Resolved(d, i)]]
    BY <1>0 DEF I!Commit, I!Atts
  <1>2. \A i \in 1..Len(atts) : /\ [atts[i] EXCEPT !.status = I!Resolved(d, i)] \in AttRow
                                /\ atts'[i].msg = atts[i].msg /\ atts'[i].kind = atts[i].kind
                                /\ atts'[i].status = I!Resolved(d, i)
    <2> TAKE i \in 1..Len(atts)
    <2>1. atts[i] \in AttRow
      BY <1>0
    <2>2. I!Resolved(d, i) \in Statuses
      BY <2>1 DEF I!Resolved, AttRow, Statuses
    <2> QED
      BY <1>1, <2>1, <2>2 DEF AttRow
  <1> QED
    BY <1>0, <1>1, <1>2

\* A message is emptied: its rows stay, and none of them waits or counts.
LEMMA StripRows ==
  ASSUME IndexerConstants, QueueInv, NEW m \in Msg, I!Strip(m)
  PROVE  /\ atts' \in Seq(AttRow) /\ Len(atts') = Len(atts)
         /\ \A i \in DOMAIN atts : /\ atts'[i].msg = atts[i].msg /\ atts'[i].kind = atts[i].kind
                                   /\ atts[i].msg # m => atts'[i].status = atts[i].status
                                   /\ atts[i].msg = m => atts'[i].status \in {"skipped", "deleted"}
  <1>0. atts \in Seq(AttRow) /\ Len(atts) \in Nat /\ DOMAIN atts = 1..Len(atts)
    BY DEF QueueInv, RowsTyped
  <1> DEFINE new(i) == IF i \in I!Of(m) /\ atts[i].status # "deleted"
                       THEN [atts[i] EXCEPT !.status = "skipped"] ELSE atts[i]
  <1>1. atts' = [i \in 1..Len(atts) |-> new(i)]
    BY <1>0 DEF I!Strip, I!Atts
  <1>2. \A i \in 1..Len(atts) :
          /\ new(i) \in AttRow /\ new(i).msg = atts[i].msg /\ new(i).kind = atts[i].kind
          /\ atts[i].msg # m => new(i).status = atts[i].status
          /\ atts[i].msg = m => new(i).status \in {"skipped", "deleted"}
    <2> TAKE i \in 1..Len(atts)
    <2>1. atts[i] \in AttRow /\ (i \in I!Of(m) <=> atts[i].msg = m)
      BY <1>0 DEF I!Of, I!Atts
    <2> QED
      BY <2>1 DEF AttRow, Statuses
  <1> HIDE DEF new
  <1> QED
    BY <1>0, <1>1, <1>2

\* The rows of the new bytes come after all others.
LEMMA ReplaceRows ==
  ASSUME IndexerConstants, QueueInv, NEW m \in Msg, I!Replace(m)
  PROVE  /\ atts' \in Seq(AttRow) /\ Len(atts') = Len(atts) + Len(I!Fresh(m)) /\ Len(atts') <= MaxAtt
         /\ \A i \in DOMAIN atts : /\ atts'[i].msg = atts[i].msg /\ atts'[i].kind = atts[i].kind
                                   /\ atts[i].msg # m => atts'[i].status = atts[i].status
                                   /\ atts[i].msg = m => atts'[i].status = "deleted"
         /\ \A i \in DOMAIN atts' \ DOMAIN atts : atts'[i].msg = m /\ atts'[i].status = "pending"
  <1>0. atts \in Seq(AttRow) /\ Len(atts) \in Nat /\ DOMAIN atts = 1..Len(atts)
    BY DEF QueueInv, RowsTyped
  <1> DEFINE F == I!Fresh(m)
             was == I!without_rows(m)
             new  == [i \in DOMAIN F |-> I!New(F[i])]
  <1>1. F \in Seq(FileRow) /\ \A i \in DOMAIN F : F[i].msg = m
    BY FreshType
  <1>2. /\ new \in Seq(AttRow) /\ Len(new) = Len(F)
        /\ \A i \in 1..Len(F) : new[i].msg = m /\ new[i].status = "pending"
    <2> HIDE DEF F
    <2>1. Len(F) \in Nat /\ DOMAIN F = 1..Len(F)
      BY <1>1
    <2>2. \A i \in 1..Len(F) : I!New(F[i]) \in AttRow /\ I!New(F[i]).msg = m
                               /\ I!New(F[i]).status = "pending"
      <3> TAKE i \in 1..Len(F)
      <3>1. F[i] \in FileRow /\ F[i].msg = m
        BY <1>1, <2>1
      <3> QED
        BY <3>1 DEF I!New, FileRow, AttRow, Statuses
    <2> QED
      BY <2>1, <2>2
  <1>3. /\ was \in Seq(AttRow) /\ Len(was) = Len(atts)
        /\ \A i \in 1..Len(atts) : /\ was[i].msg = atts[i].msg /\ was[i].kind = atts[i].kind
                                   /\ atts[i].msg # m => was[i].status = atts[i].status
                                   /\ atts[i].msg = m => was[i].status = "deleted"
    <2> DEFINE gone(i) == IF i \in I!Of(m) THEN [atts[i] EXCEPT !.status = "deleted"] ELSE atts[i]
    <2>1. was = [i \in 1..Len(atts) |-> gone(i)]
      BY <1>0 DEF I!without_rows, I!Atts
    <2>2. \A i \in 1..Len(atts) :
            /\ gone(i) \in AttRow /\ gone(i).msg = atts[i].msg /\ gone(i).kind = atts[i].kind
            /\ atts[i].msg # m => gone(i).status = atts[i].status
            /\ atts[i].msg = m => gone(i).status = "deleted"
      <3> TAKE i \in 1..Len(atts)
      <3>1. atts[i] \in AttRow /\ (i \in I!Of(m) <=> atts[i].msg = m)
        BY <1>0 DEF I!Of, I!Atts
      <3> QED
        BY <3>1 DEF AttRow, Statuses
    <2> HIDE DEF gone, was
    <2> QED
      BY <1>0, <2>1, <2>2
  <1>4. atts' = was \o new /\ Len(atts) + Len(F) <= MaxAtt
    BY DEF I!Replace
  <1>5. Len(F) \in Nat
    BY <1>1
  <1> HIDE DEF F, was, new
  <1>6. atts' \in Seq(AttRow) /\ Len(atts') = Len(atts) + Len(F) /\ Len(atts') <= MaxAtt
    <2>1. was \in Seq(AttRow) /\ new \in Seq(AttRow)
      BY <1>2, <1>3
    <2>2. Len(atts') = Len(was) + Len(new) /\ atts' \in Seq(AttRow)
      BY <1>4, <2>1, Joined
    <2> QED
      BY <1>2, <1>3, <1>4, <2>2
  <1>7. /\ \A i \in 1..Len(atts) : atts'[i] = was[i]
        /\ \A i \in DOMAIN atts' \ 1..Len(atts) : i - Len(atts) \in 1..Len(F) /\ atts'[i] = new[i - Len(atts)]
    BY <1>0, <1>2, <1>3, <1>4, <1>5, <1>6
  <1> QED
    BY <1>0, <1>2, <1>3, <1>6, <1>7 DEF F

\* Rows written, replaced and emptied.
LEMMA CommitKeeps ==
  ASSUME IndexerConstants, QueueInv, NEW d \in Drain, I!Commit(d)
  PROVE  QueueInv'
  <1>1. Grows
    <2>1. UNCHANGED <<losses, stalled>> /\ RowsTyped
      BY DEF I!Commit, QueueInv
    <2>2. RowsTyped' /\ DOMAIN atts' = DOMAIN atts
      BY <2>1, CommitRows DEF RowsTyped
    <2> QED
      BY <2>1, <2>2, CommitRows DEF Grows, RowsTyped
  <1>2. DrainOk(I!Idle, atts', losses', stalled')
    BY DEF I!Idle, DrainOk, DrainTyped, IsDrain, Pcs, SecondTry, GivenUp
  <1> QED
    BY <1>1, <1>2, OneDrain DEF I!Commit, I!Goto

\* Mail stored again or emptied adds rows and changes none that a drain goes by.
LEMMA OthersKeep ==
  ASSUME IndexerConstants, QueueInv, NEW m \in Msg, I!Replace(m) \/ I!Strip(m)
  PROVE  QueueInv'
  <1>0. UNCHANGED <<drain, losses, stalled>> /\ RowsTyped
    BY DEF I!Replace, I!Strip, QueueInv
  <1>1. Grows
    <2>1. CASE I!Replace(m)
      <3>1. Len(I!Fresh(m)) \in Nat
        BY FreshType
      <3>2. RowsTyped' /\ DOMAIN atts \subseteq DOMAIN atts'
        BY <1>0, <2>1, <3>1, ReplaceRows DEF RowsTyped
      <3> QED
        BY <1>0, <2>1, <3>2, ReplaceRows DEF Grows, RowsTyped
    <2>2. CASE I!Strip(m)
      <3>1. RowsTyped' /\ DOMAIN atts' = DOMAIN atts
        BY <1>0, <2>2, StripRows DEF RowsTyped
      <3> QED
        BY <1>0, <2>2, <3>1, StripRows DEF Grows, RowsTyped
    <2> QED
      BY <2>1, <2>2
  <1>2. \A d \in Drain : DrainOk(drain[d], atts, losses, stalled)
    BY DEF QueueInv
  <1>3. \A d \in Drain : DrainOk(drain[d], atts', losses', stalled')
    BY <1>0, <1>1, <1>2, OkStays
  <1> QED
    BY <1>0, <1>1, <1>3 DEF QueueInv, Grows

\* Every step keeps what the queue and its drains know.
LEMMA QueueInvNext == IndexerConstants /\ QueueInv /\ [I!Next]_I!vars => QueueInv'
  BY AskingKeeps, TimesOutKeeps, KillKeeps, TikaKeeps, WritingKeeps, CommitKeeps, OthersKeep
     DEF I!Next, I!DrainStep

\* A file that could have been read is given up only if Tika went twice with it in its
\* hands, or hung on it and was well again when asked, however many drains share the
\* queue (_extract_one).
THEOREM BystandersSpared == ASSUME IndexerConstants PROVE UpkeepSpec => []NoBystander
  <1> DEFINE Inv == part = "indexer" => QueueInv
  <1>1. UpkeepInit => Inv
    BY QueueInvInit DEF UpkeepInit
  <1>2. Inv /\ [UpkeepNext]_upkeepVars => Inv'
    BY PartSteps, QueueInvNext
  <1>3. Inv => NoBystander
    BY DEF QueueInv, DrainOk, GivenUp, NoBystander, I!NoBystander
  <1> QED
    BY <1>1, <1>2, <1>3, PTL DEF UpkeepSpec

----------------------------------------------------------------------------
\* One drain, the agent's, and no message that has no file.
OneDrainOnly ==
    /\ IndexerConstants /\ Drain = {Agent}
    /\ \A m \in Msg : \E i \in DOMAIN Files : Files[i].msg = m

\* What a drain has written and not committed is what a search will then find by.
Written ==
    I!At(Agent, "flushed") => \A m \in I!Touched(Agent) :
        /\ drain[Agent].search[m].was = search[m]
        /\ drain[Agent].search[m].texts = I!rebuild(Agent, m)
        /\ drain[Agent].search[m].over <=> \A i \in I!Of(m) : I!Resolved(Agent, i) # "pending"

SearchInv ==
    /\ search = [m \in Msg |-> search[m]] /\ rollup = [m \in Msg |-> rollup[m]]
    /\ I!Searchable /\ Written

\* Nothing has been read, and every message has a file that waits.
LEMMA SearchInvInit == OneDrainOnly /\ I!Init => SearchInv
  <1> SUFFICES ASSUME OneDrainOnly, I!Init PROVE SearchInv
    OBVIOUS
  <1>1. \A i \in DOMAIN atts : atts[i].status = "pending" /\ atts[i].msg = Files[i].msg
    BY DEF I!Init, I!New
  <1>2. I!Searchable
    <2> SUFFICES ASSUME NEW m \in Msg
                 PROVE  /\ search[m] = {i \in I!Of(m) : atts[i].status = "done"}
                        /\ rollup[m] = "pending" <=> \E i \in I!Of(m) : I!Pending(i)
      BY DEF I!Searchable
    <2>1. search[m] = {} /\ rollup[m] = "pending" /\ DOMAIN atts = DOMAIN Files
      BY DEF I!Init
    <2>2. PICK i \in DOMAIN Files : Files[i].msg = m
      BY DEF OneDrainOnly
    <2> QED
      BY <1>1, <2>1, <2>2 DEF I!Of, I!Atts, I!Pending
  <1>3. drain[Agent] = I!Idle
    BY DEF I!Init, OneDrainOnly
  <1> QED
    BY <1>2, <1>3 DEF SearchInv, Written, I!At, I!Idle, I!Init

\* Nothing but what the drain is doing changes, and it has written nothing new.
LEMMA QuietKeeps ==
  ASSUME SearchInv, UNCHANGED I!rows, drain'[Agent].pc = "flushed" => drain'[Agent] = drain[Agent]
  PROVE  SearchInv'
  <1>1. UNCHANGED <<atts, search, rollup>>
    BY DEF I!rows
  <1>2. I!Searchable'
    BY <1>1 DEF SearchInv, I!Searchable, I!Of, I!Atts, I!Pending
  <1>3. Written'
    BY <1>1 DEF SearchInv, Written, I!At, I!Touched, I!rebuild, I!Of, I!Atts, I!Resolved
  <1> QED
    BY <1>1, <1>2, <1>3 DEF SearchInv

\* What is flushed is what the rows will say.
LEMMA FlushWrites ==
  ASSUME OneDrainOnly, QueueInv, SearchInv, I!Flush(Agent)
  PROVE  SearchInv'
  <1>1. UNCHANGED <<atts, search, rollup>>
    BY DEF I!Flush, I!rows
  <1>2. I!Searchable'
    BY <1>1 DEF SearchInv, I!Searchable, I!Of, I!Atts, I!Pending
  <1> DEFINE new == [m \in I!Touched(Agent) |->
                  [was   |-> search[m],
                   texts |-> I!rebuild(Agent, m),
                   over  |-> \A i \in I!Of(m) : I!Resolved(Agent, i) # "pending"]]
  <1>3. PICK s : s = [drain[Agent] EXCEPT !.pc = "flushed", !.search = new] /\ drain'[Agent] = s
    BY DEF I!Flush, I!Goto, OneDrainOnly, QueueInv
  <1>4. s.done = drain[Agent].done /\ s.text = drain[Agent].text /\ s.search = new
    <2>1. IsDrain(drain[Agent])
      BY DEF QueueInv, DrainOk, DrainTyped, OneDrainOnly
    <2> HIDE DEF new
    <2> QED
      BY <1>3, <2>1 DEF IsDrain
  <1>5. Written'
    <2>1. I!Touched(Agent)' = I!Touched(Agent)
      BY <1>1, <1>3, <1>4 DEF I!Touched
    <2>2. ASSUME NEW i PROVE I!Resolved(Agent, i)' = I!Resolved(Agent, i)
      BY <1>1, <1>3, <1>4 DEF I!Resolved
    <2>3. ASSUME NEW m PROVE I!Of(m)' = I!Of(m) /\ I!rebuild(Agent, m)' = I!rebuild(Agent, m)
      BY <1>1, <2>2 DEF I!Of, I!Atts, I!rebuild
    <2>4. \A m \in I!Touched(Agent) :
             /\ s.search[m].was = search[m] /\ s.search[m].texts = I!rebuild(Agent, m)
             /\ s.search[m].over <=> \A i \in I!Of(m) : I!Resolved(Agent, i) # "pending"
      BY <1>4
    <2> QED
      BY <1>1, <1>3, <2>1, <2>2, <2>3, <2>4 DEF Written
  <1> QED
    BY <1>1, <1>2, <1>5 DEF SearchInv

\* A commit brings text, rollup and states of the messages it touches into line.
LEMMA CommitWrites ==
  ASSUME OneDrainOnly, QueueInv, SearchInv, I!Commit(Agent)
  PROVE  SearchInv'
  <1>1. Written'
    BY DEF I!Commit, I!Goto, I!Idle, Written, I!At, OneDrainOnly, QueueInv
  <1>2. DOMAIN atts' = DOMAIN atts
    BY CommitRows DEF OneDrainOnly, QueueInv, RowsTyped
  <1>3. \A i \in DOMAIN atts : atts'[i].msg = atts[i].msg /\ atts'[i].status = I!Resolved(Agent, i)
    BY CommitRows DEF OneDrainOnly
  <1>4. ASSUME NEW m \in Msg
        PROVE  /\ search'[m] = {i \in I!Of(m) : atts'[i].status = "done"}
               /\ rollup'[m] = "pending" <=> \E i \in I!Of(m) : atts'[i].status = "pending"
    <2>1. /\ search[m] = {i \in I!Of(m) : atts[i].status = "done"}
          /\ rollup[m] = "pending" <=> \E i \in I!Of(m) : atts[i].status = "pending"
      BY DEF SearchInv, I!Searchable, I!Pending
    <2>2. CASE m \in I!Touched(Agent)
      <3>1. /\ drain[Agent].search[m].was = search[m]
            /\ drain[Agent].search[m].texts = {i \in I!Of(m) : I!Resolved(Agent, i) = "done"}
            /\ drain[Agent].search[m].over <=> \A i \in I!Of(m) : I!Resolved(Agent, i) # "pending"
        BY <2>2 DEF SearchInv, Written, I!Commit, I!rebuild
      <3>2. search'[m] = drain[Agent].search[m].texts
        BY <2>2, <3>1 DEF I!Commit
      <3>3. rollup'[m] = IF drain[Agent].search[m].over THEN "done" ELSE rollup[m]
        BY <2>2 DEF I!Commit
      <3>4. \A i \in I!Of(m) : atts'[i].status = I!Resolved(Agent, i)
        BY <1>3 DEF I!Of, I!Atts
      <3>5. \A i \in I!Of(m) : I!Resolved(Agent, i) = "pending" => atts[i].status = "pending"
        BY DEF I!Resolved
      <3> QED
        BY <2>1, <3>1, <3>2, <3>3, <3>4, <3>5
    <2>3. CASE m \notin I!Touched(Agent)
      <3>1. \A i \in I!Of(m) : i \notin drain[Agent].done
        BY <2>3 DEF I!Touched, I!Of
      <3>2. \A i \in I!Of(m) : atts'[i].status = atts[i].status
        BY <1>3, <3>1 DEF I!Resolved, I!Of, I!Atts
      <3>3. search'[m] = search[m] /\ rollup'[m] = rollup[m]
        BY <2>3 DEF I!Commit
      <3> QED
        BY <2>1, <3>2, <3>3
    <2> QED
      BY <2>2, <2>3
  <1>5. \A m : I!Of(m)' = I!Of(m)
    BY <1>2, <1>3 DEF I!Of, I!Atts
  <1>6. I!Searchable'
    BY <1>4, <1>5 DEF I!Searchable, I!Pending
  <1>7. search' = [m \in Msg |-> search'[m]] /\ rollup' = [m \in Msg |-> rollup'[m]]
    BY DEF I!Commit
  <1> QED
    BY <1>1, <1>6, <1>7 DEF SearchInv

\* A message that is replaced or emptied is none the drain has written of.
LEMMA OthersWrite ==
  ASSUME OneDrainOnly, QueueInv, SearchInv, NEW m \in Msg, I!Replace(m) \/ I!Strip(m)
  PROVE  SearchInv'
  <1>0. /\ UNCHANGED drain /\ ~I!Locked(m)
        /\ search' = [search EXCEPT ![m] = {}] /\ \E x : rollup' = [rollup EXCEPT ![m] = x]
    BY DEF I!Replace, I!Strip
  <1>1. /\ search'[m] = {} /\ \A n \in Msg : n # m => search'[n] = search[n] /\ rollup'[n] = rollup[n]
        /\ search' = [n \in Msg |-> search'[n]] /\ rollup' = [n \in Msg |-> rollup'[n]]
    BY <1>0 DEF SearchInv
  <1>2. /\ DOMAIN atts \subseteq DOMAIN atts'
        /\ \A i \in DOMAIN atts : /\ atts'[i].msg = atts[i].msg
                                  /\ atts[i].msg # m => atts'[i].status = atts[i].status
        /\ \A i \in DOMAIN atts' \ DOMAIN atts : atts'[i].msg = m
    <2>1. CASE I!Replace(m)
      <3>1. Len(I!Fresh(m)) \in Nat
        BY FreshType DEF OneDrainOnly
      <3> QED
        BY <2>1, <3>1, ReplaceRows DEF OneDrainOnly, QueueInv, RowsTyped
    <2>2. CASE I!Strip(m)
      BY <2>2, StripRows DEF OneDrainOnly, QueueInv, RowsTyped
    <2> QED
      BY <2>1, <2>2
  <1>3. \A n : n # m => I!Of(n)' = I!Of(n)
    BY <1>2 DEF I!Of, I!Atts
  <1>4. ASSUME NEW n \in Msg
        PROVE  /\ search'[n] = {i \in I!Of(n)' : atts'[i].status = "done"}
               /\ rollup'[n] = "pending" <=> \E i \in I!Of(n)' : atts'[i].status = "pending"
    <2>1. CASE n # m
      <3>1. \A i \in I!Of(n) : atts'[i].status = atts[i].status
        BY <1>2, <2>1 DEF I!Of, I!Atts
      <3>2. /\ search[n] = {i \in I!Of(n) : atts[i].status = "done"}
            /\ rollup[n] = "pending" <=> \E i \in I!Of(n) : atts[i].status = "pending"
        BY DEF SearchInv, I!Searchable, I!Pending
      <3>3. search'[n] = search[n] /\ rollup'[n] = rollup[n]
        BY <1>1, <2>1
      <3> QED
        BY <1>3, <2>1, <3>1, <3>2, <3>3
    <2>2. CASE n = m /\ I!Strip(m)
      <3>1. \A i \in I!Of(m)' : atts'[i].status \in {"skipped", "deleted"}
        BY <2>2, StripRows DEF I!Of, I!Atts, OneDrainOnly, QueueInv, RowsTyped
      <3>2. rollup'[m] = "none"
        BY <2>2 DEF I!Strip, SearchInv
      <3> QED
        BY <1>1, <2>2, <3>1, <3>2
    <2>3. CASE n = m /\ I!Replace(m)
      <3>1. \A i \in I!Of(m)' : atts'[i].status \in {"pending", "deleted"}
        BY <2>3, ReplaceRows DEF I!Of, I!Atts, OneDrainOnly
      <3>2. \E i \in I!Of(m)' : atts'[i].status = "pending"
        <4>1. Len(I!Fresh(m)) \in Nat /\ Len(I!Fresh(m)) > 0
          BY FreshType DEF OneDrainOnly
        <4>2. Len(atts) + 1 \in DOMAIN atts' \ DOMAIN atts
          BY <2>3, <4>1, ReplaceRows DEF OneDrainOnly, QueueInv, RowsTyped
        <4> QED
          BY <2>3, <4>2, ReplaceRows DEF I!Of, I!Atts, OneDrainOnly
      <3>3. rollup'[m] = "pending"
        BY <2>3 DEF I!Replace, SearchInv
      <3> QED
        BY <1>1, <2>3, <3>1, <3>2, <3>3
    <2> QED
      BY <2>1, <2>2, <2>3
  <1>5. I!Searchable'
    BY <1>4 DEF I!Searchable, I!Pending
  <1>6. Written'
    <2> SUFFICES ASSUME I!At(Agent, "flushed"), NEW n \in I!Touched(Agent)'
                 PROVE  /\ drain[Agent].search[n].was = search'[n]
                        /\ drain[Agent].search[n].texts = I!rebuild(Agent, n)'
                        /\ drain[Agent].search[n].over
                             <=> \A i \in I!Of(n)' : I!Resolved(Agent, i)' # "pending"
      BY <1>0 DEF Written, I!At
    <2>1. drain[Agent].done \subseteq DOMAIN atts /\ \A i \in DOMAIN atts : atts[i].msg \in Msg
      <3>1. drain[Agent].done \subseteq DOMAIN atts
        BY DEF QueueInv, DrainOk, DrainTyped, OneDrainOnly
      <3>2. \A i \in DOMAIN atts : atts[i] \in AttRow
        BY DEF QueueInv, RowsTyped
      <3> QED
        BY <3>1, <3>2 DEF AttRow
    <2>2. I!Touched(Agent)' = I!Touched(Agent)
      BY <1>0, <1>2, <2>1 DEF I!Touched
    <2>3. n # m /\ n \in Msg
      <3>1. n \in Msg
        BY <2>1, <2>2 DEF I!Touched
      <3>2. m \notin I!Touched(Agent)
        BY <1>0 DEF I!Locked, OneDrainOnly
      <3> QED
        BY <2>2, <3>1, <3>2
    <2>4. \A i \in I!Of(n) : I!Resolved(Agent, i)' = I!Resolved(Agent, i)
      BY <1>0, <1>2, <2>3 DEF I!Resolved, I!Of, I!Atts
    <2>5. I!rebuild(Agent, n)' = I!rebuild(Agent, n)
      BY <1>3, <2>3, <2>4 DEF I!rebuild
    <2>6. search'[n] = search[n]
      BY <1>1, <2>3
    <2> QED
      BY <1>3, <2>2, <2>3, <2>4, <2>5, <2>6 DEF SearchInv, Written
  <1> QED
    BY <1>1, <1>5, <1>6 DEF SearchInv

\* Every step keeps text and rollup in line with the rows.
LEMMA SearchInvNext ==
  ASSUME OneDrainOnly, QueueInv, SearchInv, [I!Next]_I!vars
  PROVE  SearchInv'
  <1>0. drain = [d \in {Agent} |-> drain[d]] /\ Drain = {Agent} /\ IsDrain(drain[Agent])
    BY DEF OneDrainOnly, QueueInv, DrainOk, DrainTyped
  <1>1. CASE \E d \in Drain : \/ I!ReadBatch(d) \/ I!Ask(d) \/ I!AskAgain(d) \/ I!Answer(d)
                              \/ I!TimesOut(d) \/ I!Check(d) \/ I!Stale(d) \/ I!GiveUp(d)
    <2>1. UNCHANGED I!rows
      BY <1>1 DEF I!ReadBatch, I!Ask, I!AskAgain, I!Answer, I!TimesOut, I!Check, I!Stale, I!GiveUp
    <2>2. drain'[Agent].pc # "flushed"
      <3>1. \A s : I!Goto(Agent, s) => drain'[Agent] = s
        BY <1>0 DEF I!Goto
      <3>2. /\ I!Stop(Agent).pc = "next" /\ I!Idle.pc = "idle"
            /\ \A i : I!Keep(Agent, i).pc = "next" /\ I!Reject(Agent, i).pc = "next"
        BY <1>0 DEF IsDrain, I!Stop, I!Keep, I!Reject, I!Idle
      <3>3. CASE I!ReadBatch(Agent)
        <4>1. PICK b : I!Goto(Agent, [I!Idle EXCEPT !.pc = "next", !.batch = b])
          BY <3>3 DEF I!ReadBatch
        <4>2. [I!Idle EXCEPT !.pc = "next", !.batch = b].pc = "next"
          BY DEF I!Idle
        <4> QED
          BY <3>1, <4>1, <4>2
      <3>4. CASE I!Ask(Agent)
        <4>1. CASE tika = "down"
          BY <3>1, <3>2, <3>4, <4>1 DEF I!Ask
        <4>2. CASE tika # "down"
          <5>1. PICK i : I!Goto(Agent, [drain[Agent] EXCEPT !.pc = "asking", !.batch = @ \ {i}, !.hand = i])
            BY <3>4, <4>2 DEF I!Ask
          <5>2. [drain[Agent] EXCEPT !.pc = "asking", !.batch = @ \ {i}, !.hand = i].pc = "asking"
            BY <1>0 DEF IsDrain
          <5> QED
            BY <3>1, <5>1, <5>2
        <4> QED
          BY <4>1, <4>2
      <3>5. CASE I!AskAgain(Agent)
        <4>1. [drain[Agent] EXCEPT !.pc = "asking", !.again = TRUE].pc = "asking"
          BY <1>0 DEF IsDrain
        <4> QED
          BY <3>1, <3>5, <4>1 DEF I!AskAgain
      <3>6. CASE I!Answer(Agent) \/ I!TimesOut(Agent) \/ I!Stale(Agent) \/ I!GiveUp(Agent)
        BY <3>1, <3>2, <3>6 DEF I!Answer, I!TimesOut, I!timed_out, I!Stale, I!GiveUp
      <3>7. CASE I!Check(Agent)
        <4> DEFINE done == {i \in drain[Agent].text \cup drain[Agent].reject : I!Pending(i)}
        <4>1. [drain[Agent] EXCEPT !.pc = "checked", !.done = done].pc = "checked"
          BY <1>0 DEF IsDrain
        <4> QED
          BY <3>1, <3>2, <3>7, <4>1 DEF I!Check
      <3> QED
        BY <1>0, <1>1, <3>3, <3>4, <3>5, <3>6, <3>7
    <2> QED
      BY <2>1, <2>2, QuietKeeps
  <1>2. CASE I!TikaDies \/ \E d \in Drain : I!Kill(d)
    <2>1. UNCHANGED I!rows /\ \E D \in SUBSET I!Asking : I!Lose(D)
      BY <1>2 DEF I!TikaDies, I!Kill, I!Asking
    <2>2. drain'[Agent].pc = "flushed" => drain'[Agent] = drain[Agent]
      <3>1. drain'[Agent] = drain[Agent] \/ drain'[Agent] = I!crashed(Agent)
        BY <1>0, <2>1 DEF I!Lose
      <3>2. I!crashed(Agent).pc # "flushed"
        BY <1>0 DEF I!crashed, I!Reject, IsDrain
      <3> QED
        BY <3>1, <3>2
    <2> QED
      BY <2>1, <2>2, QuietKeeps
  <1>3. CASE I!TikaHangs \/ I!TikaRecovers \/ UNCHANGED I!vars
    BY <1>3, QuietKeeps DEF I!TikaHangs, I!TikaRecovers, I!vars
  <1> QED
    BY <1>0, <1>1, <1>2, <1>3, FlushWrites, CommitWrites, OthersWrite DEF I!Next, I!DrainStep

\* While one drain runs a search finds a message by exactly the attachments whose text it
\* has, and it counts as read when none is waiting, through crashes of Tika, mail stored
\* again and mail emptied (extract_pending, rebuild_search_text).
THEOREM TextsFound == ASSUME OneDrainOnly PROVE UpkeepSpec => []Searchable
  <1> DEFINE Inv == part = "indexer" => QueueInv /\ SearchInv
  <1>1. UpkeepInit => Inv
    BY QueueInvInit, SearchInvInit DEF UpkeepInit, OneDrainOnly
  <1>2. Inv /\ [UpkeepNext]_upkeepVars => Inv'
    BY PartSteps, QueueInvNext, SearchInvNext DEF OneDrainOnly
  <1>3. Inv => Searchable
    BY DEF SearchInv, Searchable
  <1> QED
    BY <1>1, <1>2, <1>3, PTL DEF UpkeepSpec

----------------------------------------------------------------------------
\* A set of numbers with a bound has a greatest.
LEMMA Greatest ==
  ASSUME NEW n \in Nat, NEW T \in SUBSET (1..n), T # {}
  PROVE  \E x \in T : \A y \in T : y <= x
  <1> DEFINE U == {n - x : x \in T}
  <1>1. U \in SUBSET Nat /\ U # {}
    <2>1. \A x \in T : n - x \in Nat
      OBVIOUS
    <2> QED
      BY <2>1
  <1>2. PICK u \in U : \A v \in U : u <= v
    BY <1>1, Least
  <1>3. PICK x \in T : u = n - x
    OBVIOUS
  <1>4. \A y \in T : n - x <= n - y
    BY <1>2, <1>3
  <1> QED
    BY <1>4

SegmentConstants == MaxSegments \in Nat /\ MaxUnits \in Nat /\ SEPARATOR_UNITS \in Nat

\* Where each of the first n paragraphs ends, and the units up to there.
IsEnd(s, f, n) ==
    f = [i \in 0..n |-> IF i = 0 THEN -SEPARATOR_UNITS ELSE f[i-1] + SEPARATOR_UNITS + s[i]]

IsUpto(s, f, n) ==
    f = [i \in 0..n |->
           IF i = 0 THEN <<>>
           ELSE f[i-1] \o (IF i = 1 THEN <<>> ELSE [k \in 1..SEPARATOR_UNITS |-> <<0, k>>])
                       \o [k \in 1..s[i] |-> <<i, k - 1>>]]

\* The ends of the paragraphs are defined,
LEMMA EndDefined ==
  ASSUME NEW s, NEW n \in Nat
  PROVE  \E f : IsEnd(s, f, n)
  <1> DEFINE S == {k \in Nat : \E f : IsEnd(s, f, k)}
  <1>1. 0 \in S
    <2>1. IsEnd(s, [i \in 0..0 |-> -SEPARATOR_UNITS], 0)
      BY DEF IsEnd
    <2> QED
      BY <2>1
  <1>2. ASSUME NEW k \in Nat, k \in S PROVE k + 1 \in S
    <2>1. PICK f : IsEnd(s, f, k)
      BY <1>2
    <2> DEFINE h == [i \in 0..(k+1) |-> IF i <= k THEN f[i] ELSE f[k] + SEPARATOR_UNITS + s[i]]
    <2>2. \A i \in 0..k : f[i] = IF i = 0 THEN -SEPARATOR_UNITS ELSE f[i-1] + SEPARATOR_UNITS + s[i]
      BY <2>1 DEF IsEnd
    <2>3. \A i \in 0..(k+1) : h[i] = IF i = 0 THEN -SEPARATOR_UNITS
                                     ELSE h[i-1] + SEPARATOR_UNITS + s[i]
      BY <2>2
    <2>4. IsEnd(s, h, k + 1)
      BY <2>3 DEF IsEnd
    <2> QED
      BY <2>4
  <1> HIDE DEF S
  <1>3. n \in S
    BY <1>1, <1>2, Induct
  <1> QED
    BY <1>3 DEF S

\* and so are the units up to each.
LEMMA UptoDefined ==
  ASSUME NEW s, NEW n \in Nat
  PROVE  \E f : IsUpto(s, f, n)
  <1> DEFINE S == {k \in Nat : \E f : IsUpto(s, f, k)}
             more(g, i) == g \o (IF i = 1 THEN <<>> ELSE [k \in 1..SEPARATOR_UNITS |-> <<0, k>>])
                             \o [k \in 1..s[i] |-> <<i, k - 1>>]
  <1>1. 0 \in S
    <2>1. IsUpto(s, [i \in 0..0 |-> <<>>], 0)
      BY DEF IsUpto
    <2> QED
      BY <2>1
  <1>2. ASSUME NEW k \in Nat, k \in S PROVE k + 1 \in S
    <2>1. PICK f : IsUpto(s, f, k)
      BY <1>2
    <2> DEFINE h == [i \in 0..(k+1) |-> IF i <= k THEN f[i] ELSE more(f[k], i)]
    <2>2. \A i \in 0..k : f[i] = IF i = 0 THEN <<>> ELSE more(f[i-1], i)
      BY <2>1 DEF IsUpto
    <2>3. \A i \in 0..(k+1) : h[i] = IF i = 0 THEN <<>> ELSE more(h[i-1], i)
      <3> HIDE DEF more
      <3> QED
        BY <2>2
    <2>4. IsUpto(s, h, k + 1)
      BY <2>3 DEF IsUpto
    <2> QED
      BY <2>4
  <1> HIDE DEF S
  <1>3. n \in S
    BY <1>1, <1>2, Induct
  <1> QED
    BY <1>3 DEF S

\* spans and Text are these.
LEMMA SpansAre ==
  ASSUME NEW s, Len(s) \in Nat
  PROVE  \E f : IsEnd(s, f, Len(s)) /\ M!spans(s) = [i \in DOMAIN s |-> <<f[i] - s[i], f[i]>>]
  <1> DEFINE f == CHOOSE f : IsEnd(s, f, Len(s))
  <1>1. IsEnd(s, f, Len(s))
    BY EndDefined
  <1>2. M!spans(s) = [i \in DOMAIN s |-> <<f[i] - s[i], f[i]>>]
    BY Zenon DEF M!spans, IsEnd
  <1> QED
    BY <1>1, <1>2

\* Text is what it is defined to be.
LEMMA TextIs ==
  ASSUME NEW s, Len(s) \in Nat
  PROVE  \E f : IsUpto(s, f, Len(s)) /\ M!Text(s) = f[Len(s)]
  <1> DEFINE f == CHOOSE f : IsUpto(s, f, Len(s))
  <1>1. IsUpto(s, f, Len(s))
    BY UptoDefined
  <1>2. M!Text(s) = f[Len(s)]
    BY Zenon DEF M!Text, IsUpto
  <1> QED
    BY <1>1, <1>2

\* The ends grow, and every paragraph starts where its units do.
LEMMA EndsGrow ==
  ASSUME SegmentConstants, NEW n \in Nat, NEW s \in [1..n -> Nat], NEW e, IsEnd(s, e, n)
  PROVE  /\ e[0] = -SEPARATOR_UNITS
         /\ \A i \in 1..n : /\ e[i] \in Nat /\ e[i] - s[i] \in Nat
                            /\ e[i] - s[i] = e[i-1] + SEPARATOR_UNITS
         /\ \A i \in 1..n, j \in 1..n : i < j => e[i] <= e[j] - s[j]
  <1>0. /\ e[0] = -SEPARATOR_UNITS /\ SEPARATOR_UNITS \in Nat
        /\ \A i \in 1..n : e[i] = e[i-1] + SEPARATOR_UNITS + s[i] /\ s[i] \in Nat
    BY DEF IsEnd, SegmentConstants
  <1> DEFINE Good(k) == /\ e[k] \in Int /\ e[k] >= -SEPARATOR_UNITS /\ (k # 0 => e[k] \in Nat)
                        /\ \A i \in 1..k : e[i] \in Int /\ e[i] <= e[k]
             S == {k \in Nat : k <= n => Good(k)}
  <1>1. 0 \in S
    BY <1>0
  <1>2. ASSUME NEW k \in Nat, k \in S PROVE k + 1 \in S
    <2> SUFFICES ASSUME k + 1 <= n PROVE Good(k + 1)
      OBVIOUS
    <2>1. k + 1 \in 1..n /\ (k + 1) - 1 = k
      OBVIOUS
    <2>2. e[k+1] = e[k] + SEPARATOR_UNITS + s[k+1] /\ s[k+1] \in Nat
      BY <1>0, <2>1
    <2>3. /\ e[k] \in Int /\ e[k] >= -SEPARATOR_UNITS /\ (k # 0 => e[k] \in Nat)
          /\ \A i \in 1..k : e[i] \in Int /\ e[i] <= e[k]
      BY <1>2
    <2>4. e[k+1] \in Nat /\ e[k] <= e[k+1]
      BY <1>0, <2>2, <2>3
    <2>5. \A i \in 1..(k+1) : e[i] \in Int /\ e[i] <= e[k+1]
      <3> TAKE i \in 1..(k+1)
      <3>1. CASE i = k + 1
        BY <2>4, <3>1
      <3>2. CASE i \in 1..k
        BY <2>3, <2>4, <3>2
      <3> QED
        BY <3>1, <3>2
    <2> QED
      BY <1>0, <2>4, <2>5
  <1>3. \A k \in 0..n : Good(k)
    <2> HIDE DEF S
    <2>1. Nat \subseteq S
      BY <1>1, <1>2, Induct
    <2> QED
      BY <2>1 DEF S
  <1>4. \A i \in 1..n : /\ e[i] \in Nat /\ e[i] - s[i] \in Nat
                        /\ e[i] - s[i] = e[i-1] + SEPARATOR_UNITS
    <2> TAKE i \in 1..n
    <2>1. Good(i) /\ Good(i-1)
      BY <1>3
    <2>2. e[i] \in Nat /\ e[i-1] \in Int /\ e[i-1] >= -SEPARATOR_UNITS
      BY <2>1
    <2>3. e[i] = e[i-1] + SEPARATOR_UNITS + s[i] /\ s[i] \in Nat
      BY <1>0
    <2> QED
      BY <1>0, <2>2, <2>3
  <1>5. ASSUME NEW i \in 1..n, NEW j \in 1..n, i < j PROVE e[i] <= e[j] - s[j]
    <2>1. Good(j-1) /\ i \in 1..(j-1)
      BY <1>3, <1>5
    <2>2. e[j] - s[j] = e[j-1] + SEPARATOR_UNITS
      BY <1>4
    <2> QED
      BY <1>0, <2>1, <2>2
  <1> QED
    BY <1>0, <1>4, <1>5

\* A unit, by paragraph and place.
Placed == Nat \X Nat

\* Within and between: unit k of the joined text is of paragraph j, or of none.
Inner(s, e, j, k) == e[j] - s[j] < k /\ k <= e[j]

\* A function of the first numbers is a sequence.
LEMMA IsSeq ==
  ASSUME NEW S, NEW m \in Nat, NEW f \in [1..m -> S]
  PROVE  f \in Seq(S) /\ Len(f) = m
  OBVIOUS

Laid(s, e, u, n) ==
    /\ u \in Seq(Placed) /\ Len(u) = IF n = 0 THEN 0 ELSE e[n]
    /\ \A k \in 1..Len(u) :
         \/ \E j \in 1..n : Inner(s, e, j, k) /\ u[k] = <<j, k - 1 - (e[j] - s[j])>>
         \/ u[k][1] = 0 /\ \A j \in 1..n : ~Inner(s, e, j, k)

\* The joined text is laid out so.
LEMMA Layout ==
  ASSUME SegmentConstants, NEW n \in Nat, NEW s \in [1..n -> Nat],
         NEW e, IsEnd(s, e, n), NEW t, IsUpto(s, t, n)
  PROVE  Laid(s, e, t[n], n)
  <1> DEFINE Good(i) == /\ t[i] \in Seq(Placed) /\ Len(t[i]) = IF i = 0 THEN 0 ELSE e[i]
                        /\ \A k \in 1..Len(t[i]) :
                             \/ \E j \in 1..i : Inner(s, e, j, k) /\ t[i][k] = <<j, k - 1 - (e[j] - s[j])>>
                             \/ t[i][k][1] = 0 /\ \A j \in 1..i : ~Inner(s, e, j, k)
             S == {i \in Nat : i <= n => Good(i)}
  <1>0. SEPARATOR_UNITS \in Nat /\ t[0] = <<>>
    BY DEF SegmentConstants, IsUpto
  <1>1. 0 \in S
    <2>1. t[0] \in Seq(Placed) /\ Len(t[0]) = 0
      BY <1>0
    <2> QED
      BY <2>1
  <1>2. ASSUME NEW i \in Nat, i \in S, i + 1 <= n PROVE Good(i + 1)
    <2> DEFINE gap == IF i + 1 = 1 THEN <<>> ELSE [k \in 1..SEPARATOR_UNITS |-> <<0, k>>]
               own == [k \in 1..s[i+1] |-> <<i + 1, k - 1>>]
    <2>0. i + 1 \in 1..n /\ (i + 1) - 1 = i /\ i + 1 # 0 /\ s[i+1] \in Nat
      BY <1>2
    <2>1. t[i+1] = (t[i] \o gap) \o own
      <3>1. i + 1 \in 0..n
        BY <2>0
      <3> QED
        BY <2>0, <3>1, Zenon DEF IsUpto
    <2>2. /\ t[i] \in Seq(Placed) /\ Len(t[i]) = IF i = 0 THEN 0 ELSE e[i]
          /\ \A k \in 1..Len(t[i]) :
               \/ \E j \in 1..i : Inner(s, e, j, k) /\ t[i][k] = <<j, k - 1 - (e[j] - s[j])>>
               \/ t[i][k][1] = 0 /\ \A j \in 1..i : ~Inner(s, e, j, k)
      BY <1>2
    <2>3. gap \in Seq(Placed) /\ Len(gap) = (IF i = 0 THEN 0 ELSE SEPARATOR_UNITS)
          /\ \A k \in 1..Len(gap) : gap[k][1] = 0
      BY <1>0 DEF Placed
    <2>4. own \in Seq(Placed) /\ Len(own) = s[i+1] /\ \A k \in 1..s[i+1] : own[k] = <<i + 1, k - 1>>
      <3>1. \A k \in 1..s[i+1] : <<i + 1, k - 1>> \in Placed
        BY <2>0 DEF Placed
      <3>2. own \in [1..s[i+1] -> Placed] /\ \A k \in 1..s[i+1] : own[k] = <<i + 1, k - 1>>
        BY <3>1
      <3> HIDE DEF own
      <3> QED
        BY <2>0, <3>2, IsSeq
    <2>5. /\ e[0] = -SEPARATOR_UNITS
          /\ e[i+1] \in Nat /\ e[i+1] - s[i+1] \in Nat /\ e[i+1] - s[i+1] = e[i] + SEPARATOR_UNITS
          /\ i # 0 => e[i] \in Nat
          /\ \A j \in 1..i : /\ e[j] \in Nat /\ e[j] - s[j] \in Nat /\ e[j] <= e[i+1] - s[i+1]
      <3>1. \A j \in 1..i : j \in 1..n /\ j < i + 1
        BY <2>0
      <3>2. i # 0 => i \in 1..n
        BY <2>0
      <3>3. e[0] = -SEPARATOR_UNITS /\ e[i+1] \in Nat /\ e[i+1] - s[i+1] \in Nat
            /\ e[i+1] - s[i+1] = e[i] + SEPARATOR_UNITS
        BY <2>0, EndsGrow
      <3>4. i # 0 => e[i] \in Nat
        BY <3>2, EndsGrow
      <3>5. \A j \in 1..i : /\ e[j] \in Nat /\ e[j] - s[j] \in Nat /\ e[j] <= e[i+1] - s[i+1]
        BY <2>0, <3>1, EndsGrow
      <3> QED
        BY <3>3, <3>4, <3>5
    <2>6. Len(t[i]) + Len(gap) = e[i+1] - s[i+1] /\ Len(t[i]) \in Nat
      BY <1>0, <2>2, <2>3, <2>5
    <2> HIDE DEF gap, own
    <2>7. /\ t[i+1] \in Seq(Placed) /\ Len(t[i+1]) = e[i+1]
          /\ \A k \in 1..Len(t[i]) : t[i+1][k] = t[i][k]
          /\ \A k \in (Len(t[i])+1)..(e[i+1] - s[i+1]) :
               k - Len(t[i]) \in 1..Len(gap) /\ t[i+1][k] = gap[k - Len(t[i])]
          /\ \A k \in (e[i+1] - s[i+1] + 1)..e[i+1] :
               k - (e[i+1] - s[i+1]) \in 1..s[i+1] /\ t[i+1][k] = own[k - (e[i+1] - s[i+1])]
      <3>0. PICK head : head = t[i] \o gap
        OBVIOUS
      <3>1. /\ head \in Seq(Placed) /\ Len(head) = Len(t[i]) + Len(gap) /\ Len(gap) \in Nat
            /\ \A k \in 1..Len(t[i]) : head[k] = t[i][k]
            /\ \A k \in (Len(t[i])+1)..Len(head) : k - Len(t[i]) \in 1..Len(gap) /\ head[k] = gap[k - Len(t[i])]
        <4>1. t[i] \in Seq(Placed) /\ gap \in Seq(Placed)
          BY <2>2, <2>3
        <4> QED
          BY <3>0, <4>1, Joined
      <3>2. t[i+1] = head \o own
        BY <2>1, <3>0
      <3>3. /\ t[i+1] \in Seq(Placed) /\ Len(t[i+1]) = Len(head) + Len(own)
            /\ \A k \in 1..Len(head) : t[i+1][k] = head[k]
            /\ \A k \in (Len(head)+1)..Len(t[i+1]) :
                 k - Len(head) \in 1..Len(own) /\ t[i+1][k] = own[k - Len(head)]
        <4>1. head \in Seq(Placed) /\ own \in Seq(Placed)
          BY <2>4, <3>1
        <4> QED
          BY <3>2, <4>1, Joined
      <3>4. Len(head) = e[i+1] - s[i+1] /\ Len(t[i+1]) = e[i+1]
        BY <2>0, <2>4, <2>5, <2>6, <3>1, <3>3
      <3>5. \A k \in 1..Len(t[i]) : t[i+1][k] = t[i][k]
        <4>1. \A k \in 1..Len(t[i]) : k \in 1..Len(head)
          BY <2>6, <3>1
        <4> QED
          BY <3>1, <3>3, <4>1
      <3>6. \A k \in (Len(t[i])+1)..Len(head) : t[i+1][k] = head[k]
        <4>1. \A k \in (Len(t[i])+1)..Len(head) : k \in 1..Len(head)
          BY <2>6, <3>1
        <4> QED
          BY <3>3, <4>1
      <3> QED
        BY <2>4, <3>1, <3>3, <3>4, <3>5, <3>6
    <2>8. ASSUME NEW k \in 1..e[i+1]
          PROVE  \/ \E j \in 1..(i+1) : Inner(s, e, j, k) /\ t[i+1][k] = <<j, k - 1 - (e[j] - s[j])>>
                 \/ t[i+1][k][1] = 0 /\ \A j \in 1..(i+1) : ~Inner(s, e, j, k)
      <3>0. e[i+1] - s[i+1] \in Nat /\ \A j \in 1..(i+1) : j \in 1..i \/ j = i + 1
        BY <2>5
      <3>1. CASE k \in 1..Len(t[i])
        <4>1. k <= e[i+1] - s[i+1]
          <5>1. Len(gap) \in Nat
            BY <1>0, <2>3
          <5> QED
            BY <2>5, <2>6, <3>1, <5>1
        <4>2. ~Inner(s, e, i + 1, k)
          BY <3>0, <4>1 DEF Inner
        <4>3. t[i+1][k] = t[i][k]
          BY <2>7, <3>1
        <4>4. CASE \E j \in 1..i : Inner(s, e, j, k) /\ t[i][k] = <<j, k - 1 - (e[j] - s[j])>>
          <5>1. \A j \in 1..i : j \in 1..(i+1)
            OBVIOUS
          <5> QED
            BY <4>3, <4>4, <5>1
        <4>5. CASE t[i][k][1] = 0 /\ \A j \in 1..i : ~Inner(s, e, j, k)
          BY <3>0, <4>2, <4>3, <4>5
        <4> QED
          BY <2>2, <3>1, <4>4, <4>5
      <3>2. CASE k \in (Len(t[i])+1)..(e[i+1] - s[i+1])
        <4>1. t[i+1][k][1] = 0
          BY <2>3, <2>7, <3>2
        <4>2. i # 0
          BY <2>2, <2>3, <2>6, <3>2
        <4>3. \A j \in 1..i : e[j] <= e[i]
          <5> TAKE j \in 1..i
          <5>1. CASE j = i
            BY <2>5, <4>2, <5>1
          <5>2. CASE j < i
            <6>1. j \in 1..n /\ i \in 1..n
              BY <2>0
            <6>2. e[j] <= e[i] - s[i] /\ s[i] \in Nat /\ e[i] \in Nat /\ e[j] \in Nat
              BY <5>2, <6>1, EndsGrow
            <6> QED
              BY <6>2
          <5> QED
            BY <5>1, <5>2
        <4>4. \A j \in 1..i : ~Inner(s, e, j, k)
          BY <2>2, <2>5, <3>2, <4>2, <4>3 DEF Inner
        <4>5. ~Inner(s, e, i + 1, k)
          BY <2>5, <3>2 DEF Inner
        <4> QED
          BY <3>0, <4>1, <4>4, <4>5
      <3>3. CASE k \in (e[i+1] - s[i+1] + 1)..e[i+1]
        <4>1. t[i+1][k] = <<i + 1, k - (e[i+1] - s[i+1]) - 1>>
          BY <2>4, <2>7, <3>3
        <4>2. k - (e[i+1] - s[i+1]) - 1 = k - 1 - (e[i+1] - s[i+1])
          BY <2>5
        <4>3. Inner(s, e, i + 1, k)
          BY <2>5, <3>3 DEF Inner
        <4>4. i + 1 \in 1..(i+1)
          OBVIOUS
        <4> QED
          BY <4>1, <4>2, <4>3, <4>4
      <3>4. k \in 1..Len(t[i]) \/ k \in (Len(t[i])+1)..(e[i+1] - s[i+1]) \/ k \in (e[i+1] - s[i+1] + 1)..e[i+1]
        BY <2>5, <2>6
      <3> QED
        BY <3>1, <3>2, <3>3, <3>4
    <2> QED
      BY <2>7, <2>8
  <1>3. n \in S
    <2> HIDE DEF Good
    <2>1. \A i \in Nat : i \in S => i + 1 \in S
      BY <1>2
    <2> HIDE DEF S
    <2> QED
      BY <1>1, <2>1, Induct
  <1> QED
    BY <1>3 DEF Laid

\* The paragraph a match is in, if it is in one.
Inside(s, e, m, i) == e[i] - s[i] <= m.offset /\ m.offset + m.length <= e[i]

\* _locate finds the paragraph that the match is inside of, and nothing if there is none.
LEMMA Locates ==
  ASSUME SegmentConstants, NEW n \in Nat, NEW s \in [1..n -> Nat],
         NEW e, IsEnd(s, e, n), M!spans(s) = [i \in 1..n |-> <<e[i] - s[i], e[i]>>],
         NEW m \in [offset : Nat, length : Nat], m.length > 0
  PROVE  \/ \E i \in 1..n : Inside(s, e, m, i) /\ M!_locate(s, m) = <<i, m.offset - (e[i] - s[i])>>
         \/ (\A i \in 1..n : ~Inside(s, e, m, i)) /\ M!_locate(s, m) = <<>>
  <1> DEFINE before == {i \in DOMAIN s : M!spans(s)[i][1] <= m.offset}
             last   == CHOOSE i \in before : \A j \in before : j <= i
  <1>0. /\ DOMAIN s = 1..n /\ m.offset \in Nat /\ m.length \in Nat
        /\ \A i \in 1..n : M!spans(s)[i][1] = e[i] - s[i] /\ M!spans(s)[i][2] = e[i]
    OBVIOUS
  <1>1. before = {i \in 1..n : e[i] - s[i] <= m.offset}
    BY <1>0
  <1>2. M!_locate(s, m) = IF before = {} THEN <<>>
                          ELSE IF m.offset + m.length > M!spans(s)[last][2] THEN <<>>
                               ELSE <<last, m.offset - M!spans(s)[last][1]>>
    BY Zenon DEF M!_locate
  <1>3. CASE before = {}
    BY <1>1, <1>2, <1>3 DEF Inside
  <1>4. CASE before # {}
    <2>1. last \in before /\ \A j \in before : j <= last
      <3> HIDE DEF before
      <3>1. before \in SUBSET (1..n)
        BY <1>1
      <3>2. \E i \in before : \A j \in before : j <= i
        BY <1>4, <3>1, Greatest
      <3> QED
        BY <3>2
    <2> HIDE DEF last, before
    <2>2. last \in 1..n /\ e[last] - s[last] <= m.offset
      BY <1>1, <2>1
    <2>3. M!_locate(s, m) = IF m.offset + m.length > e[last] THEN <<>>
                            ELSE <<last, m.offset - (e[last] - s[last])>>
      BY <1>0, <1>2, <1>4, <2>2
    <2>4. e[last] \in Nat
      BY <2>2, EndsGrow
    <2>5. CASE m.offset + m.length <= e[last]
      <3>1. ~(m.offset + m.length > e[last])
        BY <1>0, <2>4, <2>5
      <3>2. M!_locate(s, m) = <<last, m.offset - (e[last] - s[last])>>
        BY <2>3, <3>1
      <3> QED
        BY <2>2, <2>5, <3>2 DEF Inside
    <2>6. CASE m.offset + m.length > e[last]
      <3>1. ASSUME NEW i \in 1..n, Inside(s, e, m, i) PROVE FALSE
        <4>1. e[i] \in Nat /\ e[i] - s[i] \in Nat /\ s[i] \in Nat
          BY EndsGrow
        <4>2. i \in before
          BY <1>1, <3>1 DEF Inside
        <4>3. i <= last
          BY <2>1, <4>2
        <4>4. i = last \/ i < last
          BY <2>2, <4>3
        <4>5. i # last
          BY <1>0, <2>4, <2>6, <3>1 DEF Inside
        <4>6. e[i] <= e[last] - s[last]
          BY <2>2, <4>4, <4>5, EndsGrow
        <4> QED
          BY <1>0, <2>2, <2>4, <3>1, <4>1, <4>6 DEF Inside
      <3> QED
        BY <1>0, <2>3, <2>4, <2>6, <3>1
    <2> QED
      BY <1>0, <2>4, <2>5, <2>6
  <1> QED
    BY <1>3, <1>4

\* A match that is inside a paragraph covers units of that one alone, in its order; one
\* that covers units of one alone is inside it.
Covered(s, e, u, n, m, meant) ==
    /\ \A i \in 1..n : Inside(s, e, m, i) =>
          /\ m.offset + m.length <= Len(u)
          /\ {u[k][1] : k \in meant} = {i}
          /\ {u[k][2] : k \in meant} =
               (m.offset - (e[i] - s[i])) .. (m.offset - (e[i] - s[i]) + m.length - 1)
    /\ \A i : /\ i # 0 /\ {u[k][1] : k \in meant} = {i}
              /\ m.offset + m.length <= Len(u)
         => i \in 1..n /\ Inside(s, e, m, i)

\* Inside one paragraph, and covering units of one alone, are the same.
LEMMA Covers ==
  ASSUME SegmentConstants, NEW n \in Nat, NEW s \in [1..n -> Nat],
         NEW e, IsEnd(s, e, n), NEW u, Laid(s, e, u, n),
         NEW m \in [offset : Nat, length : Nat], m.length > 0,
         NEW meant, meant = {k \in DOMAIN u : k > m.offset /\ k <= m.offset + m.length}
  PROVE  Covered(s, e, u, n, m, meant)
  <1>0. m.offset \in Nat /\ m.length \in Nat /\ Len(u) \in Nat /\ DOMAIN u = 1..Len(u)
    BY DEF Laid
  <1>1. \A i \in 1..n : e[i] \in Nat /\ e[i] - s[i] \in Nat /\ s[i] \in Nat /\ e[i] <= Len(u)
    <2> TAKE i \in 1..n
    <2>0. n \in 1..n /\ n # 0 /\ (i = n \/ i < n)
      OBVIOUS
    <2>1. /\ e[i] \in Nat /\ e[i] - s[i] \in Nat /\ s[i] \in Nat
          /\ e[n] \in Nat /\ e[n] - s[n] \in Nat /\ s[n] \in Nat
      BY <2>0, EndsGrow
    <2>2. i = n \/ e[i] <= e[n] - s[n]
      BY <2>0, EndsGrow
    <2>3. Len(u) = e[n]
      BY <2>0 DEF Laid
    <2> QED
      BY <2>1, <2>2, <2>3
  <1>2. \A i \in 1..n, j \in 1..n, k \in 1..Len(u) : Inner(s, e, i, k) /\ Inner(s, e, j, k) => i = j
    <2> SUFFICES ASSUME NEW i \in 1..n, NEW j \in 1..n, NEW k \in 1..Len(u),
                        Inner(s, e, i, k), Inner(s, e, j, k), i < j
                 PROVE  FALSE
      BY SMT
    <2>1. e[i] <= e[j] - s[j]
      BY EndsGrow
    <2>2. k <= e[i] /\ e[j] - s[j] < k /\ k \in Nat
      BY DEF Inner
    <2>3. e[i] \in Nat /\ e[j] - s[j] \in Nat
      BY <1>1
    <2> QED
      BY <2>1, <2>2, <2>3
  <1>3. \A i \in 1..n, k \in 1..Len(u) :
           Inner(s, e, i, k) => u[k] = <<i, k - 1 - (e[i] - s[i])>>
    <2> TAKE i \in 1..n, k \in 1..Len(u)
    <2> HAVE Inner(s, e, i, k)
    <2>1. \/ \E j \in 1..n : Inner(s, e, j, k) /\ u[k] = <<j, k - 1 - (e[j] - s[j])>>
          \/ u[k][1] = 0 /\ \A j \in 1..n : ~Inner(s, e, j, k)
      BY DEF Laid
    <2>2. PICK j \in 1..n : Inner(s, e, j, k) /\ u[k] = <<j, k - 1 - (e[j] - s[j])>>
      BY <2>1
    <2>3. i = j
      BY <1>2, <2>2
    <2> QED
      BY <2>2, <2>3
  <1>4. ASSUME NEW i \in 1..n, Inside(s, e, m, i)
        PROVE  /\ m.offset + m.length <= Len(u)
               /\ {u[k][1] : k \in meant} = {i}
               /\ {u[k][2] : k \in meant} =
                    (m.offset - (e[i] - s[i])) .. (m.offset - (e[i] - s[i]) + m.length - 1)
    <2>1. m.offset + m.length <= Len(u)
      BY <1>0, <1>1, <1>4 DEF Inside
    <2>2. meant = (m.offset + 1) .. (m.offset + m.length)
      BY <1>0, <2>1
    <2>3. \A k \in meant : Inner(s, e, i, k) /\ k \in 1..Len(u)
      BY <1>0, <1>1, <1>4, <2>1, <2>2 DEF Inside, Inner
    <2>4. \A k \in meant : u[k] = <<i, k - 1 - (e[i] - s[i])>>
      BY <1>3, <2>3
    <2>5. m.offset + 1 \in meant
      BY <1>0, <2>2
    <2>6. {u[k][1] : k \in meant} = {i}
      BY <2>4, <2>5
    <2>7. {u[k][2] : k \in meant} = {k - 1 - (e[i] - s[i]) : k \in meant}
      BY <2>4
    <2>8. {k - 1 - (e[i] - s[i]) : k \in meant}
            = (m.offset - (e[i] - s[i])) .. (m.offset - (e[i] - s[i]) + m.length - 1)
      <3>0. PICK b, o, l : b = e[i] - s[i] /\ o = m.offset /\ l = m.length
        OBVIOUS
      <3>1. b \in Nat /\ o \in Nat /\ l \in Nat /\ meant = (o + 1)..(o + l)
        BY <1>0, <1>1, <2>2, <3>0
      <3>2. \A x \in (o - b) .. (o - b + l - 1) : x + 1 + b \in meant /\ x = (x + 1 + b) - 1 - b
        <4> TAKE x \in (o - b) .. (o - b + l - 1)
        <4>1. x \in Int /\ o - b <= x /\ x <= o - b + l - 1
          BY <3>1
        <4>2. x + 1 + b \in Int /\ o + 1 <= x + 1 + b /\ x + 1 + b <= o + l /\ x = (x + 1 + b) - 1 - b
          BY <3>1, <4>1
        <4> QED
          BY <3>1, <4>2
      <3>3. \A k \in meant : k - 1 - b \in (o - b) .. (o - b + l - 1)
        BY <3>1
      <3>4. {k - 1 - b : k \in meant} = (o - b) .. (o - b + l - 1)
        BY <3>2, <3>3
      <3> QED
        BY <3>0, <3>4
    <2> QED
      BY <2>1, <2>6, <2>7, <2>8
  <1>5. ASSUME NEW i, i # 0, {u[k][1] : k \in meant} = {i}, m.offset + m.length <= Len(u)
        PROVE  i \in 1..n /\ Inside(s, e, m, i)
    <2>1. meant = (m.offset + 1) .. (m.offset + m.length)
      BY <1>0, <1>5
    <2>2. \A k \in meant : u[k][1] = i /\ k \in 1..Len(u)
      BY <1>0, <1>5
    <2>3. \A k \in meant : i \in 1..n /\ Inner(s, e, i, k)
      <3> TAKE k \in meant
      <3>1. PICK j \in 1..n : Inner(s, e, j, k) /\ u[k] = <<j, k - 1 - (e[j] - s[j])>>
        <4>1. k \in 1..Len(u) /\ u[k][1] # 0
          BY <1>5, <2>2
        <4> QED
          BY <4>1 DEF Laid
      <3> QED
        BY <2>2, <3>1
    <2>4. m.offset + 1 \in meant /\ m.offset + m.length \in meant
      BY <1>0, <2>1
    <2>5. i \in 1..n /\ Inner(s, e, i, m.offset + 1) /\ Inner(s, e, i, m.offset + m.length)
      BY <2>3, <2>4
    <2> QED
      BY <1>0, <1>1, <2>5 DEF Inner, Inside
  <1> QED
    BY <1>4, <1>5 DEF Covered

SegmentInv ==
    /\ \E n \in Nat : segments \in [1..n -> Nat]
    /\ match \in [offset : Nat, length : Nat]
    /\ where = <<"asked">> \/ where = M!_locate(segments, match)

\* What _locate answers is what the checker meant.
LEMMA SegmentsUnderline == SegmentConstants /\ SegmentInv => M!Underlined
  <1> SUFFICES ASSUME SegmentConstants, SegmentInv, where # <<"asked">>, match.length > 0
               PROVE  M!Underlined
    BY DEF M!Underlined
  <1> DEFINE s == segments
             m == match
             T == M!Text(s)
             meant == {k \in DOMAIN T : k > m.offset /\ k <= m.offset + m.length}
             home == {T[k][1] : k \in meant}
  <1>0. PICK n \in Nat : s \in [1..n -> Nat]
    BY DEF SegmentInv
  <1>1. Len(s) = n
    BY <1>0
  <1>2. PICK e : IsEnd(s, e, n) /\ M!spans(s) = [i \in 1..n |-> <<e[i] - s[i], e[i]>>]
    BY <1>0, <1>1, SpansAre
  <1>3. PICK t : IsUpto(s, t, n) /\ T = t[n]
    BY <1>0, <1>1, TextIs
  <1>4. m \in [offset : Nat, length : Nat] /\ where = M!_locate(s, m)
    BY DEF SegmentInv
  <1>5. \/ \E i \in 1..n : Inside(s, e, m, i) /\ where = <<i, m.offset - (e[i] - s[i])>>
        \/ (\A i \in 1..n : ~Inside(s, e, m, i)) /\ where = <<>>
    BY <1>0, <1>2, <1>4, Locates
  <1> SUFFICES IF \E i \in home : i # 0 /\ home = {i} /\ m.offset + m.length <= Len(T)
               THEN /\ where # <<>> /\ home = {where[1]}
                    /\ {T[k][2] : k \in meant} = where[2] .. where[2] + m.length - 1
               ELSE where = <<>>
    BY Zenon DEF M!Underlined
  <1> HIDE DEF T, s, m
  <1>6. /\ \A i \in 1..n : Inside(s, e, m, i) =>
             /\ m.offset + m.length <= Len(T) /\ home = {i}
             /\ {T[k][2] : k \in meant} =
                  (m.offset - (e[i] - s[i])) .. (m.offset - (e[i] - s[i]) + m.length - 1)
        /\ \A i : i # 0 /\ home = {i} /\ m.offset + m.length <= Len(T)
             => i \in 1..n /\ Inside(s, e, m, i)
    <2> HIDE DEF meant
    <2>1. meant = {k \in DOMAIN t[n] : k > m.offset /\ k <= m.offset + m.length}
      BY <1>3 DEF meant
    <2>2. m \in [offset : Nat, length : Nat] /\ m.length > 0
      BY <1>4 DEF m
    <2>3. Laid(s, e, t[n], n)
      BY <1>0, <1>2, <1>3, Layout
    <2>4. Covered(s, e, t[n], n, m, meant)
      BY <1>0, <1>2, <2>1, <2>2, <2>3, Covers
    <2>5. Covered(s, e, T, n, m, meant)
      BY <1>3, <2>4
    <2> QED
      BY <2>5 DEF Covered
  <1> HIDE DEF home, meant
  <1>7. CASE (\A i \in 1..n : ~Inside(s, e, m, i)) /\ where = <<>>
    BY <1>6, <1>7
  <1>8. ASSUME NEW i \in 1..n, Inside(s, e, m, i), where = <<i, m.offset - (e[i] - s[i])>>
        PROVE  /\ where # <<>> /\ home = {where[1]} /\ i \in home /\ i # 0
               /\ m.offset + m.length <= Len(T)
               /\ {T[k][2] : k \in meant} = where[2] .. where[2] + m.length - 1
    <2>1. PICK x : x = m.offset - (e[i] - s[i])
      OBVIOUS
    <2>2. where = <<i, x>>
      BY <1>8, <2>1
    <2>3. where # <<>> /\ where[1] = i /\ where[2] = x /\ i # 0
      BY <2>2
    <2>4. m.offset + m.length <= Len(T) /\ home = {i} /\ {T[k][2] : k \in meant} = x .. (x + m.length - 1)
      BY <1>6, <1>8, <2>1
    <2> QED
      BY <2>3, <2>4
  <1> QED
    BY <1>5, <1>7, <1>8

\* An underline is drawn under the very units the checker meant, and every match that
\* covers units of one paragraph alone is drawn, for any number of paragraphs of any
\* length (join_segments, _locate).
THEOREM UnderlinesMeant == ASSUME SegmentConstants PROVE UpkeepSpec => []Underlined
  <1> DEFINE Inv == part = "segments" => SegmentInv
  <1>1. UpkeepInit => Inv
    <2> SUFFICES ASSUME M!Init PROVE SegmentInv
      BY DEF UpkeepInit
    <2>1. PICK n \in 0..MaxSegments : segments \in [1..n -> 0..MaxUnits]
      BY DEF M!Init
    <2>2. n \in Nat /\ segments \in [1..n -> Nat]
      BY <2>1 DEF SegmentConstants
    <2>3. MaxSegments * (MaxUnits + SEPARATOR_UNITS) \in Nat /\ MaxUnits + 1 \in Nat
      BY DEF SegmentConstants
    <2>4. match \in [offset : Nat, length : Nat]
      BY <2>3 DEF M!Init
    <2> QED
      BY <2>2, <2>4 DEF M!Init, SegmentInv
  <1>2. Inv /\ [UpkeepNext]_upkeepVars => Inv'
    <2>1. SegmentInv /\ [M!Next]_M!vars => SegmentInv'
      BY DEF SegmentInv, M!Next, M!check, M!vars
    <2> QED
      BY <2>1, PartSteps
  <1>3. Inv => Underlined
    BY SegmentsUnderline DEF Underlined
  <1> QED
    BY <1>1, <1>2, <1>3, PTL DEF UpkeepSpec
=============================================================================
