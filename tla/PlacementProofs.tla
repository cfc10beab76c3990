-------------------------- MODULE PlacementProofs --------------------------
(* What holds of Placement for every account, and every bound. *)
EXTENDS Placement, FiniteSetTheorems, SequenceTheorems, WellFoundedInduction, TLAPS

\* What the server, message_locations and pending_actions may hold.
Types    == {"move", "delete", "setflags"}
EntrySet == [uid : Nat \ {0}, msg : Msg, seen : BOOLEAN]
PlaceSet == [msg : Msg, box : Box, uid : Nat, seen : BOOLEAN, era : Nat]
RowSet   == [type : Types, msg : Msg, box : Box, uid : Nat \ {0}, epoch : Nat,
             to : Box \cup {"none"}, seen : BOOLEAN, status : Status, attempts : Nat,
             fresh : BOOLEAN, undone : BOOLEAN]
AgentSet == [pc : {"idle", "drain", "picked", "leased", "selected", "copied", "applied", "walk",
                   "opened", "fetched", "sweep", "listed"},
             full : BOOLEAN, todo : SUBSET Nat, row : Nat, walk : SUBSET Box, box : Box,
             got : SUBSET EntrySet, exists : Nat, recheck : Nat]

\* In folder b the UID was given out, and it names message m or nothing.
Names(b, uid, m) ==
    /\ uid # 0 /\ uid < uidnext[b]
    /\ \A e \in server[b] : e.uid = uid => e.msg = m

\* The same, of a UID read under UIDVALIDITY era.
Stands(b, uid, era, m) == era <= epoch[b] /\ (era = epoch[b] => Names(b, uid, m))

\* A folder of the server: no UID is given out twice.
FolderOK(es, n) ==
    /\ es \subseteq EntrySet /\ IsFiniteSet(es) /\ n \in Nat \ {0}
    /\ \A e \in es : e.uid < n
    /\ \A e, f \in es : e.uid = f.uid => e.msg = f.msg

ServerOK ==
    /\ server = [b \in Box |-> server[b]] /\ uidnext = [b \in Box |-> uidnext[b]]
    /\ \A b \in Box : FolderOK(server[b], uidnext[b])
    /\ epoch \in [Box -> Nat]

\* Placements carry UIDs that stand, but for those ahead of the server.
PlaceGood(ps) ==
    /\ ps \subseteq PlaceSet /\ IsFiniteSet(ps)
    /\ \A p \in ps : ~is_pending(p) => Stands(p.box, p.uid, p.era, p.msg)

\* And so do the rows.  A move leads elsewhere; a delete is a user's word.
RowGood(row, gone) ==
    /\ Stands(row.box, row.uid, row.epoch, row.msg)
    /\ row.type = "move" => row.to \in Box /\ row.to # row.box
    /\ row.type = "delete" => row.msg \in gone
QueueGood(rows, gone) ==
    rows \in Seq(RowSet) /\ \A i \in DOMAIN rows : RowGood(rows[i], gone)

MailboxGood(boxes) ==
    boxes \in [Box -> [epoch : Nat, last : Nat]] /\ \A b \in Box : boxes[b].epoch <= epoch[b]

\* What the agent works on.
Holding  == {"leased", "selected", "copied", "applied"}
AgentOK ==
    /\ agent \in AgentSet /\ recheck \in Nat /\ rebuilds \in Nat /\ elses \in Nat
    /\ agent.todo \subseteq DOMAIN queue
    /\ agent.pc = "picked" => agent.todo # {}
    /\ agent.pc \in Holding => agent.row \in DOMAIN queue
    /\ agent.pc \in {"selected", "copied"} =>
         queue[agent.row].epoch = epoch[queue[agent.row].box]
    /\ agent.pc = "copied" =>
         LET row == queue[agent.row] IN
         \/ row.msg \in purged
         \/ \E b \in Box : \E e \in Copies(b, row.msg) : b # row.box \/ e.uid # row.uid
    /\ agent.pc \in {"opened", "fetched", "sweep", "listed"} =>
         mailbox[agent.box].epoch = epoch[agent.box]
    /\ IsFiniteSet(agent.got)
    /\ agent.pc = "fetched" => \A e \in agent.got : Names(agent.box, e.uid, e.msg)

IInv ==
    /\ ServerOK /\ PlaceGood(place) /\ QueueGood(queue, purged) /\ MailboxGood(mailbox)
    /\ AgentOK /\ NothingLost

-----------------------------------------------------------------------------
(* Of sets and sequences.                                                  *)

\* The least of finitely many numbers is one of them, and so is the greatest.
LEMMA MinIn ==
  ASSUME NEW S \in SUBSET Int, S # {}, IsFiniteSet(S)
  PROVE  Min(S) \in S /\ \A x \in S : Min(S) <= x
  <1> DEFINE U(x) == {y \in S : y < x}
             T == {U(x) : x \in S}
  <1>1. \A R \in SUBSET S : R \in FiniteSubsetsOf(S)
    BY FS_Subset DEF FiniteSubsetsOf
  <1>a. T \subseteq FiniteSubsetsOf(S) /\ T # {}
    <2>1. \A x \in S : U(x) \in SUBSET S
      OBVIOUS
    <2> HIDE DEF U
    <2> QED
      BY <1>1, <2>1
  <1>2. PICK u \in T : \A y \in T : <<y, u>> \notin StrictSubsetOrdering(S)
    BY <1>a, FS_StrictSubsetOrderingWellFounded, WFMin
  <1>3. PICK x \in S : u = U(x)
    OBVIOUS
  <1>4. ASSUME NEW y \in S, y < x PROVE FALSE
    <2>0. x \in Int /\ y \in Int /\ y \in U(x) /\ y \notin U(y)
      BY <1>4
    <2>1. U(y) \subseteq U(x) /\ U(y) # U(x)
      <3>1. \A z \in S : z \in U(y) => z \in U(x)
        BY <1>4
      <3> QED
        BY <2>0, <3>1
    <2>2. <<U(y), u>> \in StrictSubsetOrdering(S)
      BY <1>3, <2>1 DEF StrictSubsetOrdering
    <2> QED
      BY <1>2, <2>2
  <1>5. \A y \in S : x <= y
    BY <1>4
  <1> QED
    BY <1>5 DEF Min

LEMMA MaxIn ==
  ASSUME NEW S \in SUBSET Int, S # {}, IsFiniteSet(S) PROVE Max(S) \in S
  <1> DEFINE U(x) == {y \in S : y > x}
             T == {U(x) : x \in S}
  <1>1. \A R \in SUBSET S : R \in FiniteSubsetsOf(S)
    BY FS_Subset DEF FiniteSubsetsOf
  <1>a. T \subseteq FiniteSubsetsOf(S) /\ T # {}
    <2>1. \A x \in S : U(x) \in SUBSET S
      OBVIOUS
    <2> HIDE DEF U
    <2> QED
      BY <1>1, <2>1
  <1>2. PICK u \in T : \A y \in T : <<y, u>> \notin StrictSubsetOrdering(S)
    BY <1>a, FS_StrictSubsetOrderingWellFounded, WFMin
  <1>3. PICK x \in S : u = U(x)
    OBVIOUS
  <1>4. ASSUME NEW y \in S, y > x PROVE FALSE
    <2>0. x \in Int /\ y \in Int /\ y \in U(x) /\ y \notin U(y)
      BY <1>4
    <2>1. U(y) \subseteq U(x) /\ U(y) # U(x)
      <3>1. \A z \in S : z \in U(y) => z \in U(x)
        BY <1>4
      <3> QED
        BY <2>0, <3>1
    <2>2. <<U(y), u>> \in StrictSubsetOrdering(S)
      BY <1>3, <2>1 DEF StrictSubsetOrdering
    <2> QED
      BY <1>2, <2>2
  <1>5. \A y \in S : x >= y
    BY <1>4
  <1> QED
    BY <1>5 DEF Max

\* A finite set is the range of the sequence made of it.
LEMMA SetToSeqType ==
  ASSUME NEW S, IsFiniteSet(S)
  PROVE  /\ SetToSeq(S) \in [1..Cardinality(S) -> S] /\ IsInjective(SetToSeq(S))
         /\ \A x \in S : \E i \in 1..Cardinality(S) : SetToSeq(S)[i] = x
  <1> DEFINE n == Cardinality(S)
             f == SetToSeq(S)
  <1>1. n \in Nat /\ ExistsBijection(1..n, S)
    BY FS_CardinalityType
  <1>2. f \in [1..n -> S] /\ IsInjective(f)
    BY <1>1 DEF SetToSeq, ExistsBijection, Bijection, Injection
  <1>3. IsFiniteSet(1..n) /\ Cardinality(1..n) = n
    BY <1>1, FS_Interval
  <1>4. f \in Injection(1..n, S)
    BY <1>2 DEF Injection
  <1>5. f \in Surjection(1..n, S)
    BY <1>3, <1>4, FS_Injection
  <1> QED
    BY <1>2, <1>5 DEF Surjection

\* A finite set has finite images.
LEMMA ImageFinite ==
  ASSUME NEW S, IsFiniteSet(S), NEW f, f = [x \in S |-> f[x]]
  PROVE  IsFiniteSet({f[x] : x \in S})
  <1> DEFINE T == {f[x] : x \in S}
  <1>1. f \in Surjection(S, T)
    BY DEF Surjection
  <1> QED
    BY <1>1, FS_Surjection
-----------------------------------------------------------------------------
(* The initial state.                                                      *)

LEMMA InitServer == Init => ServerOK /\ NothingLost
  <1> SUFFICES ASSUME Init PROVE ServerOK /\ NothingLost
    OBVIOUS
  <1> DEFINE n == Cardinality(Msg)
             s == SetToSeq(Msg)
             I(b) == {i \in 1..n : Start[s[i]] = b}
  <1>1. /\ n \in Nat
        /\ s \in [1..n -> Msg]
        /\ \A m \in Msg : \E i \in 1..n : s[i] = m
    BY StartAssumption, SetToSeqType, FS_CardinalityType
  <1>2. /\ server = [b \in Box |-> {[uid |-> i, msg |-> s[i], seen |-> FALSE] : i \in I(b)}]
        /\ uidnext = [b \in Box |-> n + 1] /\ epoch = [b \in Box |-> 1]
    BY DEF Init
  <1> HIDE DEF n, s
  <1>3. ASSUME NEW b \in Box PROVE FolderOK(server[b], uidnext[b])
    <2>1. ASSUME NEW e \in server[b] PROVE e \in EntrySet
      <3>1. PICK i \in I(b) : e = [uid |-> i, msg |-> s[i], seen |-> FALSE]
        BY <1>2
      <3> QED
        BY <1>1, <3>1 DEF EntrySet
    <2>2. IsFiniteSet(server[b])
      <3> DEFINE f == [i \in I(b) |-> [uid |-> i, msg |-> s[i], seen |-> FALSE]]
      <3>1. IsFiniteSet(I(b))
        BY <1>1, FS_Interval, FS_Subset
      <3>2. server[b] = {f[i] : i \in I(b)}
        BY <1>2
      <3>3. f = [i \in I(b) |-> f[i]]
        OBVIOUS
      <3> HIDE DEF f, I
      <3> QED
        BY <3>1, <3>2, <3>3, ImageFinite
    <2> QED
      BY <1>1, <1>2, <2>1, <2>2 DEF FolderOK
  <1>4. NothingLost
    <2> SUFFICES ASSUME NEW m \in Msg PROVE \E b \in Box : Copies(b, m) # {}
      BY DEF NothingLost
    <2>1. PICK i \in 1..n : s[i] = m
      BY <1>1
    <2>2. Start[m] \in Box
      BY StartAssumption
    <2>3. [uid |-> i, msg |-> s[i], seen |-> FALSE] \in Copies(Start[m], m)
      BY <1>2, <2>1, <2>2 DEF Copies
    <2> QED
      BY <2>2, <2>3
  <1> QED
    BY <1>2, <1>3, <1>4 DEF ServerOK

LEMMA InitInv == Init => IInv
  <1> SUFFICES ASSUME Init PROVE IInv
    OBVIOUS
  <1>1. ServerOK /\ NothingLost /\ epoch = [b \in Box |-> 1]
    BY InitServer DEF Init
  <1>2. PlaceGood(place)
    <2> DEFINE g == [b \in Box |-> {At(e.msg, b, e.uid, e.seen, 1) : e \in server[b]}]
    <2>1. place = UNION {g[b] : b \in Box}
      BY DEF Init
    <2>2. \A b \in Box : IsFiniteSet(g[b])
      <3> SUFFICES ASSUME NEW b \in Box PROVE IsFiniteSet(g[b])
        OBVIOUS
      <3> DEFINE f == [e \in server[b] |-> At(e.msg, b, e.uid, e.seen, 1)]
      <3>1. g[b] = {f[e] : e \in server[b]} /\ f = [e \in server[b] |-> f[e]]
        OBVIOUS
      <3>2. IsFiniteSet(server[b])
        BY <1>1 DEF ServerOK, FolderOK
      <3> HIDE DEF f, g
      <3> QED
        BY <3>1, <3>2, ImageFinite
    <2>3. IsFiniteSet(place)
      <3>1. g = [b \in Box |-> g[b]]
        OBVIOUS
      <3> HIDE DEF g
      <3>2. IsFiniteSet({g[b] : b \in Box})
        BY <3>1, BoxAssumption, ImageFinite
      <3> QED
        BY <2>1, <2>2, <3>2, FS_UNION
    <2>4. ASSUME NEW p \in place
          PROVE  p \in PlaceSet /\ Stands(p.box, p.uid, p.era, p.msg)
      <3>1. PICK b \in Box : \E e \in server[b] : p = At(e.msg, b, e.uid, e.seen, 1)
        BY <2>1
      <3>2. PICK e \in server[b] : p = At(e.msg, b, e.uid, e.seen, 1)
        BY <3>1
      <3>3. e \in EntrySet /\ e.uid < uidnext[b] /\ epoch[b] = 1
            /\ \A d \in server[b] : d.uid = e.uid => d.msg = e.msg
        BY <1>1 DEF ServerOK, FolderOK
      <3>4. p.msg = e.msg /\ p.box = b /\ p.uid = e.uid /\ p.seen = e.seen /\ p.era = 1
        BY <3>2 DEF At
      <3>5. p \in PlaceSet
        BY <3>2, <3>3 DEF At, PlaceSet, EntrySet
      <3>6. Stands(b, e.uid, 1, e.msg)
        BY <3>3 DEF Stands, Names, EntrySet
      <3> QED
        BY <3>4, <3>5, <3>6
    <2> QED
      BY <2>3, <2>4 DEF PlaceGood
  <1>3. QueueGood(queue, purged)
    BY DEF Init, QueueGood
  <1>4. MailboxGood(mailbox)
    <2>1. Cardinality(Msg) \in Nat
      BY StartAssumption, FS_CardinalityType
    <2> QED
      BY <2>1 DEF Init, MailboxGood
  <1>5. AgentOK
    <2>1. agent = Idle /\ recheck = 0 /\ rebuilds = 0 /\ elses = 0
      BY DEF Init
    <2>2. agent \in AgentSet
      BY <2>1, BoxAssumption DEF Idle, AgentSet
    <2>3. agent.pc = "idle" /\ agent.todo = {} /\ agent.got = {}
      BY <2>1 DEF Idle
    <2> QED
      BY <2>1, <2>2, <2>3, FS_EmptySet DEF AgentOK, Holding
  <1> QED
    BY <1>1, <1>2, <1>3, <1>4, <1>5 DEF IInv

-----------------------------------------------------------------------------
(* What the transactions are made of.                                      *)

\* Rows written earlier still name the messages they named.
Keeps(rows) ==
    /\ DOMAIN queue \subseteq DOMAIN rows
    /\ \A i \in DOMAIN queue :
         /\ rows[i].msg = queue[i].msg /\ rows[i].box = queue[i].box
         /\ rows[i].uid = queue[i].uid /\ rows[i].epoch = queue[i].epoch

\* Parts of a good table are good, and so is a good table with one more row.
LEMMA PartGood ==
  ASSUME NEW ps, PlaceGood(ps), NEW qs, qs \subseteq ps PROVE PlaceGood(qs)
  <1>1. IsFiniteSet(qs)
    BY FS_Subset DEF PlaceGood
  <1> QED
    BY <1>1 DEF PlaceGood

LEMMA OneMoreGood ==
  ASSUME NEW ps, PlaceGood(ps), NEW p \in PlaceSet,
         is_pending(p) \/ Stands(p.box, p.uid, p.era, p.msg)
  PROVE  PlaceGood(ps \cup {p})
  <1>1. IsFiniteSet(ps \cup {p})
    BY FS_AddElement DEF PlaceGood
  <1> QED
    BY <1>1 DEF PlaceGood

LEMMA AtType ==
  ASSUME NEW m \in Msg, NEW b \in Box, NEW uid \in Nat, NEW seen \in BOOLEAN, NEW era \in Nat
  PROVE  /\ At(m, b, uid, seen, era) \in PlaceSet
         /\ At(m, b, uid, seen, era).msg = m /\ At(m, b, uid, seen, era).box = b
         /\ At(m, b, uid, seen, era).uid = uid /\ At(m, b, uid, seen, era).era = era
         /\ At(m, b, uid, seen, era).seen = seen
BY DEF At, PlaceSet

\* place_pending adds nothing that carries a UID.
LEMMA WithPendingGood ==
  ASSUME NEW ps, PlaceGood(ps), NEW m \in Msg, NEW b \in Box, NEW seen \in BOOLEAN
  PROVE  PlaceGood(WithPending(ps, m, b, seen))
  <1> DEFINE p == At(m, b, Ahead, seen, 0)
             there == {q \in ps : q.msg = m /\ q.box = b}
             ahead == {q \in there : is_pending(q)}
  <1>1. p \in PlaceSet /\ is_pending(p)
    BY AtType DEF Ahead, is_pending
  <1>2. PlaceGood(ps \ ahead)
    BY PartGood
  <1> HIDE DEF p
  <1>3. PlaceGood((ps \ ahead) \cup {p})
    BY <1>1, <1>2, OneMoreGood
  <1>4. WithPending(ps, m, b, seen) \in {ps, (ps \ ahead) \cup {p}}
    BY DEF WithPending, p
  <1> QED
    BY <1>3, <1>4

LEMMA RowType ==
  ASSUME NEW type \in Types, NEW p \in PlaceSet, p.uid # 0, NEW era \in Nat,
         NEW to \in Box \cup {"none"}, NEW seen \in BOOLEAN
  PROVE  LET r == Row(type, p, era, to, seen) IN
         /\ r \in RowSet /\ r.type = type /\ r.to = to
         /\ r.msg = p.msg /\ r.box = p.box /\ r.uid = p.uid /\ r.epoch = era
BY DEF Row, RowSet, PlaceSet, Status

\* The queue grows at its end ...
LEMMA RowsJoined ==
  ASSUME NEW rows, NEW gone, QueueGood(rows, gone),
         NEW n \in Nat, NEW new \in [1..n -> RowSet],
         \A i \in 1..n : RowGood(new[i], gone)
  PROVE  /\ QueueGood(rows \o new, gone)
         /\ DOMAIN rows \subseteq DOMAIN (rows \o new)
         /\ \A i \in DOMAIN rows : (rows \o new)[i] = rows[i]
  <1>1. rows \in Seq(RowSet) /\ new \in Seq(RowSet) /\ DOMAIN new = 1..n /\ Len(new) = n
    BY DEF QueueGood
  <1>2. rows \o new \in Seq(RowSet) /\ Len(rows \o new) = Len(rows) + n
    BY <1>1
  <1>3. ASSUME NEW i \in DOMAIN (rows \o new) PROVE RowGood((rows \o new)[i], gone)
    <2>1. CASE i \in DOMAIN rows
      BY <1>1, <2>1 DEF QueueGood
    <2>2. CASE i \notin DOMAIN rows
      <3>1. i - Len(rows) \in 1..n /\ (rows \o new)[i] = new[i - Len(rows)]
        BY <1>1, <1>2, <2>2
      <3> QED
        BY <3>1
    <2> QED
      BY <2>1, <2>2
  <1>4. \A i \in DOMAIN rows : i \in DOMAIN (rows \o new) /\ (rows \o new)[i] = rows[i]
    BY <1>1, <1>2
  <1> QED
    BY <1>2, <1>3, <1>4 DEF QueueGood

LEMMA RowAppended ==
  ASSUME NEW rows, NEW gone, QueueGood(rows, gone), NEW r \in RowSet, RowGood(r, gone)
  PROVE  /\ QueueGood(Append(rows, r), gone)
         /\ DOMAIN rows \subseteq DOMAIN Append(rows, r)
         /\ \A i \in DOMAIN rows : Append(rows, r)[i] = rows[i]
  <1>1. rows \in Seq(RowSet)
    BY DEF QueueGood
  <1>2. \A i \in DOMAIN Append(rows, r) : i \notin DOMAIN rows => Append(rows, r)[i] = r
    BY <1>1
  <1>3. \A i \in DOMAIN rows : i \in DOMAIN Append(rows, r) /\ Append(rows, r)[i] = rows[i]
    BY <1>1
  <1>4. Append(rows, r) \in Seq(RowSet)
    BY <1>1
  <1> QED
    BY <1>2, <1>3, <1>4 DEF QueueGood

\* ... and rows are rewritten in place.
LEMMA RowRewritten ==
  ASSUME NEW rows, NEW gone, QueueGood(rows, gone), NEW i \in DOMAIN rows,
         NEW r \in RowSet, RowGood(r, gone),
         NEW new, new = [rows EXCEPT ![i] = r]
  PROVE  /\ QueueGood(new, gone) /\ DOMAIN new = DOMAIN rows
         /\ new[i] = r /\ \A j \in DOMAIN rows : j # i => new[j] = rows[j]
  <1>1. rows \in Seq(RowSet) /\ DOMAIN rows = 1..Len(rows)
    BY DEF QueueGood
  <1>2. new \in [1..Len(rows) -> RowSet]
    BY <1>1
  <1>3. new \in Seq(RowSet)
    BY <1>1, <1>2
  <1> QED
    BY <1>1, <1>3 DEF QueueGood

\* A step that leaves the server and the agent where they are.
LEMMA DeskKeeps ==
  ASSUME IInv, UNCHANGED <<server, uidnext, epoch, mailbox, agent>>,
         recheck' \in Nat, rebuilds' \in Nat, elses' \in Nat,
         PlaceGood(place'), QueueGood(queue', purged'), Keeps(queue'), purged \subseteq purged'
  PROVE  IInv'
  <1>1. ServerOK' /\ MailboxGood(mailbox)' /\ NothingLost'
    BY DEF IInv, ServerOK, MailboxGood, NothingLost, Copies
  <1>2. PlaceGood(place)'
    BY DEF PlaceGood, Stands, Names
  <1>3. QueueGood(queue, purged)'
    BY DEF QueueGood, RowGood, Stands, Names
  <1>4. AgentOK'
    <2>1. AgentOK
      BY DEF IInv
    <2>2. ASSUME agent.pc \in Holding
          PROVE  /\ agent.row \in DOMAIN queue /\ agent.row \in DOMAIN queue'
                 /\ queue'[agent.row].msg = queue[agent.row].msg
                 /\ queue'[agent.row].box = queue[agent.row].box
                 /\ queue'[agent.row].uid = queue[agent.row].uid
                 /\ queue'[agent.row].epoch = queue[agent.row].epoch
      BY <2>1, <2>2 DEF AgentOK, Keeps
    <2>3. agent.pc \in {"selected", "copied"} =>
            queue'[agent.row].epoch = epoch[queue'[agent.row].box]
      BY <2>1, <2>2 DEF AgentOK, Holding
    <2>4. agent.pc = "copied" =>
            \/ queue'[agent.row].msg \in purged'
            \/ \E b \in Box : \E e \in Copies(b, queue'[agent.row].msg) :
                 b # queue'[agent.row].box \/ e.uid # queue'[agent.row].uid
      BY <2>1, <2>2 DEF AgentOK, Holding
    <2>5. server' = server /\ agent' = agent /\ mailbox' = mailbox /\ epoch' = epoch
      OBVIOUS
    <2>6. (agent.pc = "copied" =>
            LET row == queue[agent.row] IN
            \/ row.msg \in purged
            \/ \E b \in Box : \E e \in Copies(b, row.msg) : b # row.box \/ e.uid # row.uid)'
      BY <2>4, <2>5 DEF Copies
    <2>7. agent.todo \subseteq DOMAIN queue'
      BY <2>1 DEF AgentOK, Keeps
    <2>8. agent.pc = "fetched" => \A e \in agent.got : Names(agent.box, e.uid, e.msg)'
      BY <2>1 DEF AgentOK, Names
    <2> QED
      BY <2>1, <2>2, <2>3, <2>5, <2>6, <2>7, <2>8 DEF AgentOK, Holding
  <1> QED
    BY <1>1, <1>2, <1>3, <1>4 DEF IInv

-----------------------------------------------------------------------------
(* What users do.                                                          *)

LEMMA QueueFinite ==
  ASSUME NEW rows, NEW gone, QueueGood(rows, gone), NEW S, S \subseteq DOMAIN rows
  PROVE  IsFiniteSet(S) /\ S \in SUBSET Int
  <1>1. Len(rows) \in Nat /\ DOMAIN rows = 1..Len(rows)
    BY DEF QueueGood
  <1>2. IsFiniteSet(1..Len(rows))
    BY <1>1, FS_Interval
  <1>3. IsFiniteSet(S)
    BY <1>1, <1>2, FS_Subset
  <1> QED
    BY <1>1, <1>3

\* A placement that may be pressed carries a UID that stands under the
\* UIDVALIDITY its folder has here.
LEMMA PressedStands ==
  ASSUME IInv, ~EarlyPress, NEW p \in place, Pressable(p), ~is_pending(p)
  PROVE  /\ p \in PlaceSet /\ p.uid # 0 /\ mailbox[p.box].epoch \in Nat
         /\ Stands(p.box, p.uid, mailbox[p.box].epoch, p.msg)
  <1>1. p \in PlaceSet /\ Stands(p.box, p.uid, p.era, p.msg)
    BY DEF IInv, PlaceGood
  <1>2. p.box \in Box /\ mailbox[p.box].epoch \in Nat
    BY <1>1 DEF IInv, MailboxGood, PlaceSet
  <1> QED
    BY <1>1, <1>2 DEF Pressable, is_pending, Ahead

\* A row rewritten as f would have it, the message and UID left alone.
LEMMA RowMoved ==
  ASSUME IInv, NEW i \in DOMAIN queue, NEW r \in RowSet, NEW rows,
         rows = [queue EXCEPT ![i] = r],
         r.msg = queue[i].msg, r.box = queue[i].box, r.uid = queue[i].uid,
         r.epoch = queue[i].epoch,
         \/ r.type = queue[i].type /\ r.to = queue[i].to
         \/ r.type = "move" /\ r.to \in Box /\ r.to # r.box
  PROVE  QueueGood(rows, purged) /\ Keeps(rows)
  <1>1. QueueGood(queue, purged) /\ RowGood(queue[i], purged)
    BY DEF IInv, QueueGood
  <1>2. RowGood(r, purged)
    BY <1>1 DEF RowGood
  <1>3. /\ QueueGood(rows, purged) /\ DOMAIN rows = DOMAIN queue
        /\ rows[i] = r /\ \A j \in DOMAIN queue : j # i => rows[j] = queue[j]
    BY <1>1, <1>2, RowRewritten
  <1> QED
    BY <1>3 DEF Keeps

\* The transaction of a press or of an undo.
Sound(out) == PlaceGood(out.place) /\ QueueGood(out.queue, purged) /\ Keeps(out.queue)

LEMMA HomeSound ==
  ASSUME IInv, NEW m \in Msg, NEW loc \in PlaceSet, NEW i \in DOMAIN queue,
         queue[i].msg = m, Home(m, loc, i).ok
  PROVE  Sound(Home(m, loc, i))
  <1> DEFINE row == queue[i]
             rest == place \ {loc}
             gone == [queue EXCEPT ![i].status = "gone"]
             back == At(m, row.box, row.uid, loc.seen, row.epoch)
  <1>1. row \in RowSet /\ Stands(row.box, row.uid, row.epoch, row.msg)
    BY DEF IInv, QueueGood, RowGood
  <1>2. row.box \in Box /\ row.uid \in Nat /\ row.epoch \in Nat /\ loc.seen \in BOOLEAN
    BY <1>1 DEF RowSet, PlaceSet
  <1>3. QueueGood(gone, purged) /\ Keeps(gone)
    <2> DEFINE r == [row EXCEPT !.status = "gone"]
    <2>1. r \in RowSet /\ r.msg = row.msg /\ r.box = row.box /\ r.uid = row.uid
          /\ r.epoch = row.epoch /\ r.type = row.type /\ r.to = row.to
      BY <1>1 DEF RowSet, Status
    <2>2. gone = [queue EXCEPT ![i] = r]
      OBVIOUS
    <2> HIDE DEF r, gone
    <2> QED
      BY <2>1, <2>2, RowMoved
  <1>4. PlaceGood(rest)
    BY PartGood DEF IInv
  <1>5. PlaceGood(WithPending(rest, m, row.box, loc.seen))
    BY <1>2, <1>4, WithPendingGood
  <1>6. PlaceGood(rest \cup {back})
    <2>1. /\ back \in PlaceSet /\ back.msg = m /\ back.box = row.box
          /\ back.uid = row.uid /\ back.era = row.epoch
      BY <1>2, AtType
    <2>2. Stands(back.box, back.uid, back.era, back.msg)
      BY <1>1, <2>1
    <2> HIDE DEF back, rest
    <2> QED
      BY <1>4, <2>1, <2>2, OneMoreGood
  <1> HIDE DEF row, rest, gone, back
  <1>7. Home(m, loc, i) \in {Kept(WithPending(rest, m, row.box, loc.seen), gone, 0),
                             Nothing, Kept(rest \cup {back}, gone, 0)}
    BY DEF Home, row, rest, gone, back
  <1> QED
    BY <1>3, <1>5, <1>6, <1>7 DEF Sound, Kept, Nothing

LEMMA MoveSound ==
  ASSUME IInv, ~EarlyPress, NEW m \in Msg, NEW loc \in Locations(m), Pressable(loc),
         NEW b \in Box, b # loc.box, move_to(m, loc, b).ok
  PROVE  Sound(move_to(m, loc, b))
  <1> DEFINE filed == WithPending(place \ {loc}, m, b, loc.seen)
             new == Row("move", loc, mailbox[loc.box].epoch, b, loc.seen)
             i == Max(Queued(m))
  <1>1. loc \in place /\ loc.msg = m /\ loc \in PlaceSet /\ loc.box \in Box /\ loc.seen \in BOOLEAN
    BY DEF Locations, IInv, PlaceGood, PlaceSet
  <1>2. PlaceGood(filed)
    BY <1>1, PartGood, WithPendingGood DEF IInv
  <1>3. QueueGood(queue, purged) /\ Keeps(queue)
    BY DEF IInv, Keeps
  <1>4. CASE ~is_pending(loc)
    <2>1. /\ loc.uid # 0 /\ mailbox[loc.box].epoch \in Nat
          /\ Stands(loc.box, loc.uid, mailbox[loc.box].epoch, m)
      BY <1>1, <1>4, PressedStands
    <2>2. /\ new \in RowSet /\ new.type = "move" /\ new.to = b
          /\ new.msg = m /\ new.box = loc.box /\ new.uid = loc.uid
          /\ new.epoch = mailbox[loc.box].epoch
      BY <1>1, <2>1, RowType DEF Types
    <2> HIDE DEF new, filed
    <2>3. RowGood(new, purged)
      BY <2>1, <2>2 DEF RowGood
    <2>4. QueueGood(Append(queue, new), purged) /\ Keeps(Append(queue, new))
      BY <1>3, <2>2, <2>3, RowAppended DEF Keeps
    <2>5. move_to(m, loc, b) = Kept(filed, Append(queue, new), Len(queue) + 1)
      BY <1>4 DEF move_to, new, filed
    <2> QED
      BY <1>2, <2>4, <2>5 DEF Sound, Kept
  <1>5. CASE is_pending(loc) /\ Queued(m) # {}
    <2>1. i \in Queued(m)
      BY <1>3, <1>5, QueueFinite, MaxIn DEF Queued, RowsOf
    <2>2. i \in DOMAIN queue /\ queue[i].msg = m
      BY <2>1 DEF Queued, RowsOf
    <2>3. move_to(m, loc, b) = Retarget(m, loc, i, b)
      BY <1>5 DEF move_to
    <2> HIDE DEF i
    <2>4. CASE b = queue[i].box
      BY <1>1, <2>2, <2>3, <2>4, HomeSound DEF Retarget
    <2>5. CASE b # queue[i].box
      <3> DEFINE aimed == [queue EXCEPT ![i].to = b, ![i].type = "move"]
                 r == [queue[i] EXCEPT !.to = b, !.type = "move"]
      <3>1. queue[i] \in RowSet
        BY <1>3, <2>2 DEF QueueGood
      <3>2. /\ r \in RowSet /\ r.msg = queue[i].msg /\ r.box = queue[i].box
            /\ r.uid = queue[i].uid /\ r.epoch = queue[i].epoch /\ r.type = "move" /\ r.to = b
        BY <3>1 DEF RowSet, Types
      <3>3. aimed = [queue EXCEPT ![i] = r]
        BY <1>3 DEF QueueGood
      <3>4. move_to(m, loc, b) = Kept(filed, aimed, i)
        BY <2>3, <2>5 DEF Retarget
      <3> HIDE DEF aimed, r, filed
      <3>5. QueueGood(aimed, purged) /\ Keeps(aimed)
        BY <2>2, <2>5, <3>2, <3>3, RowMoved
      <3> QED
        BY <1>2, <3>4, <3>5 DEF Sound, Kept
    <2> QED
      BY <2>4, <2>5
  <1>6. CASE is_pending(loc) /\ Queued(m) = {}
    <2> HIDE DEF filed
    <2>1. move_to(m, loc, b) = Kept(filed, queue, 0)
      BY <1>6 DEF move_to, Nothing, filed
    <2> QED
      BY <1>2, <1>3, <2>1 DEF Sound, Kept
  <1> QED
    BY <1>4, <1>5, <1>6

LEMMA MoveInv ==
  ASSUME IInv, ~EarlyPress, NEW m \in Msg, NEW loc \in Locations(m), NEW b \in Box, Move(m, loc, b)
  PROVE  IInv'
  <1> DEFINE out == move_to(m, loc, b)
  <1>1. Pressable(loc) /\ b # loc.box /\ out.ok
    BY DEF Move, Commit
  <1> HIDE DEF out
  <1>2. Sound(out)
    BY <1>1, MoveSound DEF out
  <1>3. place' = out.place /\ queue' = out.queue
    BY DEF Move, Commit, out
  <1>4. UNCHANGED <<server, uidnext, epoch, mailbox, agent, recheck, rebuilds, elses, purged>>
    BY DEF Move, imap
  <1>5. recheck \in Nat /\ rebuilds \in Nat /\ elses \in Nat
    BY DEF IInv, AgentOK
  <1> QED
    BY <1>2, <1>3, <1>4, <1>5, DeskKeeps DEF Sound

LEMMA PurgeInv ==
  ASSUME IInv, ~EarlyPress, NEW m \in Msg, NEW loc \in Locations(m), Purge(m, loc)
  PROVE  IInv'
  <1> DEFINE new == Row("delete", loc, mailbox[Trash].epoch, "none", loc.seen)
  <1>1. loc \in place /\ loc.msg = m /\ loc.box = Trash /\ ~is_pending(loc) /\ Pressable(loc)
    BY DEF Purge, In, Locations
  <1>2. /\ loc \in PlaceSet /\ loc.uid # 0 /\ mailbox[Trash].epoch \in Nat
        /\ Stands(Trash, loc.uid, mailbox[Trash].epoch, m)
    BY <1>1, PressedStands
  <1>3. loc.seen \in BOOLEAN
    BY <1>2 DEF PlaceSet
  <1>4. /\ new \in RowSet /\ new.type = "delete" /\ new.msg = m /\ new.box = Trash
        /\ new.uid = loc.uid /\ new.epoch = mailbox[Trash].epoch
    BY <1>1, <1>2, <1>3, RowType DEF Types
  <1>5. queue' = Append(queue, new) /\ place' = place \ {loc} /\ purged' = purged \cup {m}
    BY DEF Purge
  <1> HIDE DEF new
  <1>6. RowGood(new, purged')
    BY <1>2, <1>4, <1>5 DEF RowGood
  <1>7. QueueGood(queue, purged') /\ PlaceGood(place)
    BY <1>5 DEF IInv, QueueGood, RowGood
  <1>8. QueueGood(queue', purged') /\ Keeps(queue')
    BY <1>4, <1>5, <1>6, <1>7, RowAppended DEF Keeps
  <1>9. PlaceGood(place')
    BY <1>5, <1>7, PartGood
  <1>10. UNCHANGED <<server, uidnext, epoch, mailbox, agent, recheck, rebuilds, elses>>
    BY DEF Purge, imap
  <1>11. recheck \in Nat /\ rebuilds \in Nat /\ elses \in Nat
    BY DEF IInv, AgentOK
  <1> QED
    BY <1>5, <1>8, <1>9, <1>10, <1>11, DeskKeeps

LEMMA SeenInv ==
  ASSUME IInv, ~EarlyPress, NEW m \in Msg, NEW b \in BOOLEAN, set_seen(m, b)
  PROVE  IInv'
  <1> DEFINE stale == {p \in Locations(m) : p.seen # b}
             T == {p \in stale : ~is_pending(p)}
             told == SetToSeq(T)
             new == [i \in DOMAIN told |->
                       Row("setflags", told[i], mailbox[told[i].box].epoch, "none", b)]
             flag == [p \in stale |-> [p EXCEPT !.seen = b]]
  <1>1. /\ \A p \in stale : Pressable(p)
        /\ place' = (place \ stale) \cup {[p EXCEPT !.seen = b] : p \in stale}
        /\ queue' = queue \o new
    BY DEF set_seen
  <1>2. PlaceGood(place) /\ QueueGood(queue, purged)
    BY DEF IInv
  <1>3. stale \subseteq place /\ IsFiniteSet(stale) /\ IsFiniteSet(T)
    <2>1. stale \subseteq place /\ T \subseteq place
      BY DEF Locations
    <2> QED
      BY <1>2, <2>1, FS_Subset DEF PlaceGood
  <1>4. ASSUME NEW p \in T
        PROVE  LET r == Row("setflags", p, mailbox[p.box].epoch, "none", b) IN
               r \in RowSet /\ RowGood(r, purged)
    <2>1. p \in place /\ ~is_pending(p) /\ Pressable(p)
      BY <1>1, <1>3
    <2>2. /\ p \in PlaceSet /\ p.uid # 0 /\ mailbox[p.box].epoch \in Nat
          /\ Stands(p.box, p.uid, mailbox[p.box].epoch, p.msg)
      BY <2>1, PressedStands
    <2>3. LET r == Row("setflags", p, mailbox[p.box].epoch, "none", b) IN
          /\ r \in RowSet /\ r.type = "setflags"
          /\ r.msg = p.msg /\ r.box = p.box /\ r.uid = p.uid /\ r.epoch = mailbox[p.box].epoch
      BY <2>2, RowType DEF Types
    <2> QED
      BY <2>2, <2>3 DEF RowGood
  <1>5. QueueGood(queue', purged) /\ Keeps(queue')
    <2> DEFINE n == Cardinality(T)
    <2>1. n \in Nat /\ told \in [1..n -> T]
      BY <1>3, SetToSeqType, FS_CardinalityType
    <2> HIDE DEF T, told, n
    <2>2. new \in [1..n -> RowSet] /\ \A i \in 1..n : RowGood(new[i], purged)
      BY <1>4, <2>1
    <2> HIDE DEF new
    <2>3. /\ QueueGood(queue \o new, purged)
          /\ DOMAIN queue \subseteq DOMAIN (queue \o new)
          /\ \A i \in DOMAIN queue : (queue \o new)[i] = queue[i]
      BY <1>2, <2>1, <2>2, RowsJoined
    <2>5. queue' = queue \o new
      BY <1>1 DEF new
    <2> QED
      BY <2>3, <2>5 DEF Keeps
  <1>6. PlaceGood(place')
    <2>1. \A p \in stale : /\ flag[p] \in PlaceSet /\ flag[p].uid = p.uid
                           /\ flag[p].msg = p.msg /\ flag[p].box = p.box /\ flag[p].era = p.era
      BY <1>2, <1>3 DEF PlaceGood, PlaceSet
    <2>2. place' = (place \ stale) \cup {flag[p] : p \in stale} /\ flag = [p \in stale |-> flag[p]]
      BY <1>1
    <2> HIDE DEF flag, stale
    <2>3. IsFiniteSet({flag[p] : p \in stale}) /\ IsFiniteSet(place \ stale)
      BY <1>2, <1>3, <2>2, ImageFinite, FS_Subset DEF PlaceGood
    <2>4. IsFiniteSet(place')
      BY <2>2, <2>3, FS_Union
    <2> QED
      BY <1>2, <1>3, <2>1, <2>2, <2>4 DEF PlaceGood, is_pending
  <1>7. UNCHANGED <<server, uidnext, epoch, mailbox, agent, recheck, rebuilds, elses, purged>>
    BY DEF set_seen, imap
  <1>8. recheck \in Nat /\ rebuilds \in Nat /\ elses \in Nat
    BY DEF IInv, AgentOK
  <1> QED
    BY <1>5, <1>6, <1>7, <1>8, DeskKeeps

LEMMA CancelInv ==
  ASSUME IInv, NEW i \in DOMAIN queue, CancelMove(i) PROVE IInv'
  <1> DEFINE row == queue[i]
             rest == WithoutPending(place, row.msg, row.to)
             back == At(row.msg, row.box, row.uid, row.seen, row.epoch)
             r == [row EXCEPT !.status = "undone", !.undone = TRUE]
  <1>1. row \in RowSet /\ Stands(row.box, row.uid, row.epoch, row.msg)
    BY DEF IInv, QueueGood, RowGood
  <1>2. /\ row.msg \in Msg /\ row.box \in Box /\ row.uid \in Nat /\ row.epoch \in Nat
        /\ row.seen \in BOOLEAN
    BY <1>1 DEF RowSet
  <1>3. /\ r \in RowSet /\ r.msg = row.msg /\ r.box = row.box /\ r.uid = row.uid
        /\ r.epoch = row.epoch /\ r.type = row.type /\ r.to = row.to
    BY <1>1 DEF RowSet, Status
  <1>4. queue' = [queue EXCEPT ![i] = r]
    <2>1. queue \in Seq(RowSet)
      BY DEF IInv, QueueGood
    <2> QED
      BY <1>1, <2>1 DEF CancelMove, Undone, RowSet
  <1>5. place' = restore(rest, row)
    BY DEF CancelMove
  <1>6. PlaceGood(rest)
    BY PartGood DEF IInv, WithoutPending
  <1>7. PlaceGood(rest \cup {back})
    <2>1. /\ back \in PlaceSet /\ back.msg = row.msg /\ back.box = row.box
          /\ back.uid = row.uid /\ back.era = row.epoch
      BY <1>2, AtType
    <2>2. Stands(back.box, back.uid, back.era, back.msg)
      BY <1>1, <2>1
    <2> HIDE DEF back, rest
    <2> QED
      BY <1>6, <2>1, <2>2, OneMoreGood
  <1>8. UNCHANGED <<server, uidnext, epoch, mailbox, agent, recheck, rebuilds, elses, purged>>
    BY DEF CancelMove, imap
  <1>9. recheck \in Nat /\ rebuilds \in Nat /\ elses \in Nat
    BY DEF IInv, AgentOK
  <1> HIDE DEF row, rest, back, r
  <1>10. PlaceGood(place')
    BY <1>5, <1>6, <1>7 DEF restore, back
  <1>11. QueueGood(queue', purged) /\ Keeps(queue')
    BY <1>3, <1>4, RowMoved DEF row
  <1> QED
    BY <1>8, <1>9, <1>10, <1>11, DeskKeeps

LEMMA ReverseInv ==
  ASSUME IInv, ~EarlyPress, NEW i \in DOMAIN queue, ReverseMove(i) PROVE IInv'
  <1> DEFINE row == queue[i]
             m == row.msg
             b == row.box
  <1>1. row \in RowSet /\ RowGood(row, purged) /\ row.type = "move"
    BY DEF IInv, QueueGood, ReverseMove, Undoable
  <1>2. PICK loc \in In(m, row.to) :
          /\ Pressable(loc) /\ move_to(m, loc, b).ok
          /\ place' = move_to(m, loc, b).place
          /\ queue' = Undone([move_to(m, loc, b).queue EXCEPT ![i].fresh = TRUE], i)
    BY DEF ReverseMove
  <1>3. m \in Msg /\ b \in Box /\ row.to # b
    BY <1>1 DEF RowSet, RowGood
  <1>4. loc \in Locations(m) /\ loc.box = row.to
    BY DEF In
  <1> DEFINE out == move_to(m, loc, b)
  <1> HIDE DEF row, m, b
  <1>5. Sound(out)
    BY <1>2, <1>3, <1>4, MoveSound
  <1> HIDE DEF out
  <1> DEFINE s == [out.queue[i] EXCEPT !.fresh = TRUE, !.undone = TRUE]
  <1>6. out.queue \in Seq(RowSet) /\ i \in DOMAIN out.queue
    BY <1>5 DEF Sound, QueueGood, Keeps
  <1>7. out.queue[i] \in RowSet /\ RowGood(out.queue[i], purged)
    BY <1>5, <1>6 DEF Sound, QueueGood
  <1>8. /\ s \in RowSet /\ s.msg = out.queue[i].msg /\ s.box = out.queue[i].box
        /\ s.uid = out.queue[i].uid /\ s.epoch = out.queue[i].epoch
        /\ s.type = out.queue[i].type /\ s.to = out.queue[i].to
    BY <1>7 DEF RowSet
  <1>9. RowGood(s, purged)
    BY <1>7, <1>8 DEF RowGood
  <1>10. queue' = [out.queue EXCEPT ![i] = s]
    BY <1>2, <1>6, <1>7 DEF Undone, RowSet, out
  <1> HIDE DEF s
  <1>11. /\ QueueGood(queue', purged) /\ DOMAIN queue' = DOMAIN out.queue
         /\ queue'[i] = s /\ \A j \in DOMAIN out.queue : j # i => queue'[j] = out.queue[j]
    BY <1>5, <1>6, <1>8, <1>9, <1>10, RowRewritten DEF Sound
  <1>12. Keeps(queue')
    BY <1>5, <1>6, <1>8, <1>11 DEF Sound, Keeps
  <1>13. PlaceGood(place')
    BY <1>2, <1>5 DEF Sound, out
  <1>14. UNCHANGED <<server, uidnext, epoch, mailbox, agent, recheck, rebuilds, elses, purged>>
    BY DEF ReverseMove, imap
  <1>15. recheck \in Nat /\ rebuilds \in Nat /\ elses \in Nat
    BY DEF IInv, AgentOK
  <1> QED
    BY <1>11, <1>12, <1>13, <1>14, <1>15, DeskKeeps

LEMMA RecheckInv == ASSUME IInv, request_recheck PROVE IInv'
  <1>1. UNCHANGED <<server, uidnext, epoch, mailbox, agent, place, queue, purged, elses>>
    BY DEF request_recheck, imap, history
  <1>2. recheck' \in Nat /\ rebuilds' \in Nat /\ elses' \in Nat
    BY <1>1 DEF IInv, AgentOK, request_recheck
  <1>3. PlaceGood(place') /\ QueueGood(queue', purged') /\ Keeps(queue')
    BY <1>1 DEF IInv, Keeps
  <1> QED
    BY <1>1, <1>2, <1>3, DeskKeeps

LEMMA GraceInv == ASSUME IInv, NEW i \in DOMAIN queue, GraceEnds(i) PROVE IInv'
  <1> DEFINE r == [queue[i] EXCEPT !.fresh = FALSE]
  <1>1. queue \in Seq(RowSet) /\ queue[i] \in RowSet
    BY DEF IInv, QueueGood
  <1>2. /\ r \in RowSet /\ r.msg = queue[i].msg /\ r.box = queue[i].box
        /\ r.uid = queue[i].uid /\ r.epoch = queue[i].epoch
        /\ r.type = queue[i].type /\ r.to = queue[i].to
    BY <1>1 DEF RowSet
  <1>3. queue' = [queue EXCEPT ![i] = r]
    BY <1>1 DEF GraceEnds
  <1>4. UNCHANGED <<server, uidnext, epoch, mailbox, agent, place, recheck, rebuilds, elses, purged>>
    BY DEF GraceEnds, imap, history, bounds
  <1> HIDE DEF r
  <1>5. QueueGood(queue', purged) /\ Keeps(queue')
    BY <1>2, <1>3, RowMoved
  <1>6. recheck \in Nat /\ rebuilds \in Nat /\ elses \in Nat /\ PlaceGood(place)
    BY DEF IInv, AgentOK
  <1> QED
    BY <1>4, <1>5, <1>6, DeskKeeps

LEMMA UserInv == ASSUME IInv, ~EarlyPress, User PROVE IInv'
BY MoveInv, PurgeInv, SeenInv, CancelInv, ReverseInv, RecheckInv DEF User

-----------------------------------------------------------------------------
(* What the agent does.                                                    *)

LEMMA HereKeeps ==
  ASSUME IInv, UNCHANGED <<server, uidnext, epoch, purged>>,
         PlaceGood(place'), QueueGood(queue', purged), MailboxGood(mailbox'), AgentOK'
  PROVE  IInv'
  <1>1. ServerOK' /\ NothingLost'
    BY DEF IInv, ServerOK, NothingLost, Copies
  <1>2. PlaceGood(place)' /\ MailboxGood(mailbox)'
    BY DEF PlaceGood, Stands, Names, MailboxGood
  <1>3. QueueGood(queue, purged)'
    BY DEF QueueGood, RowGood, Stands, Names
  <1> QED
    BY <1>1, <1>2, <1>3 DEF IInv

\* Between rows and folders the agent holds nothing.
LEMMA LooseAgent ==
  ASSUME IInv, agent' \in AgentSet, agent'.pc \in {"idle", "drain", "picked", "walk"},
         agent'.pc = "picked" => agent'.todo # {},
         agent'.todo \subseteq DOMAIN queue', IsFiniteSet(agent'.got),
         recheck' \in Nat, UNCHANGED <<rebuilds, elses>>
  PROVE  AgentOK'
  <1>1. rebuilds' \in Nat /\ elses' \in Nat
    BY DEF IInv, AgentOK
  <1> QED
    BY <1>1 DEF AgentOK, Holding

LEMMA BeginInv == ASSUME IInv, NEW full \in BOOLEAN, Begin(full) PROVE IInv'
  <1>1. UNCHANGED <<server, uidnext, epoch, purged, place, queue, mailbox, recheck, rebuilds, elses>>
    BY DEF Begin, imap, db, history, bounds
  <1>2. PICK late \in SUBSET {i \in DOMAIN queue : MaybeDue(i)} :
          LET due == late \cup {i \in DOMAIN queue : Due(i)} IN
          agent' = [Idle EXCEPT !.pc = IF due = {} THEN "drain" ELSE "picked",
                                !.full = full \/ recheck # 0, !.recheck = recheck, !.todo = due]
    BY DEF Begin
  <1>3. queue \in Seq(RowSet) /\ recheck \in Nat /\ PlaceGood(place) /\ MailboxGood(mailbox)
        /\ QueueGood(queue, purged)
    BY DEF IInv, QueueGood, AgentOK
  <1>4. late \cup {i \in DOMAIN queue : Due(i)} \subseteq DOMAIN queue
    OBVIOUS
  <1>5. DOMAIN queue \subseteq Nat
    BY <1>3
  <1>6. /\ agent' \in AgentSet /\ agent'.pc \in {"drain", "picked"}
        /\ agent'.todo \subseteq DOMAIN queue /\ agent'.got = {}
        /\ agent'.pc = "picked" => agent'.todo # {}
    BY <1>2, <1>3, <1>4, <1>5, BoxAssumption DEF Idle, AgentSet
  <1>7. AgentOK'
    BY <1>1, <1>3, <1>6, FS_EmptySet, LooseAgent
  <1> QED
    BY <1>1, <1>3, <1>7, HereKeeps

LEMMA CrashInv == ASSUME IInv, Crash PROVE IInv'
  <1>1. UNCHANGED <<server, uidnext, epoch, purged, place, queue, mailbox, recheck, rebuilds, elses>>
    BY DEF Crash, imap, db
  <1>2. agent' = Idle /\ recheck \in Nat
    BY DEF Crash, IInv, AgentOK
  <1>3. agent' \in AgentSet /\ agent'.pc = "idle" /\ agent'.todo = {} /\ agent'.got = {}
    BY <1>2, BoxAssumption DEF Idle, AgentSet
  <1>4. AgentOK'
    BY <1>1, <1>2, <1>3, FS_EmptySet, LooseAgent
  <1> QED
    BY <1>1, <1>4, HereKeeps DEF IInv

LEMMA EndInv == ASSUME IInv, EndPass PROVE IInv'
  <1>1. UNCHANGED <<server, uidnext, epoch, purged, place, queue, mailbox, rebuilds, elses>>
    BY DEF EndPass, imap, history, bounds
  <1>2. agent' = Idle /\ recheck' \in Nat
    BY DEF EndPass, IInv, AgentOK
  <1>3. agent' \in AgentSet /\ agent'.pc = "idle" /\ agent'.todo = {} /\ agent'.got = {}
    BY <1>2, BoxAssumption DEF Idle, AgentSet
  <1>4. AgentOK'
    BY <1>1, <1>2, <1>3, FS_EmptySet, LooseAgent
  <1> QED
    BY <1>1, <1>4, HereKeeps DEF IInv

LEMMA DrainedInv == ASSUME IInv, Drained PROVE IInv'
  <1>1. UNCHANGED <<server, uidnext, epoch, purged, place, queue, mailbox, recheck, rebuilds, elses>>
    BY DEF Drained, imap, db, history, bounds
  <1>2. agent' = [agent EXCEPT !.pc = "walk", !.walk = Box]
    BY DEF Drained
  <1>3. agent \in AgentSet /\ agent.todo \subseteq DOMAIN queue /\ IsFiniteSet(agent.got)
        /\ recheck \in Nat
    BY DEF IInv, AgentOK
  <1>4. agent' \in AgentSet /\ agent'.pc = "walk" /\ agent'.todo = agent.todo /\ agent'.got = agent.got
    BY <1>2, <1>3 DEF AgentSet
  <1>5. AgentOK'
    BY <1>1, <1>3, <1>4, LooseAgent
  <1> QED
    BY <1>1, <1>5, HereKeeps DEF IInv

\* The next row of a pass is one of those it has still to do, and the oldest.
LEMMA NextIs ==
  ASSUME IInv, agent.todo # {}
  PROVE  /\ NextRow \in agent.todo /\ \A j \in agent.todo : NextRow <= j
         /\ NextRow \in DOMAIN queue /\ NextRow \in Nat
         /\ queue[NextRow] \in RowSet /\ queue \in Seq(RowSet)
  <1>1. agent.todo \subseteq DOMAIN queue /\ queue \in Seq(RowSet)
    BY DEF IInv, AgentOK, QueueGood
  <1>2. agent.todo \in SUBSET Int /\ IsFiniteSet(agent.todo)
    BY <1>1, QueueFinite DEF IInv
  <1>3. NextRow \in agent.todo /\ \A j \in agent.todo : NextRow <= j
    BY <1>2, MinIn DEF NextRow
  <1> QED
    BY <1>1, <1>3

LEMMA ReloadInv == ASSUME IInv, Reload PROVE IInv'
  <1>1. UNCHANGED <<server, uidnext, epoch, purged, place, queue, mailbox, recheck, rebuilds, elses>>
    BY DEF Reload, imap, db, history, bounds
  <1>2. agent \in AgentSet /\ agent.todo \subseteq DOMAIN queue /\ IsFiniteSet(agent.got)
        /\ recheck \in Nat /\ agent.todo # {} /\ agent.pc = "drain"
    BY DEF IInv, AgentOK, Reload
  <1>3. \/ agent' = Idle
        \/ agent' = [agent EXCEPT !.pc = "picked"]
        \/ agent' = [agent EXCEPT !.todo = agent.todo \ {NextRow}]
    BY DEF Reload
  <1>4. /\ agent' \in AgentSet /\ agent'.pc \in {"idle", "picked", "drain"}
        /\ agent'.todo \subseteq agent.todo /\ agent'.got \in {agent.got, {}}
        /\ agent'.pc = "picked" => agent'.todo # {}
    <2>1. CASE agent' = Idle
      BY <1>2, <2>1, BoxAssumption DEF Idle, AgentSet
    <2>2. CASE agent' # Idle
      BY <1>2, <1>3, <2>2 DEF AgentSet
    <2> QED
      BY <2>1, <2>2
  <1>5. AgentOK'
    BY <1>1, <1>2, <1>4, FS_EmptySet, LooseAgent
  <1> QED
    BY <1>1, <1>5, HereKeeps DEF IInv

LEMMA LeaseInv == ASSUME IInv, Lease PROVE IInv'
  <1> DEFINE i == NextRow
             r == [queue[i] EXCEPT !.status = "leased"]
  <1>1. UNCHANGED <<server, uidnext, epoch, purged, place, mailbox, recheck, rebuilds, elses>>
    BY DEF Lease, imap, bounds
  <1>2. /\ agent \in AgentSet /\ agent.todo \subseteq DOMAIN queue /\ IsFiniteSet(agent.got)
        /\ recheck \in Nat /\ rebuilds \in Nat /\ elses \in Nat
        /\ QueueGood(queue, purged) /\ PlaceGood(place) /\ MailboxGood(mailbox)
    BY DEF IInv, AgentOK
  <1>3. agent.todo # {} /\ agent.pc = "picked"
    BY DEF Lease, IInv, AgentOK
  <1>5. i \in DOMAIN queue /\ i \in Nat /\ queue[i] \in RowSet /\ queue \in Seq(RowSet)
    BY <1>3, NextIs
  <1>6. CASE Takes(i)
    <2>1. queue' = [queue EXCEPT ![i] = r]
      BY <1>5, <1>6 DEF Lease
    <2>2. /\ r \in RowSet /\ r.msg = queue[i].msg /\ r.box = queue[i].box
          /\ r.uid = queue[i].uid /\ r.epoch = queue[i].epoch
          /\ r.type = queue[i].type /\ r.to = queue[i].to
      BY <1>5 DEF RowSet, Status
    <2>3. agent' = [agent EXCEPT !.pc = "leased", !.row = i, !.todo = agent.todo \ {i}]
      BY <1>6 DEF Lease
    <2> HIDE DEF i, r
    <2>4. QueueGood(queue', purged) /\ Keeps(queue')
      BY <1>5, <2>1, <2>2, RowMoved
    <2>5. /\ agent' \in AgentSet /\ agent'.pc = "leased" /\ agent'.row = i
          /\ agent'.todo \subseteq agent.todo /\ agent'.got = agent.got
      BY <1>2, <1>5, <2>3 DEF AgentSet
    <2>6. AgentOK'
      BY <1>1, <1>2, <1>5, <2>4, <2>5 DEF AgentOK, Keeps, Holding
    <2> QED
      BY <1>1, <1>2, <2>4, <2>6, HereKeeps
  <1>7. CASE ~Takes(i)
    <2>1. agent' = [agent EXCEPT !.pc = "drain", !.todo = agent.todo \ {i}] /\ queue' = queue
      BY <1>7 DEF Lease
    <2>2. /\ agent' \in AgentSet /\ agent'.pc = "drain"
          /\ agent'.todo \subseteq agent.todo /\ agent'.got = agent.got
      BY <1>2, <1>3, <2>1 DEF AgentSet
    <2>3. AgentOK'
      BY <1>1, <1>2, <2>1, <2>2, LooseAgent
    <2> QED
      BY <1>1, <1>2, <2>1, <2>3, HereKeeps
  <1> QED
    BY <1>6, <1>7

\* The end of an attempt.
LEMMA SettleInv ==
  ASSUME IInv, agent.pc \in Holding, NEW status \in {"done", "stale", "refused", "failed"},
         Settle(status),
         UNCHANGED <<server, uidnext, epoch, purged, mailbox, recheck, rebuilds, elses>>
  PROVE  IInv'
  <1> DEFINE i == agent.row
             r == queue'[i]
  <1>1. /\ agent \in AgentSet /\ agent.todo \subseteq DOMAIN queue /\ IsFiniteSet(agent.got)
        /\ recheck \in Nat /\ i \in DOMAIN queue
        /\ QueueGood(queue, purged) /\ PlaceGood(place) /\ MailboxGood(mailbox)
    BY DEF IInv, AgentOK
  <1>2. queue \in Seq(RowSet) /\ queue[i] \in RowSet
    BY <1>1 DEF QueueGood
  <1>3. /\ queue' = [queue EXCEPT ![i] = r]
        /\ r \in RowSet /\ r.msg = queue[i].msg /\ r.box = queue[i].box
        /\ r.uid = queue[i].uid /\ r.epoch = queue[i].epoch
        /\ r.type = queue[i].type /\ r.to = queue[i].to
    <2>1. CASE status = "failed"
      <3> DEFINE n == IF queue[i].attempts < StuckAfter THEN queue[i].attempts + 1
                                                        ELSE queue[i].attempts
                 s == [queue[i] EXCEPT !.status = "pending", !.attempts = n]
      <3>1. n \in Nat
        BY <1>2, StuckAssumption DEF RowSet
      <3>2. queue' = [queue EXCEPT ![i] = s]
        BY <1>1, <1>2, <2>1 DEF Settle, RowSet
      <3> HIDE DEF n
      <3>3. s \in RowSet /\ s.msg = queue[i].msg /\ s.box = queue[i].box
            /\ s.uid = queue[i].uid /\ s.epoch = queue[i].epoch
            /\ s.type = queue[i].type /\ s.to = queue[i].to
        BY <1>2, <3>1 DEF RowSet, Status
      <3> HIDE DEF s
      <3>4. r = s
        BY <1>1, <1>2, <3>2
      <3> QED
        BY <3>2, <3>3, <3>4
    <2>2. CASE status # "failed"
      <3> DEFINE f == status = "done"
                 s == [queue[i] EXCEPT !.status = status, !.fresh = f]
      <3>0. f \in BOOLEAN
        OBVIOUS
      <3>1. status \in Status
        BY <2>2 DEF Status
      <3>2. queue' = [queue EXCEPT ![i] = s]
        BY <1>1, <1>2, <2>2 DEF Settle, RowSet
      <3> HIDE DEF f
      <3>3. s \in RowSet /\ s.msg = queue[i].msg /\ s.box = queue[i].box
            /\ s.uid = queue[i].uid /\ s.epoch = queue[i].epoch
            /\ s.type = queue[i].type /\ s.to = queue[i].to
        BY <1>2, <3>0, <3>1 DEF RowSet
      <3> HIDE DEF s
      <3>4. r = s
        BY <1>1, <1>2, <3>2
      <3> QED
        BY <3>2, <3>3, <3>4
    <2> QED
      BY <2>1, <2>2
  <1>4. QueueGood(queue', purged) /\ Keeps(queue')
    BY <1>1, <1>3, RowMoved
  <1>5. PlaceGood(place')
    <2>1. place' \subseteq place
      BY DEF Settle, WithoutPending
    <2> QED
      BY <1>1, <2>1, PartGood
  <1>6. agent' = [agent EXCEPT !.pc = "drain"]
    BY DEF Settle, Goto
  <1>7. agent' \in AgentSet /\ agent'.pc = "drain" /\ agent'.todo = agent.todo /\ agent'.got = agent.got
    BY <1>1, <1>6 DEF AgentSet
  <1>8. AgentOK'
    BY <1>1, <1>4, <1>7, LooseAgent DEF Keeps
  <1> QED
    BY <1>1, <1>4, <1>5, <1>8, HereKeeps

LEMMA RefusalInv == ASSUME IInv, Refusal PROVE IInv'
  <1>1. Settle("refused") /\ agent.pc \in Holding
    BY DEF Refusal, Holding
  <1>2. UNCHANGED <<server, uidnext, epoch, purged, mailbox, recheck, rebuilds, elses>>
    BY DEF Refusal, imap, bounds
  <1> QED
    BY <1>1, <1>2, SettleInv

LEMMA AppliedInv == ASSUME IInv, Applied PROVE IInv'
  <1>1. Settle("done") /\ agent.pc \in Holding
    BY DEF Applied, Holding
  <1>2. UNCHANGED <<server, uidnext, epoch, purged, mailbox, recheck, rebuilds, elses>>
    BY DEF Applied, imap, bounds
  <1> QED
    BY <1>1, <1>2, SettleInv

LEMMA FailInv == ASSUME IInv, Fail PROVE IInv'
  <1>1. Settle("failed") /\ agent.pc \in Holding
    BY DEF Fail, Holding
  <1>2. UNCHANGED <<server, uidnext, epoch, purged, mailbox, recheck, rebuilds, elses>>
    BY DEF Fail, imap
  <1> QED
    BY <1>1, <1>2, SettleInv

LEMMA SelectInv == ASSUME IInv, Select PROVE IInv'
  <1> DEFINE row == queue[agent.row]
  <1>1. agent.pc = "leased" /\ agent.pc \in Holding
    BY DEF Select, Holding
  <1>2. UNCHANGED <<server, uidnext, epoch, purged, mailbox, recheck, rebuilds, elses>>
    BY DEF Select, imap
  <1>3. \/ Verified(row) /\ Goto("selected") /\ UNCHANGED <<place, queue>>
        \/ \E found \in {"done", "stale", "failed"} : Settle(found)
    BY DEF Select, _still_to_move
  <1>4. CASE Verified(row) /\ Goto("selected") /\ UNCHANGED <<place, queue>>
    <2>1. AgentOK /\ agent \in AgentSet
      BY DEF IInv, AgentOK
    <2>2. agent' = [agent EXCEPT !.pc = "selected"]
      BY <1>4 DEF Goto
    <2>3. /\ agent' \in AgentSet /\ agent'.pc = "selected" /\ agent'.row = agent.row
          /\ agent'.todo = agent.todo /\ agent'.got = agent.got
      BY <2>1, <2>2 DEF AgentSet
    <2>4. AgentOK'
      BY <1>1, <1>2, <1>4, <2>1, <2>3 DEF AgentOK, Verified
    <2> QED
      BY <1>2, <1>4, <2>4, HereKeeps DEF IInv
  <1>5. CASE \E found \in {"done", "stale", "failed"} : Settle(found)
    BY <1>1, <1>2, <1>5, SettleInv
  <1> QED
    BY <1>3, <1>4, <1>5

LEMMA RegisterInv == ASSUME IInv, NEW b \in Box, register_folder(b) PROVE IInv'
  <1>1. UNCHANGED <<server, uidnext, epoch, purged, place, queue, recheck, rebuilds, elses>>
    BY DEF register_folder, imap, history, bounds
  <1>2. /\ AgentOK /\ agent \in AgentSet /\ PlaceGood(place) /\ QueueGood(queue, purged)
        /\ MailboxGood(mailbox) /\ epoch \in [Box -> Nat] /\ IsFiniteSet(server[b])
    BY DEF IInv, AgentOK, ServerOK, FolderOK
  <1> DEFINE last == IF mailbox[b].epoch # epoch[b] \/ agent.recheck # 0 THEN 0 ELSE mailbox[b].last
  <1>3. mailbox' = [mailbox EXCEPT ![b] = [epoch |-> epoch[b], last |-> last]]
    BY DEF register_folder
  <1>4. last \in Nat
    BY <1>2 DEF MailboxGood
  <1>5. Cardinality(server[b]) \in Nat
    BY <1>2, FS_CardinalityType
  <1>6. agent' = [agent EXCEPT !.pc = "opened", !.box = b, !.walk = agent.walk \ {b},
                               !.exists = Cardinality(server[b])]
    BY DEF register_folder
  <1> HIDE DEF last
  <1>7. MailboxGood(mailbox') /\ mailbox'[b].epoch = epoch[b]
    BY <1>2, <1>3, <1>4 DEF MailboxGood
  <1>8. /\ agent' \in AgentSet /\ agent'.pc = "opened" /\ agent'.box = b
        /\ agent'.todo = agent.todo /\ agent'.got = agent.got
    BY <1>2, <1>5, <1>6 DEF AgentSet
  <1>9. AgentOK'
    BY <1>1, <1>2, <1>7, <1>8 DEF AgentOK, Holding
  <1> QED
    BY <1>1, <1>2, <1>7, <1>9, HereKeeps

\* What a SEARCH of a folder answers stands, while the pass lasts.
LEMMA FetchInv == ASSUME IInv, FetchNew \/ ListFolder PROVE IInv'
  <1> DEFINE b == agent.box
  <1>1. UNCHANGED <<server, uidnext, epoch, purged, place, queue, mailbox, recheck, rebuilds, elses>>
    BY DEF FetchNew, ListFolder, imap, db, history, bounds
  <1>2. AgentOK /\ agent \in AgentSet /\ b \in Box /\ FolderOK(server[b], uidnext[b])
    BY DEF IInv, AgentOK, ServerOK, AgentSet
  <1>3. PICK new \in SUBSET server[b], pc \in {"sweep", "walk", "fetched", "listed"} :
          agent' = [agent EXCEPT !.got = new, !.pc = pc]
    <2>1. CASE FetchNew
      <3>1. PICK new \in Listing({e \in server[b] : e.uid > mailbox[b].last}) :
              agent' = [agent EXCEPT !.got = new, !.pc = IF new = {} THEN Onward ELSE "fetched"]
        BY <2>1 DEF FetchNew
      <3>2. new \in SUBSET server[b]
        BY <3>1 DEF Listing
      <3>3. (IF new = {} THEN Onward ELSE "fetched") \in {"sweep", "walk", "fetched", "listed"}
        BY DEF Onward
      <3> QED
        BY <3>1, <3>2, <3>3
    <2>2. CASE ListFolder
      <3>1. PICK new \in Listing(server[b]) : agent' = [agent EXCEPT !.pc = "listed", !.got = new]
        BY <2>2 DEF ListFolder
      <3>2. new \in SUBSET server[b]
        BY <3>1 DEF Listing
      <3>3. agent' = [agent EXCEPT !.got = new, !.pc = "listed"]
        BY <1>2, <3>1 DEF AgentSet
      <3> QED
        BY <3>2, <3>3
    <2> QED
      BY <2>1, <2>2
  <1>4. new \in SUBSET EntrySet /\ IsFiniteSet(new)
        /\ \A e \in new : Names(b, e.uid, e.msg)
    <2>1. IsFiniteSet(new)
      BY <1>2, FS_Subset DEF FolderOK
    <2> QED
      BY <1>2, <2>1 DEF FolderOK, Names, EntrySet
  <1>5. agent' \in AgentSet /\ agent'.pc = pc /\ agent'.got = new
        /\ agent'.box = b /\ agent'.todo = agent.todo
    BY <1>2, <1>3, <1>4 DEF AgentSet
  <1>6. mailbox[b].epoch = epoch[b]
    BY <1>2 DEF AgentOK, FetchNew, ListFolder
  <1>7. \A e \in new : Names(b, e.uid, e.msg)'
    BY <1>1, <1>4, <1>5 DEF Names
  <1>8. AgentOK'
    BY <1>1, <1>2, <1>4, <1>5, <1>6, <1>7 DEF AgentOK, Holding
  <1> QED
    BY <1>1, <1>8, HereKeeps DEF IInv

\* Messages the server lists are stored under UIDs that stand ...
LEMMA UpsertedGood ==
  ASSUME NEW ps, PlaceGood(ps), NEW b \in Box, NEW got \in SUBSET EntrySet, IsFiniteSet(got),
         mailbox[b].epoch = epoch[b], epoch[b] \in Nat,
         \A e \in got : Names(b, e.uid, e.msg)
  PROVE  PlaceGood(Upserted(ps, b, got))
  <1> DEFINE kept == {p \in ps : ~(p.box = b /\ \E e \in got :
                                     p.uid = e.uid \/ (is_pending(p) /\ p.msg = e.msg))}
             new(e) == At(e.msg, b, e.uid, e.seen \/ Inherits(ps, b, e), mailbox[b].epoch)
             f == [e \in got |-> new(e)]
  <1>1. PlaceGood(kept)
    BY PartGood
  <1>2. ASSUME NEW e \in got
        PROVE  f[e] \in PlaceSet /\ Stands(f[e].box, f[e].uid, f[e].era, f[e].msg)
    <2>1. e.msg \in Msg /\ e.uid \in Nat
      BY DEF EntrySet
    <2> DEFINE seen == e.seen \/ Inherits(ps, b, e)
    <2>2. seen \in BOOLEAN
      OBVIOUS
    <2> HIDE DEF seen
    <2>3. LET p == At(e.msg, b, e.uid, seen, epoch[b]) IN
          /\ p \in PlaceSet /\ p.msg = e.msg /\ p.box = b /\ p.uid = e.uid /\ p.era = epoch[b]
      BY <2>1, <2>2, AtType
    <2>4. f[e] = At(e.msg, b, e.uid, seen, epoch[b])
      BY DEF seen
    <2>5. Stands(b, e.uid, epoch[b], e.msg)
      BY DEF Stands
    <2> HIDE DEF f
    <2> QED
      BY <2>3, <2>4, <2>5
  <1>3. Upserted(ps, b, got) = kept \cup {f[e] : e \in got}
    BY DEF Upserted
  <1>4. f = [e \in got |-> f[e]]
    OBVIOUS
  <1> HIDE DEF f, kept
  <1>5. IsFiniteSet({f[e] : e \in got})
    BY <1>4, ImageFinite
  <1>6. IsFiniteSet(kept \cup {f[e] : e \in got})
    BY <1>1, <1>5, FS_Union DEF PlaceGood
  <1> QED
    BY <1>1, <1>2, <1>3, <1>6 DEF PlaceGood

\* ... and so are the rows that tell it of flags.
LEMMA CatchUpGood ==
  ASSUME IInv, NEW ps, NEW b \in Box, NEW got \in SUBSET EntrySet, IsFiniteSet(got),
         mailbox[b].epoch = epoch[b], epoch[b] \in Nat,
         \A e \in got : Names(b, e.uid, e.msg)
  PROVE  LET rows == queue \o CatchUp(ps, b, got) IN
         QueueGood(rows, purged) /\ Keeps(rows)
  <1> DEFINE S == {e \in got : ~e.seen /\ Inherits(ps, b, e)}
             s == SetToSeq(S)
             n == Cardinality(S)
             row(e) == Row("setflags", At(e.msg, b, e.uid, TRUE, 0), mailbox[b].epoch, "none", TRUE)
             new == [i \in DOMAIN s |-> row(s[i])]
  <1>1. IsFiniteSet(S) /\ S \subseteq got
    BY FS_Subset
  <1>2. n \in Nat /\ s \in [1..n -> S]
    BY <1>1, SetToSeqType, FS_CardinalityType
  <1>3. ASSUME NEW e \in S PROVE row(e) \in RowSet /\ RowGood(row(e), purged)
    <2>1. e \in EntrySet /\ e.msg \in Msg /\ e.uid \in Nat /\ e.uid # 0
      BY DEF EntrySet
    <2> DEFINE p == At(e.msg, b, e.uid, TRUE, 0)
    <2>2. p \in PlaceSet /\ p.msg = e.msg /\ p.box = b /\ p.uid = e.uid /\ p.uid # 0
      BY <2>1 DEF At, PlaceSet
    <2> HIDE DEF p
    <2>3. LET r == Row("setflags", p, epoch[b], "none", TRUE) IN
          /\ r \in RowSet /\ r.type = "setflags"
          /\ r.msg = p.msg /\ r.box = p.box /\ r.uid = p.uid /\ r.epoch = epoch[b]
      BY <2>1, <2>2 DEF Row, RowSet, PlaceSet, Status, Types
    <2>4. Stands(b, e.uid, epoch[b], e.msg)
      BY DEF Stands
    <2>5. row(e) = Row("setflags", p, epoch[b], "none", TRUE)
      BY DEF p
    <2> HIDE DEF row
    <2> QED
      BY <2>2, <2>3, <2>4, <2>5 DEF RowGood
  <1>4. CatchUp(ps, b, got) = new
    BY DEF CatchUp
  <1> HIDE DEF S, s, n, row
  <1>5. new \in [1..n -> RowSet] /\ \A i \in 1..n : RowGood(new[i], purged)
    BY <1>2, <1>3
  <1> HIDE DEF new
  <1>6. /\ QueueGood(queue \o new, purged)
        /\ DOMAIN queue \subseteq DOMAIN (queue \o new)
        /\ \A i \in DOMAIN queue : (queue \o new)[i] = queue[i]
    BY <1>2, <1>5, RowsJoined DEF IInv
  <1> QED
    BY <1>4, <1>6 DEF Keeps

LEMMA StoreInv == ASSUME IInv, StoreNew PROVE IInv'
  <1> DEFINE b == agent.box
             got == agent.got
             uids == {e.uid : e \in got}
             last == Max({mailbox[b].last} \cup uids)
  <1>1. UNCHANGED <<server, uidnext, epoch, purged, recheck, rebuilds, elses>>
    BY DEF StoreNew, imap, bounds
  <1>2. /\ AgentOK /\ agent \in AgentSet /\ b \in Box /\ got \in SUBSET EntrySet /\ IsFiniteSet(got)
        /\ mailbox[b].epoch = epoch[b] /\ epoch[b] \in Nat
        /\ \A e \in got : Names(b, e.uid, e.msg)
        /\ PlaceGood(place) /\ MailboxGood(mailbox) /\ recheck \in Nat
    BY DEF IInv, AgentOK, ServerOK, AgentSet, StoreNew
  <1>3. /\ place' = Upserted(place, b, got)
        /\ queue' = queue \o CatchUp(place, b, got)
        /\ mailbox' = [mailbox EXCEPT ![b].last = last]
        /\ agent' = [agent EXCEPT !.pc = Onward, !.got = {}]
    BY DEF StoreNew
  <1>4. last \in Nat
    <2> DEFINE f == [e \in got |-> e.uid]
    <2>1. uids = {f[e] : e \in got} /\ f = [e \in got |-> f[e]]
      OBVIOUS
    <2>2. uids \subseteq Nat /\ mailbox[b].last \in Nat
      BY <1>2 DEF MailboxGood, EntrySet
    <2> HIDE DEF f, uids, got
    <2>3. IsFiniteSet(uids)
      BY <1>2, <2>1, ImageFinite
    <2> DEFINE S == {mailbox[b].last} \cup uids
    <2>a. mailbox[b].last \in S
      OBVIOUS
    <2>b. \A x \in S : x \in Nat
      BY <2>2
    <2>4. (\A x \in S : x \in Nat) /\ S \in SUBSET Int /\ S # {}
      <3> HIDE DEF S
      <3> QED
        BY <2>a, <2>b
    <2>5. IsFiniteSet(S)
      BY <2>3, FS_Singleton, FS_Union
    <2> HIDE DEF S
    <2>6. Max(S) \in S
      BY <2>4, <2>5, MaxIn
    <2> QED
      BY <2>4, <2>6 DEF S
  <1> HIDE DEF b, got, uids, last
  <1>5. PlaceGood(place')
    BY <1>2, <1>3, UpsertedGood
  <1>6. QueueGood(queue', purged) /\ Keeps(queue')
    BY <1>2, <1>3, CatchUpGood
  <1>7. MailboxGood(mailbox')
    BY <1>2, <1>3, <1>4 DEF MailboxGood
  <1>8. Onward \in {"sweep", "walk"}
    BY DEF Onward
  <1>9. /\ agent' \in AgentSet /\ agent'.pc \in {"sweep", "walk"} /\ agent'.got = {}
        /\ agent'.todo = agent.todo /\ agent'.box = b
    BY <1>2, <1>3, <1>8 DEF AgentSet, b
  <1>10. mailbox'[b].epoch = epoch[b]
    BY <1>2, <1>3 DEF MailboxGood
  <1>11. AgentOK'
    BY <1>1, <1>2, <1>6, <1>9, <1>10, FS_EmptySet DEF AgentOK, Holding, Keeps
  <1> QED
    BY <1>1, <1>5, <1>6, <1>7, <1>11, HereKeeps

LEMMA SweepInv == ASSUME IInv, Sweep PROVE IInv'
  <1> DEFINE b == agent.box
             flagged == Swept(b, agent.got)
             back == Missing(flagged, b, agent.got)
             full == Upserted(flagged, b, back)
             gone == Vanished(full, b, agent.got, agent.exists)
             orphans == {p.msg : p \in gone} \ {p.msg : p \in full \ gone}
             rows == queue \o CatchUp(flagged, b, back)
  <1>1. UNCHANGED <<server, uidnext, epoch, purged, recheck, mailbox, rebuilds, elses>>
    BY DEF Sweep, imap, bounds
  <1>2. /\ AgentOK /\ agent \in AgentSet /\ b \in Box /\ agent.got \in SUBSET EntrySet
        /\ mailbox[b].epoch = epoch[b] /\ epoch[b] \in Nat
        /\ FolderOK(server[b], uidnext[b])
        /\ PlaceGood(place) /\ MailboxGood(mailbox) /\ recheck \in Nat
    BY DEF IInv, AgentOK, ServerOK, AgentSet, Sweep
  <1>3. /\ place' = full \ gone
        /\ queue' = [i \in DOMAIN rows |-> IF rows[i].msg \in orphans
                                           THEN [rows[i] EXCEPT !.status = "gone"] ELSE rows[i]]
        /\ agent' = [agent EXCEPT !.pc = "walk", !.got = {}]
    BY DEF Sweep
  <1>4. PlaceGood(flagged)
    <2> DEFINE f == [p \in place |->
                       IF p.box = b /\ \E e \in agent.got : e.uid = p.uid
                       THEN [p EXCEPT !.seen = (CHOOSE e \in agent.got : e.uid = p.uid).seen] ELSE p]
    <2>1. flagged = {f[p] : p \in place} /\ f = [p \in place |-> f[p]]
      BY DEF Swept
    <2>2. ASSUME NEW p \in place
          PROVE  /\ f[p] \in PlaceSet /\ f[p].uid = p.uid /\ f[p].msg = p.msg
                 /\ f[p].box = p.box /\ f[p].era = p.era
      <3>1. p \in PlaceSet
        BY <1>2 DEF PlaceGood
      <3>2. CASE p.box = b /\ \E e \in agent.got : e.uid = p.uid
        <4> DEFINE e == CHOOSE e \in agent.got : e.uid = p.uid
        <4>1. e \in agent.got
          BY <3>2
        <4> HIDE DEF e
        <4>2. e.seen \in BOOLEAN
          BY <1>2, <4>1 DEF EntrySet
        <4>3. f[p] = [p EXCEPT !.seen = e.seen]
          BY <3>2 DEF e
        <4> HIDE DEF f
        <4> QED
          BY <3>1, <4>2, <4>3 DEF PlaceSet
      <3>3. CASE ~(p.box = b /\ \E e \in agent.got : e.uid = p.uid)
        BY <3>1, <3>3
      <3> QED
        BY <3>2, <3>3
    <2> HIDE DEF f, flagged
    <2>3. IsFiniteSet(flagged)
      BY <1>2, <2>1, ImageFinite DEF PlaceGood
    <2> QED
      BY <1>2, <2>1, <2>2, <2>3 DEF PlaceGood, is_pending
  <1>5. /\ back \in SUBSET EntrySet /\ IsFiniteSet(back)
        /\ \A e \in back : Names(b, e.uid, e.msg)
    <2>1. back \subseteq server[b]
      BY DEF Missing
    <2>2. IsFiniteSet(back)
      BY <1>2, <2>1, FS_Subset DEF FolderOK
    <2> HIDE DEF back
    <2> QED
      BY <1>2, <2>1, <2>2 DEF FolderOK, Names, EntrySet
  <1> HIDE DEF flagged, back
  <1>6. PlaceGood(full)
    BY <1>2, <1>4, <1>5, UpsertedGood
  <1>7. QueueGood(rows, purged) /\ Keeps(rows)
    BY <1>2, <1>5, CatchUpGood
  <1> HIDE DEF full, rows
  <1>8. PlaceGood(place')
    BY <1>3, <1>6, PartGood
  <1> HIDE DEF gone, orphans
  <1>9. QueueGood(queue', purged) /\ Keeps(queue')
    <2>1. rows \in Seq(RowSet) /\ DOMAIN rows = 1..Len(rows)
      BY <1>7 DEF QueueGood
    <2>2. ASSUME NEW i \in DOMAIN rows
          PROVE  /\ queue'[i] \in RowSet /\ RowGood(queue'[i], purged)
                 /\ queue'[i].msg = rows[i].msg /\ queue'[i].box = rows[i].box
                 /\ queue'[i].uid = rows[i].uid /\ queue'[i].epoch = rows[i].epoch
      <3> DEFINE r == [rows[i] EXCEPT !.status = "gone"]
      <3>1. rows[i] \in RowSet /\ RowGood(rows[i], purged)
        BY <1>7, <2>1 DEF QueueGood
      <3>2. /\ r \in RowSet /\ r.msg = rows[i].msg /\ r.box = rows[i].box
            /\ r.uid = rows[i].uid /\ r.epoch = rows[i].epoch
            /\ r.type = rows[i].type /\ r.to = rows[i].to
        BY <3>1 DEF RowSet, Status
      <3>3. queue'[i] = r \/ queue'[i] = rows[i]
        BY <1>3
      <3> HIDE DEF r
      <3>4. RowGood(r, purged)
        BY <3>1, <3>2 DEF RowGood
      <3> QED
        BY <3>1, <3>2, <3>3, <3>4
    <2>3. DOMAIN queue' = DOMAIN rows /\ queue' = [i \in DOMAIN rows |-> queue'[i]]
      BY <1>3
    <2>4. queue' \in Seq(RowSet)
      BY <2>1, <2>2, <2>3
    <2> QED
      BY <1>7, <2>2, <2>3, <2>4 DEF QueueGood, Keeps
  <1>10. /\ agent' \in AgentSet /\ agent'.pc = "walk" /\ agent'.got = {}
         /\ agent'.todo = agent.todo
    BY <1>2, <1>3 DEF AgentSet
  <1>11. AgentOK'
    BY <1>1, <1>2, <1>9, <1>10, FS_EmptySet, LooseAgent DEF AgentOK, Keeps
  <1> QED
    BY <1>1, <1>2, <1>8, <1>9, <1>11, HereKeeps

-----------------------------------------------------------------------------
(* What happens on the server.                                             *)

\* A folder that takes mail under fresh UIDs, and loses some.
Grown(b) ==
    /\ uidnext'[b] \in Nat /\ uidnext[b] <= uidnext'[b]
    /\ \A e \in server'[b] : e.uid < uidnext[b] =>
         \E d \in server[b] : d.uid = e.uid /\ d.msg = e.msg

LEMMA NamesKept ==
  ASSUME IInv, NEW b \in Box, NEW uid \in Nat, NEW m, Grown(b), Names(b, uid, m)
  PROVE  Names(b, uid, m)'
  <1>1. uidnext[b] \in Nat
    BY DEF IInv, ServerOK, FolderOK
  <1> QED
    BY <1>1 DEF Grown, Names

LEMMA ServerKeeps ==
  ASSUME IInv, ServerOK', NothingLost', AgentOK', UNCHANGED <<place, queue, mailbox>>,
         purged \subseteq purged',
         \A b \in Box : (epoch'[b] = epoch[b] /\ Grown(b)) \/ epoch'[b] = epoch[b] + 1
  PROVE  IInv'
  <1>1. ASSUME NEW b \in Box, NEW uid \in Nat, NEW era \in Nat, NEW m, Stands(b, uid, era, m)
        PROVE  Stands(b, uid, era, m)'
    <2>1. epoch[b] \in Nat
      BY DEF IInv, ServerOK
    <2>2. CASE epoch'[b] = epoch[b] + 1
      BY <1>1, <2>1, <2>2 DEF Stands
    <2>3. CASE epoch'[b] = epoch[b] /\ Grown(b)
      BY <1>1, <2>3, NamesKept DEF Stands
    <2> QED
      BY <2>2, <2>3
  <1>2. PlaceGood(place)'
    <2>1. PlaceGood(place) /\ place' = place
      BY DEF IInv
    <2>2. \A p \in place : p.box \in Box /\ p.uid \in Nat /\ p.era \in Nat
      BY <2>1 DEF PlaceGood, PlaceSet
    <2> QED
      BY <1>1, <2>1, <2>2 DEF PlaceGood
  <1>3. QueueGood(queue, purged)'
    <2>1. QueueGood(queue, purged) /\ queue' = queue
      BY DEF IInv
    <2>2. ASSUME NEW i \in DOMAIN queue PROVE RowGood(queue[i], purged)'
      <3>1. RowGood(queue[i], purged) /\ queue[i] \in RowSet
        BY <2>1 DEF QueueGood
      <3>2. queue[i].box \in Box /\ queue[i].uid \in Nat /\ queue[i].epoch \in Nat
        BY <3>1 DEF RowSet
      <3>3. Stands(queue[i].box, queue[i].uid, queue[i].epoch, queue[i].msg)'
        BY <1>1, <2>1, <3>1, <3>2 DEF RowGood
      <3> QED
        BY <2>1, <3>1, <3>3 DEF RowGood
    <2> QED
      BY <2>1, <2>2 DEF QueueGood
  <1>4. MailboxGood(mailbox)'
    <2>1. MailboxGood(mailbox) /\ mailbox' = mailbox
      BY DEF IInv
    <2>2. \A b \in Box : epoch[b] \in Nat /\ epoch'[b] >= epoch[b]
      BY DEF IInv, ServerOK
    <2>3. epoch' \in [Box -> Nat]
      BY DEF ServerOK
    <2> QED
      BY <2>1, <2>2, <2>3 DEF MailboxGood
  <1> QED
    BY <1>2, <1>3, <1>4 DEF IInv

\* One folder loses the messages it has under a UID.
LEMMA FolderThinned ==
  ASSUME IInv, NEW b \in Box, NEW gone, server' = [server EXCEPT ![b] = server[b] \ gone],
         UNCHANGED <<uidnext, epoch>>
  PROVE  ServerOK' /\ \A c \in Box : Grown(c)
  <1>1. ServerOK
    BY DEF IInv
  <1>2. \A c \in Box : server'[c] \subseteq server[c] /\ IsFiniteSet(server[c])
    BY <1>1 DEF ServerOK, FolderOK
  <1>3. \A c \in Box : IsFiniteSet(server'[c])
    BY <1>2, FS_Subset
  <1>4. server' = [c \in Box |-> server'[c]]
    BY <1>1 DEF ServerOK
  <1>5. ASSUME NEW c \in Box PROVE FolderOK(server'[c], uidnext[c])
    <2>1. FolderOK(server[c], uidnext[c])
      BY <1>1 DEF ServerOK
    <2> QED
      BY <1>2, <1>3, <2>1 DEF FolderOK
  <1>6. \A c \in Box : Grown(c)
    BY <1>1, <1>2 DEF ServerOK, FolderOK, Grown
  <1> QED
    BY <1>1, <1>4, <1>5, <1>6 DEF ServerOK

\* A folder takes copies of one message under the next UID.
LEMMA FolderFilled ==
  ASSUME NEW es, NEW n, FolderOK(es, n), NEW new \in SUBSET EntrySet, IsFiniteSet(new),
         \A e, d \in new : e.uid = n /\ e.msg = d.msg
  PROVE  FolderOK(es \cup new, n + 1)
  <1>1. IsFiniteSet(es \cup new)
    BY FS_Union DEF FolderOK
  <1>2. n \in Nat /\ \A e \in es : e.uid \in Nat /\ e.uid < n
    BY DEF FolderOK, EntrySet
  <1> QED
    BY <1>1, <1>2 DEF FolderOK

LEMMA RemoveInv == ASSUME IInv, RemoveSource PROVE IInv'
  <1> DEFINE row == queue[agent.row]
  <1>1. /\ server' = [server EXCEPT ![row.box] = server[row.box] \ Entry(row.box, row.uid)]
        /\ agent' = [agent EXCEPT !.pc = "applied"] /\ agent.pc = "copied"
        /\ UNCHANGED <<uidnext, epoch, place, queue, mailbox, recheck, purged, rebuilds, elses>>
    BY DEF RemoveSource, Without, Goto, db, history, bounds
  <1>2. /\ AgentOK /\ agent \in AgentSet /\ agent.row \in DOMAIN queue
        /\ row \in RowSet /\ RowGood(row, purged) /\ row.epoch = epoch[row.box]
    BY <1>1 DEF IInv, AgentOK, Holding, QueueGood
  <1>3. row.box \in Box /\ Names(row.box, row.uid, row.msg)
    BY <1>2 DEF RowSet, RowGood, Stands
  <1> HIDE DEF row
  <1>4. ServerOK' /\ \A c \in Box : Grown(c)
    BY <1>1, <1>3, FolderThinned
  <1>5. NothingLost'
    <2> SUFFICES ASSUME NEW m \in Msg \ purged PROVE \E b \in Box : \E e \in server'[b] : e.msg = m
      BY <1>1 DEF NothingLost, Copies
    <2>1. server = [c \in Box |-> server[c]]
      BY DEF IInv, ServerOK
    <2>2. CASE m = row.msg
      <3>1. PICK b \in Box : \E e \in Copies(b, m) : b # row.box \/ e.uid # row.uid
        BY <1>1, <1>2, <2>2 DEF AgentOK, row
      <3>2. PICK e \in Copies(b, m) : b # row.box \/ e.uid # row.uid
        BY <3>1
      <3>3. e \in server'[b] /\ e.msg = m
        BY <1>1, <1>3, <2>1, <3>2 DEF Copies, Entry
      <3> QED
        BY <3>3
    <2>3. CASE m # row.msg
      <3>1. PICK b \in Box : \E e \in server[b] : e.msg = m
        BY DEF IInv, NothingLost, Copies
      <3>2. PICK e \in server[b] : e.msg = m
        BY <3>1
      <3>3. e \in server'[b]
        BY <1>1, <1>3, <2>1, <2>3, <3>2 DEF Entry, Names
      <3> QED
        BY <3>2, <3>3
    <2> QED
      BY <2>2, <2>3
  <1>6. /\ agent' \in AgentSet /\ agent'.pc = "applied" /\ agent'.row = agent.row
        /\ agent'.todo = agent.todo /\ agent'.got = agent.got
    BY <1>1, <1>2 DEF AgentSet
  <1>7. AgentOK'
    BY <1>1, <1>2, <1>6 DEF AgentOK
  <1> QED
    BY <1>1, <1>4, <1>5, <1>7, ServerKeeps

\* Copies of one message go into one folder, and some mail out of another.
LEMMA FoldersExchanged ==
  ASSUME IInv, NEW b \in Box, NEW c \in Box, b # c, NEW gone,
         NEW new \in SUBSET EntrySet, IsFiniteSet(new),
         \A e, d \in new : e.uid = uidnext[c] /\ e.msg = d.msg,
         server' = [f \in Box |-> IF f = c THEN server[c] \cup new
                                  ELSE IF f = b THEN server[b] \ gone ELSE server[f]],
         \/ uidnext' = [uidnext EXCEPT ![c] = uidnext[c] + 1]
         \/ uidnext' = uidnext /\ new = {},
         epoch' = epoch
  PROVE  ServerOK' /\ \A f \in Box : Grown(f)
  <1>1. ServerOK
    BY DEF IInv
  <1>2. \A f \in Box : FolderOK(server[f], uidnext[f]) /\ uidnext[f] \in Nat
    BY <1>1 DEF ServerOK, FolderOK
  <1>3. /\ uidnext' = [f \in Box |-> uidnext'[f]]
        /\ \A f \in Box : f # c => uidnext'[f] = uidnext[f]
        /\ uidnext'[c] = uidnext[c] + 1 \/ (uidnext'[c] = uidnext[c] /\ new = {})
    BY <1>1 DEF ServerOK
  <1>4. FolderOK(server'[c], uidnext'[c])
    <2>1. CASE uidnext'[c] = uidnext[c] + 1
      <3>1. FolderOK(server[c] \cup new, uidnext[c] + 1)
        BY <1>2, FolderFilled
      <3> QED
        BY <2>1, <3>1
    <2>2. CASE uidnext'[c] = uidnext[c] /\ new = {}
      <3>1. server'[c] = server[c]
        BY <2>2
      <3> QED
        BY <1>2, <2>2, <3>1
    <2> QED
      BY <1>3, <2>1, <2>2
  <1>5. FolderOK(server'[b], uidnext'[b])
    <2>1. server'[b] \subseteq server[b] /\ uidnext'[b] = uidnext[b]
      BY <1>3
    <2>2. IsFiniteSet(server'[b])
      BY <1>2, <2>1, FS_Subset DEF FolderOK
    <2>3. FolderOK(server[b], uidnext[b])
      BY <1>2
    <2> QED
      BY <2>1, <2>2, <2>3 DEF FolderOK
  <1>6. \A f \in Box : FolderOK(server'[f], uidnext'[f])
    BY <1>2, <1>3, <1>4, <1>5
  <1>7. ASSUME NEW f \in Box PROVE Grown(f)
    <2>1. uidnext'[f] \in Nat /\ uidnext[f] <= uidnext'[f]
      BY <1>2, <1>3
    <2>2. ASSUME NEW e \in server'[f], e.uid < uidnext[f] PROVE e \in server[f]
      BY <1>2, <2>2
    <2> QED
      BY <2>1, <2>2 DEF Grown
  <1> QED
    BY <1>1, <1>3, <1>6, <1>7 DEF ServerOK

LEMMA ExpungeInv ==
  ASSUME IInv, NEW b \in Box, NEW e \in server[b], ExpungeElsewhere(b, e) PROVE IInv'
  <1>1. /\ server' = [server EXCEPT ![b] = server[b] \ {e}] /\ purged' = purged \cup {e.msg}
        /\ elses' = elses + 1
        /\ UNCHANGED <<uidnext, epoch, place, queue, mailbox, recheck, agent, rebuilds>>
    BY DEF ExpungeElsewhere, Disturbed, db
  <1>2. AgentOK /\ server = [c \in Box |-> server[c]]
    BY DEF IInv, ServerOK
  <1>3. ServerOK' /\ \A c \in Box : Grown(c)
    BY <1>1, FolderThinned
  <1>4. ASSUME NEW c \in Box, NEW d \in server[c], d.msg \notin purged' PROVE d \in server'[c]
    BY <1>1, <1>2, <1>4
  <1>5. NothingLost'
    BY <1>1, <1>4 DEF IInv, NothingLost, Copies
  <1>6. AgentOK'
    <2>1. agent.pc = "copied" =>
            LET row == queue[agent.row] IN
            \/ row.msg \in purged'
            \/ \E c \in Box : \E d \in server'[c] :
                 d.msg = row.msg /\ (c # row.box \/ d.uid # row.uid)
      BY <1>1, <1>2, <1>4 DEF AgentOK, Copies
    <2>2. agent.pc = "fetched" => \A d \in agent.got : Names(agent.box, d.uid, d.msg)'
      BY <1>1, <1>2, <1>3, NamesKept DEF AgentOK, AgentSet, EntrySet
    <2>3. elses' \in Nat
      BY <1>1, <1>2 DEF AgentOK
    <2> QED
      BY <1>1, <1>2, <2>1, <2>2, <2>3 DEF AgentOK, Copies
  <1> QED
    BY <1>1, <1>3, <1>5, <1>6, ServerKeeps

LEMMA ElsewhereInv ==
  ASSUME IInv, NEW b \in Box, NEW c \in Box, NEW e \in server[b], MoveElsewhere(b, c, e) PROVE IInv'
  <1> DEFINE new == [e EXCEPT !.uid = uidnext[c]]
  <1>1. /\ b # c /\ elses' = elses + 1
        /\ server' = [server EXCEPT ![b] = server[b] \ {e}, ![c] = server[c] \cup {new}]
        /\ uidnext' = [uidnext EXCEPT ![c] = uidnext[c] + 1]
        /\ UNCHANGED <<epoch, place, queue, mailbox, recheck, agent, rebuilds, purged>>
    <2> DEFINE thin == [server EXCEPT ![b] = server[b] \ {e}]
    <2>1. server = [f \in Box |-> server[f]]
      BY DEF IInv, ServerOK
    <2>2. server' = [thin EXCEPT ![c] = thin[c] \cup {new}] /\ b # c
      BY DEF MoveElsewhere
    <2>3. thin[c] = server[c]
      BY <2>1, <2>2
    <2> QED
      BY <2>2, <2>3 DEF MoveElsewhere, Disturbed, db
  <1>2. /\ AgentOK /\ server = [f \in Box |-> server[f]] /\ uidnext = [f \in Box |-> uidnext[f]]
        /\ FolderOK(server[b], uidnext[b]) /\ FolderOK(server[c], uidnext[c])
    BY DEF IInv, ServerOK
  <1>3. /\ new \in EntrySet /\ new.uid = uidnext[c] /\ new.msg = e.msg
        /\ e.uid < uidnext[b] /\ e.uid \in Nat /\ uidnext[b] \in Nat /\ uidnext[c] \in Nat
    BY <1>2 DEF FolderOK, EntrySet
  <1> HIDE DEF new
  <1>4. server' = [f \in Box |-> IF f = c THEN server[c] \cup {new}
                                ELSE IF f = b THEN server[b] \ {e} ELSE server[f]]
    BY <1>1, <1>2
  <1>5. {new} \in SUBSET EntrySet /\ IsFiniteSet({new})
    BY <1>3, FS_Singleton
  <1>6. ServerOK' /\ \A f \in Box : Grown(f)
    <2> DEFINE more == {new}
               less == {e}
    <2>1. /\ \A x, y \in more : x.uid = uidnext[c] /\ x.msg = y.msg
          /\ more \in SUBSET EntrySet /\ IsFiniteSet(more)
      BY <1>3, <1>5
    <2>2. epoch' = epoch /\ b # c /\ uidnext' = [uidnext EXCEPT ![c] = uidnext[c] + 1]
      BY <1>1
    <2>3. server' = [f \in Box |-> IF f = c THEN server[c] \cup more
                                  ELSE IF f = b THEN server[b] \ less ELSE server[f]]
      BY <1>4
    <2> HIDE DEF more, less
    <2> QED
      BY <2>1, <2>2, <2>3, FoldersExchanged
  <1>7. ASSUME NEW f \in Box, NEW d \in server[f]
        PROVE  \/ d \in server'[f]
               \/ f = b /\ d = e /\ new \in server'[c]
    BY <1>1, <1>4
  <1>8. NothingLost'
    <2> SUFFICES ASSUME NEW m \in Msg \ purged PROVE \E f \in Box : \E d \in server'[f] : d.msg = m
      BY <1>1 DEF NothingLost, Copies
    <2>1. PICK f \in Box : \E d \in server[f] : d.msg = m
      BY DEF IInv, NothingLost, Copies
    <2> QED
      BY <1>3, <1>7, <2>1
  <1>9. AgentOK'
    <2>1. ASSUME agent.pc = "copied", queue[agent.row].msg \notin purged
          PROVE  LET row == queue[agent.row] IN
                 \E f \in Box : \E d \in server'[f] :
                   d.msg = row.msg /\ (f # row.box \/ d.uid # row.uid)
      <3> DEFINE row == queue[agent.row]
      <3>1. PICK f \in Box : \E d \in server[f] : d.msg = row.msg /\ (f # row.box \/ d.uid # row.uid)
        BY <1>2, <2>1 DEF AgentOK, Copies
      <3>2. PICK d \in server[f] : d.msg = row.msg /\ (f # row.box \/ d.uid # row.uid)
        BY <3>1
      <3>3. CASE d \in server'[f]
        BY <3>2, <3>3
      <3>4. CASE f = b /\ d = e /\ new \in server'[c]
        <4>1. row \in RowSet /\ RowGood(row, purged) /\ row.epoch = epoch[row.box]
          BY <1>2, <2>1 DEF AgentOK, Holding, IInv, QueueGood
        <4>2. row.uid < uidnext[row.box] /\ row.uid \in Nat
          BY <4>1 DEF RowGood, Stands, Names, RowSet
        <4>3. c # row.box \/ new.uid # row.uid
          BY <1>3, <4>2
        <4> QED
          BY <1>3, <3>2, <3>4, <4>3
      <3> QED
        BY <1>7, <3>3, <3>4
    <2>2. agent.pc = "fetched" => \A d \in agent.got : Names(agent.box, d.uid, d.msg)'
      BY <1>1, <1>2, <1>6, NamesKept DEF AgentOK, AgentSet, EntrySet
    <2>3. elses' \in Nat
      BY <1>1, <1>2 DEF AgentOK
    <2> QED
      BY <1>1, <1>2, <2>1, <2>2, <2>3 DEF AgentOK, Copies
  <1> QED
    BY <1>1, <1>6, <1>8, <1>9, ServerKeeps

\* A folder renumbered: UIDs read before are of another UIDVALIDITY.
LEMMA RebuildInv == ASSUME IInv, NEW b \in Box, Rebuild(b) PROVE IInv'
  <1> DEFINE n == Cardinality(server[b])
  <1>1. /\ epoch' = [epoch EXCEPT ![b] = epoch[b] + 1] /\ agent.pc = "idle"
        /\ uidnext' = [uidnext EXCEPT ![b] = n + 1] /\ rebuilds' = rebuilds + 1
        /\ UNCHANGED <<place, queue, mailbox, recheck, agent, elses, purged>>
    BY DEF Rebuild, db
  <1>2. PICK f \in [server[b] -> 1..n] :
          /\ IsInjective(f)
          /\ server' = [server EXCEPT ![b] = {[e EXCEPT !.uid = f[e]] : e \in server[b]}]
    BY DEF Rebuild
  <1>3. ServerOK /\ FolderOK(server[b], uidnext[b]) /\ epoch \in [Box -> Nat]
    BY DEF IInv, ServerOK
  <1>4. IsFiniteSet(server[b]) /\ n \in Nat
    BY <1>3, FS_CardinalityType DEF FolderOK
  <1> HIDE DEF n
  <1> DEFINE g == [e \in server[b] |-> [e EXCEPT !.uid = f[e]]]
  <1>5. /\ \A e \in server[b] : g[e] \in EntrySet /\ g[e].uid = f[e] /\ g[e].msg = e.msg
        /\ \A e \in server[b] : f[e] \in 1..n
    BY <1>2, <1>3, <1>4 DEF FolderOK, EntrySet
  <1>6. server'[b] = {g[e] : e \in server[b]} /\ g = [e \in server[b] |-> g[e]]
    BY <1>2, <1>3 DEF ServerOK
  <1> HIDE DEF g
  <1>7. IsFiniteSet(server'[b])
    BY <1>4, <1>6, ImageFinite
  <1>8. \A e, d \in server[b] : f[e] = f[d] => e = d
    BY <1>2 DEF IsInjective
  <1>9. FolderOK(server'[b], n + 1)
    <2>1. \A e \in server'[b] : e \in EntrySet /\ e.uid < n + 1
      BY <1>4, <1>5, <1>6
    <2>2. \A e, d \in server'[b] : e.uid = d.uid => e.msg = d.msg
      BY <1>5, <1>6, <1>8
    <2> QED
      BY <1>4, <1>7, <2>1, <2>2 DEF FolderOK
  <1>10. \A c \in Box : c # b => server'[c] = server[c] /\ uidnext'[c] = uidnext[c]
    BY <1>1, <1>2, <1>3 DEF ServerOK
  <1>11. ServerOK'
    <2>1. uidnext'[b] = n + 1 /\ server' = [c \in Box |-> server'[c]]
          /\ uidnext' = [c \in Box |-> uidnext'[c]]
      BY <1>1, <1>2, <1>3 DEF ServerOK
    <2>2. epoch' \in [Box -> Nat]
      BY <1>1, <1>3
    <2>3. \A c \in Box : FolderOK(server'[c], uidnext'[c])
      BY <1>3, <1>9, <1>10, <2>1 DEF ServerOK
    <2> QED
      BY <2>1, <2>2, <2>3 DEF ServerOK
  <1>12. \A c \in Box : (epoch'[c] = epoch[c] /\ Grown(c)) \/ epoch'[c] = epoch[c] + 1
    <2>1. epoch'[b] = epoch[b] + 1
      BY <1>1, <1>3
    <2>2. ASSUME NEW c \in Box, c # b PROVE epoch'[c] = epoch[c] /\ Grown(c)
      <3>1. uidnext[c] \in Nat
        BY <1>3 DEF ServerOK, FolderOK
      <3> QED
        BY <1>1, <1>3, <1>10, <2>2, <3>1 DEF Grown
    <2> QED
      BY <2>1, <2>2
  <1>13. NothingLost'
    <2> SUFFICES ASSUME NEW m \in Msg \ purged PROVE \E c \in Box : \E d \in server'[c] : d.msg = m
      BY <1>1 DEF NothingLost, Copies
    <2>1. PICK c \in Box : \E d \in server[c] : d.msg = m
      BY DEF IInv, NothingLost, Copies
    <2>2. CASE c = b
      BY <1>5, <1>6, <2>1, <2>2
    <2>3. CASE c # b
      BY <1>10, <2>1, <2>3
    <2> QED
      BY <2>2, <2>3
  <1>14. AgentOK'
    <2>1. AgentOK
      BY DEF IInv
    <2>2. rebuilds' \in Nat
      BY <1>1, <2>1 DEF AgentOK
    <2> QED
      BY <1>1, <2>1, <2>2 DEF AgentOK, Holding
  <1> QED
    BY <1>1, <1>11, <1>12, <1>13, <1>14, ServerKeeps

\* An attempt on the server, the row verified against its folder.
LEMMA ApplyInv == ASSUME IInv, Apply PROVE IInv'
  <1> DEFINE row == queue[agent.row]
             b == row.box
             c == row.to
             es == Entry(b, row.uid)
             f == [e \in es |-> [uid |-> uidnext[c], msg |-> e.msg, seen |-> e.seen]]
             new == {f[e] : e \in es}
  <1>1. /\ agent.pc = "selected"
        /\ UNCHANGED <<epoch, place, queue, mailbox, recheck, purged, rebuilds, elses>>
    BY DEF Apply, db, bounds
  <1>2. /\ AgentOK /\ agent \in AgentSet /\ agent.row \in DOMAIN queue
        /\ row \in RowSet /\ RowGood(row, purged) /\ row.epoch = epoch[b]
    BY <1>1 DEF IInv, AgentOK, Holding, QueueGood
  <1>3. b \in Box /\ Names(b, row.uid, row.msg) /\ row.uid \in Nat /\ row.msg \in Msg
    BY <1>2 DEF RowSet, RowGood, Stands
  <1>4. /\ server = [d \in Box |-> server[d]] /\ uidnext = [d \in Box |-> uidnext[d]]
        /\ \A d \in Box : FolderOK(server[d], uidnext[d])
    BY DEF IInv, ServerOK
  <1>5. /\ es \subseteq server[b] /\ \A e \in es : e.msg = row.msg /\ e.uid = row.uid
        /\ \A e \in server[b] : e \notin es => e.uid # row.uid
    BY <1>3 DEF Entry, Names
  <1>6. ASSUME Goto("applied"), ServerOK', NothingLost', \A d \in Box : Grown(d) PROVE IInv'
    <2>1. /\ agent' \in AgentSet /\ agent'.pc = "applied" /\ agent'.row = agent.row
          /\ agent'.todo = agent.todo /\ agent'.got = agent.got
      BY <1>2, <1>6 DEF AgentSet, Goto
    <2>2. AgentOK'
      BY <1>1, <1>2, <2>1 DEF AgentOK
    <2> QED
      BY <1>1, <1>6, <2>2, ServerKeeps
  <1>7. ASSUME c \in Box
        PROVE  /\ new \in SUBSET EntrySet /\ IsFiniteSet(new)
               /\ \A e \in new : e.uid = uidnext[c] /\ e.msg = row.msg
               /\ (new = {} <=> es = {})
    <2>1. IsFiniteSet(es)
      BY <1>3, <1>4, <1>5, FS_Subset DEF FolderOK
    <2>2. f = [e \in es |-> f[e]]
      OBVIOUS
    <2>3. \A e \in es : f[e] \in EntrySet /\ f[e].uid = uidnext[c] /\ f[e].msg = row.msg
      BY <1>3, <1>4, <1>5, <1>7 DEF FolderOK, EntrySet
    <2> HIDE DEF f, es
    <2>4. IsFiniteSet(new)
      BY <2>1, <2>2, ImageFinite
    <2> QED
      BY <2>3, <2>4
  <1>8. new = {[uid |-> uidnext[c], msg |-> e.msg, seen |-> e.seen] : e \in es}
    OBVIOUS
  <1> HIDE DEF f
  <1>9. CASE /\ row.type = "setflags" /\ Goto("applied") /\ uidnext' = uidnext
             /\ server' = [server EXCEPT ![b] =
                  {IF e.uid = row.uid THEN [e EXCEPT !.seen = row.seen] ELSE e : e \in server[b]}]
    <2> DEFINE g == [e \in server[b] |-> IF e.uid = row.uid THEN [e EXCEPT !.seen = row.seen] ELSE e]
    <2>1. FolderOK(server[b], uidnext[b]) /\ row.seen \in BOOLEAN
      BY <1>2, <1>3, <1>4 DEF RowSet
    <2>2. \A e \in server[b] : g[e] \in EntrySet /\ g[e].uid = e.uid /\ g[e].msg = e.msg
      BY <2>1 DEF FolderOK, EntrySet
    <2>3. server'[b] = {g[e] : e \in server[b]} /\ g = [e \in server[b] |-> g[e]]
      BY <1>3, <1>4, <1>9
    <2>4. \A d \in Box : d # b => server'[d] = server[d]
      BY <1>4, <1>9
    <2> HIDE DEF g
    <2>5. IsFiniteSet(server'[b])
      BY <2>1, <2>3, ImageFinite DEF FolderOK
    <2>6. FolderOK(server'[b], uidnext'[b])
      <3>1. \A e \in server'[b] : e \in EntrySet /\ e.uid < uidnext[b]
        BY <2>1, <2>2, <2>3 DEF FolderOK
      <3>2. \A e, d \in server'[b] : e.uid = d.uid => e.msg = d.msg
        <4>1. \A e, d \in server[b] : e.uid = d.uid => e.msg = d.msg
          BY <2>1 DEF FolderOK
        <4> QED
          BY <2>2, <2>3, <4>1
      <3>3. uidnext'[b] = uidnext[b] /\ uidnext[b] \in Nat \ {0}
        BY <1>9, <2>1 DEF FolderOK
      <3> QED
        BY <2>5, <3>1, <3>2, <3>3 DEF FolderOK
    <2>7. ServerOK'
      <3>1. server' = [d \in Box |-> server'[d]] /\ epoch \in [Box -> Nat]
        BY <1>4, <1>9 DEF IInv, ServerOK
      <3> QED
        BY <1>1, <1>4, <1>9, <2>4, <2>6, <3>1 DEF ServerOK
    <2>8. ASSUME NEW d \in Box PROVE Grown(d)
      <3>1. uidnext[d] \in Nat /\ uidnext'[d] = uidnext[d]
        BY <1>4, <1>9 DEF FolderOK
      <3>2. \A e \in server'[d] : \E x \in server[d] : x.uid = e.uid /\ x.msg = e.msg
        BY <2>2, <2>3, <2>4
      <3> QED
        BY <3>1, <3>2 DEF Grown
    <2>9. NothingLost'
      <3>1. \A d \in Box : \A x \in server[d] : \E e \in server'[d] : e.msg = x.msg
        BY <2>2, <2>3, <2>4
      <3> QED
        BY <1>1, <3>1 DEF IInv, NothingLost, Copies
    <2> QED
      BY <1>6, <1>9, <2>7, <2>8, <2>9
  <1>10. CASE /\ row.type = "delete" /\ Goto("applied") /\ uidnext' = uidnext
              /\ server' = Without(b, row.uid)
    <2>1. server' = [server EXCEPT ![b] = server[b] \ es]
      BY <1>10 DEF Without
    <2>2. ServerOK' /\ \A d \in Box : Grown(d)
      BY <1>1, <1>3, <1>10, <2>1, FolderThinned
    <2>3. row.msg \in purged
      BY <1>2, <1>10 DEF RowGood
    <2>4. \A d \in Box : \A x \in server[d] : x.msg # row.msg => x \in server'[d]
      BY <1>3, <1>4, <1>5, <2>1
    <2>5. NothingLost'
      BY <1>1, <2>3, <2>4 DEF IInv, NothingLost, Copies
    <2> QED
      BY <1>6, <1>10, <2>2, <2>5
  <1>11. CASE /\ row.type = "move" /\ Goto("applied")
              /\ server' = WithCopy(Without(b, row.uid), row)
              /\ uidnext' = Counted(row)
    <2>1. c \in Box /\ b # c
      BY <1>2, <1>11 DEF RowGood
    <2>2. server' = [d \in Box |-> IF d = c THEN server[c] \cup new
                                   ELSE IF d = b THEN server[b] \ es ELSE server[d]]
      <3> DEFINE thin == [server EXCEPT ![b] = server[b] \ es]
      <3>1. server' = [thin EXCEPT ![c] = thin[c] \cup new]
        BY <1>8, <1>11 DEF WithCopy, Without
      <3> HIDE DEF new
      <3> QED
        BY <1>3, <1>4, <2>1, <3>1
    <2>3. uidnext' = [uidnext EXCEPT ![c] = uidnext[c] + 1] \/ (uidnext' = uidnext /\ new = {})
      BY <1>7, <1>11, <2>1 DEF Counted
    <2> HIDE DEF new, es
    <2>4. ServerOK' /\ \A d \in Box : Grown(d)
      <3>1. /\ new \in SUBSET EntrySet /\ IsFiniteSet(new)
            /\ \A e, d \in new : e.uid = uidnext[c] /\ e.msg = d.msg
            /\ epoch' = epoch /\ b \in Box
        BY <1>1, <1>3, <1>7, <2>1
      <3> HIDE DEF row, b, c
      <3> QED
        BY <2>1, <2>2, <2>3, <3>1, FoldersExchanged
    <2>5. \A d \in Box : \A x \in server[d] : x \in server'[d] \/ (d = b /\ x \in es)
      BY <2>2
    <2>6. ASSUME es # {} PROVE \E x \in server'[c] : x.msg = row.msg
      BY <1>7, <2>1, <2>2, <2>6
    <2>7. NothingLost'
      BY <1>1, <1>5, <2>1, <2>5, <2>6 DEF IInv, NothingLost, Copies
    <2> QED
      BY <1>6, <1>11, <2>4, <2>7
  <1>12. CASE /\ row.type = "move" /\ Goto("copied")
              /\ server' = IF Landed(row) THEN server ELSE WithCopy(server, row)
              /\ uidnext' = IF Landed(row) THEN uidnext ELSE Counted(row)
    <2>1. c \in Box /\ b # c
      BY <1>2, <1>12 DEF RowGood
    <2>2. ServerOK' /\ (\A d \in Box : Grown(d)) /\ \A d \in Box : server[d] \subseteq server'[d]
      <3>1. CASE Landed(row)
        <4>1. \A d \in Box : Grown(d)
          BY <1>4, <1>12, <3>1 DEF Grown, FolderOK
        <4> QED
          BY <1>1, <1>12, <3>1, <4>1 DEF IInv, ServerOK
      <3>2. CASE ~Landed(row)
        <4> DEFINE none == {}
        <4>1. server' = [server EXCEPT ![c] = server[c] \cup new]
          BY <1>8, <1>12, <3>2 DEF WithCopy
        <4>2. uidnext' = [uidnext EXCEPT ![c] = uidnext[c] + 1] \/ (uidnext' = uidnext /\ new = {})
          BY <1>7, <1>12, <2>1, <3>2 DEF Counted
        <4> HIDE DEF new
        <4>3. server' = [d \in Box |-> IF d = c THEN server[c] \cup new
                                       ELSE IF d = b THEN server[b] \ none ELSE server[d]]
          BY <1>4, <2>1, <4>1
        <4> HIDE DEF none
        <4>4. ServerOK' /\ \A d \in Box : Grown(d)
          <5>1. /\ new \in SUBSET EntrySet /\ IsFiniteSet(new)
                /\ \A e, d \in new : e.uid = uidnext[c] /\ e.msg = d.msg
                /\ epoch' = epoch /\ b \in Box
            BY <1>1, <1>3, <1>7, <2>1
          <5> HIDE DEF row, b, c
          <5> QED
            BY <2>1, <4>2, <4>3, <5>1, FoldersExchanged
        <4> QED
          BY <1>4, <2>1, <4>1, <4>4
      <3> QED
        BY <3>1, <3>2
    <2>3. NothingLost'
      BY <1>1, <2>2 DEF IInv, NothingLost, Copies
    <2>4. row.msg \notin purged =>
            \E d \in Box : \E e \in server'[d] : e.msg = row.msg /\ (d # b \/ e.uid # row.uid)
      <3>1. CASE Landed(row)
        BY <2>1, <2>2, <3>1 DEF Landed, Copies
      <3>2. CASE ~Landed(row) /\ es # {}
        <4>1. server' = [server EXCEPT ![c] = server[c] \cup new]
          BY <1>8, <1>12, <3>2 DEF WithCopy
        <4>2. \E e \in new : e.msg = row.msg
          BY <1>7, <2>1, <3>2
        <4> HIDE DEF new
        <4>3. new \subseteq server'[c]
          BY <1>4, <2>1, <4>1
        <4> QED
          BY <2>1, <4>2, <4>3
      <3>3. CASE es = {}
        BY <1>3, <1>5, <2>2, <3>3 DEF IInv, NothingLost, Copies
      <3> QED
        BY <3>1, <3>2, <3>3
    <2>5. /\ agent' \in AgentSet /\ agent'.pc = "copied" /\ agent'.row = agent.row
          /\ agent'.todo = agent.todo /\ agent'.got = agent.got
      BY <1>2, <1>12 DEF AgentSet, Goto
    <2>6. AgentOK'
      <3>1. (agent.pc = "copied" =>
              LET r == queue[agent.row] IN
              \/ r.msg \in purged
              \/ \E d \in Box : \E e \in Copies(d, r.msg) : d # r.box \/ e.uid # r.uid)'
        BY <1>1, <2>4, <2>5 DEF Copies
      <3> QED
        BY <1>1, <1>2, <2>5, <3>1 DEF AgentOK, Holding
    <2> QED
      BY <1>1, <2>2, <2>3, <2>6, ServerKeeps
  <1> QED
    BY <1>9, <1>10, <1>11, <1>12 DEF Apply

-----------------------------------------------------------------------------
(* The theorems.                                                           *)

LEMMA NextInv == ASSUME ~EarlyPress PROVE IInv /\ [Next]_vars => IInv'
  <1> SUFFICES ASSUME IInv, [Next]_vars PROVE IInv'
    OBVIOUS
  <1>1. CASE User
    BY <1>1, UserInv
  <1>2. CASE \E full \in BOOLEAN : Begin(full)
    BY <1>2, BeginInv
  <1>3. CASE Drain
    BY <1>3, ReloadInv, LeaseInv, SelectInv, ApplyInv, RefusalInv, RemoveInv, AppliedInv, DrainedInv DEF Drain
  <1>4. CASE Walk
    BY <1>4, RegisterInv, FetchInv, StoreInv, SweepInv, EndInv DEF Walk
  <1>5. CASE World
    BY <1>5, RebuildInv, ExpungeInv, ElsewhereInv, GraceInv, FailInv, CrashInv DEF World
  <1>6. CASE UNCHANGED vars
    <2>1. UNCHANGED <<server, uidnext, epoch, place, mailbox, queue, recheck, agent,
                      purged, rebuilds, elses>>
      BY <1>6 DEF vars, imap, db, history, bounds
    <2>2. AgentOK'
      BY <2>1 DEF IInv, AgentOK, Names, Copies
    <2> QED
      BY <2>1, <2>2, HereKeeps DEF IInv
  <1> QED
    BY <1>1, <1>2, <1>3, <1>4, <1>5, <1>6 DEF Next

\* UIDs here, in the queue and in the agent's hands stand for the messages they
\* were read for, through every press, undo, sweep, crash and renumbering.
THEOREM UidsStand == ASSUME ~EarlyPress PROVE Spec => []IInv
  <1>1. IInv /\ [Next]_vars => IInv'
    BY NextInv
  <1> QED
    BY InitInv, <1>1, PTL DEF Spec

\* No step of the agent, and none of a user who did not empty Trash, destroys
\* the last copy of a message (_copy_then_remove), however the commands fail
\* and whatever the server offers.
THEOREM MailKept == ASSUME ~EarlyPress PROVE Spec => []NothingLost
  <1>1. IInv => NothingLost
    BY DEF IInv
  <1> QED
    BY <1>1, UidsStand, PTL

\* What a step of the agent takes out of a folder is the message its row was
\* written for (_select_verified, uid_ref).
LEMMA StepRightMessage ==
  ASSUME IInv, [Next]_vars, NEW b \in Box, NEW e \in server[b],
         agent.pc \in {"selected", "copied"}, e \notin server'[b], elses' = elses,
         ~ \E f \in server'[b] : f.uid = e.uid
  PROVE  e.msg = queue[agent.row].msg
  <1> DEFINE row == queue[agent.row]
  <1>1. server' # server /\ elses \in Nat
    BY DEF IInv, AgentOK
  <1>2. /\ row.box \in Box /\ row.type = "move" => row.to \in Box /\ row.to # row.box
        /\ Names(row.box, row.uid, row.msg)
    BY DEF IInv, AgentOK, Holding, QueueGood, RowGood, Stands, RowSet
  <1>3. server = [c \in Box |-> server[c]]
    BY DEF IInv, ServerOK
  <1>4. Apply \/ RemoveSource
    <2>1. ~UNCHANGED server
      BY <1>1
    <2>2. CASE User
      BY <2>1, <2>2 DEF User, Move, Purge, set_seen, CancelMove, ReverseMove, request_recheck, imap
    <2>3. CASE \E full \in BOOLEAN : Begin(full)
      BY <2>1, <2>3 DEF Begin, imap
    <2>4. CASE Drain
      BY <2>1, <2>4 DEF Drain, Reload, Lease, Select, Refusal, Applied, Drained, imap
    <2>5. CASE Walk
      BY <2>1, <2>5 DEF Walk, register_folder, FetchNew, StoreNew, ListFolder, Sweep, EndPass, imap
    <2>6. CASE World
      <3>1. ~Fail /\ ~Crash /\ \A i \in DOMAIN queue : ~GraceEnds(i)
        BY <2>1 DEF Fail, Crash, GraceEnds, imap
      <3>2. \A c \in Box : ~Rebuild(c)
        BY DEF Rebuild
      <3>3. \A c \in Box : \A d : ~ExpungeElsewhere(c, d) /\ \A x \in Box : ~MoveElsewhere(c, x, d)
        BY <1>1 DEF ExpungeElsewhere, MoveElsewhere, Disturbed
      <3> QED
        BY <2>6, <3>1, <3>2, <3>3 DEF World
    <2>7. CASE UNCHANGED vars
      BY <2>1, <2>7 DEF vars, imap
    <2> QED
      BY <2>2, <2>3, <2>4, <2>5, <2>6, <2>7 DEF Next
  <1>5. b = row.box /\ e.uid = row.uid
    <2>1. CASE RemoveSource
      BY <1>2, <1>3, <2>1 DEF RemoveSource, Without, Entry
    <2>2. CASE Apply
      <3>1. CASE row.type = "setflags"
        <4>1. server' = [server EXCEPT ![row.box] =
                {IF x.uid = row.uid THEN [x EXCEPT !.seen = row.seen] ELSE x : x \in server[row.box]}]
          BY <2>2, <3>1 DEF Apply
        <4>2. b = row.box
          BY <1>3, <4>1
        <4>3. e \in EntrySet
          BY DEF IInv, ServerOK, FolderOK
        <4>4. [e EXCEPT !.seen = row.seen].uid = e.uid
          BY <4>3 DEF EntrySet
        <4>5. \E x \in server'[b] : x.uid = e.uid
          BY <1>2, <1>3, <4>1, <4>2, <4>4
        <4> QED
          BY <4>5
      <3>2. CASE row.type = "delete"
        BY <1>2, <1>3, <2>2, <3>2 DEF Apply, Without, Entry
      <3>3. CASE row.type = "move" /\ server' = WithCopy(Without(row.box, row.uid), row)
        BY <1>2, <1>3, <3>3 DEF Without, WithCopy, Entry
      <3>4. CASE row.type = "move" /\ server' = IF Landed(row) THEN server ELSE WithCopy(server, row)
        BY <1>2, <1>3, <3>4 DEF WithCopy
      <3> QED
        BY <2>2, <3>1, <3>2, <3>3, <3>4 DEF Apply
    <2> QED
      BY <1>4, <2>1, <2>2
  <1> QED
    BY <1>2, <1>5 DEF Names

\* What the agent takes out of a folder is the message the press was on, though UIDs
\* are given out anew and the press names nothing else (_select_verified).
THEOREM RightMessageTaken == ASSUME ~EarlyPress PROVE Spec => RightMessage
  <1> DEFINE Right ==
        \A b \in Box : \A e \in server[b] :
          agent.pc \in {"selected", "copied"} /\ e \notin server'[b] /\ elses' = elses
          /\ ~(\E f \in server'[b] : f.uid = e.uid)
            => e.msg = queue[agent.row].msg
  <1>1. IInv /\ [Next]_vars => [Right]_vars
    BY StepRightMessage
  <1> HIDE DEF Right
  <1>2. Spec => [][Right]_vars
    BY <1>1, UidsStand, PTL DEF Spec
  <1> QED
    BY <1>2 DEF RightMessage, Right

-----------------------------------------------------------------------------
(* A mark that sticks.                                                     *)

\* A mark written to the server before anything that files its message ...
Waiting(i) ==
    /\ queue[i].status = "pending" /\ queue[i].attempts = 0
    /\ \A j \in DOMAIN queue :
         j < i /\ queue[j].msg = queue[i].msg /\ Files(queue[j]) => queue[j].status \notin Live
    /\ \A j \in agent.todo : j > i => i \in agent.todo
    /\ agent.pc \in Holding => agent.row <= i

\* ... or at once.
InHand(i) ==
    queue[i].status = "leased" /\ agent.pc \in {"leased", "selected"} /\ agent.row = i

\* The row marks this very copy.
Means(i, b, e) ==
    /\ queue[i].type = "setflags" /\ queue[i].msg = e.msg
    /\ queue[i].box = b /\ queue[i].uid = e.uid /\ queue[i].epoch = epoch[b]

\* What was read here, and is not there yet, is being told.
Said ==
    \A m \in Msg \ doubt : word[m] = "read" =>
        \A b \in Box : \A e \in Copies(b, m) :
            e.seen \/ \E i \in DOMAIN queue : Means(i, b, e) /\ (Waiting(i) \/ InHand(i))

\* Nothing says that it is not.
OnlyRead ==
    \A i \in DOMAIN queue :
        queue[i].type = "setflags" /\ word[queue[i].msg] # "mixed" => queue[i].seen

ReadInv ==
    /\ word \in [Msg -> {"none", "read", "mixed"}]
    /\ agent.pc \in Holding => queue[agent.row].status = "leased"
    /\ OnlyRead /\ Said

\* What a step leaves of the rows, but for the messages in G: marks wait as they
\* did, and what no longer files its message never will.
OneWay(rows, G) ==
    /\ Keeps(rows)
    /\ \A i \in DOMAIN queue :
         /\ rows[i].type = "setflags" <=> queue[i].type = "setflags"
         /\ queue[i].type = "setflags" => rows[i].seen = queue[i].seen
         /\ queue[i].msg \notin G =>
              /\ queue[i].type = "setflags" /\ queue[i].status = "pending" =>
                   rows[i].status = "pending" /\ rows[i].attempts = queue[i].attempts
              /\ queue[i].type # "setflags" /\ rows[i].status \in Live => queue[i].status \in Live

\* What is leased stays so.
Leases(rows) == \A i \in DOMAIN queue : queue[i].status = "leased" => rows[i].status = "leased"

\* Rows that are new mark as read.
NewRead(rows) ==
    \A i \in DOMAIN rows : i \notin DOMAIN queue /\ rows[i].type = "setflags" => rows[i].seen

LEMMA OldRowsKept ==
  ASSUME IInv, NEW rows, DOMAIN queue \subseteq DOMAIN rows,
         \A i \in DOMAIN queue : rows[i] = queue[i]
  PROVE  OneWay(rows, {}) /\ Leases(rows)
BY DEF OneWay, Leases, Keeps

\* Rows added at the end.
Added(rows, n, new) ==
    /\ DOMAIN queue = 1..Len(queue) /\ Len(queue) \in Nat /\ DOMAIN rows = 1..(Len(queue) + n)
    /\ \A i \in DOMAIN queue : rows[i] = queue[i]
    /\ \A i \in 1..n : rows[Len(queue) + i] = new[i]
    /\ \A i \in DOMAIN rows : i \notin DOMAIN queue =>
         i - Len(queue) \in 1..n /\ rows[i] = new[i - Len(queue)]

LEMMA RowsAdded ==
  ASSUME IInv, NEW n \in Nat, NEW new \in [1..n -> RowSet], NEW rows, rows = queue \o new
  PROVE  Added(rows, n, new) /\ OneWay(rows, {}) /\ Leases(rows)
  <1>1. queue \in Seq(RowSet) /\ new \in Seq(RowSet) /\ Len(new) = n
    BY DEF IInv, QueueGood
  <1>2. DOMAIN queue = 1..Len(queue) /\ Len(queue) \in Nat
    BY <1>1
  <1>3. DOMAIN rows = 1..(Len(queue) + n)
    <2>1. queue \o new \in Seq(RowSet) /\ Len(queue \o new) = Len(queue) + Len(new)
      BY <1>1, ConcatProperties
    <2> QED
      BY <1>1, <2>1
  <1>4. /\ \A i \in DOMAIN queue : rows[i] = queue[i]
        /\ \A i \in 1..n : rows[Len(queue) + i] = new[i]
    BY <1>1
  <1>5. ASSUME NEW i \in DOMAIN rows, i \notin DOMAIN queue
        PROVE  i - Len(queue) \in 1..n /\ rows[i] = new[i - Len(queue)]
    <2>1. PICK k \in 1..n : i = Len(queue) + k
      <3>1. i \in Int /\ i > Len(queue) /\ i <= Len(queue) + n
        BY <1>2, <1>3, <1>5
      <3>2. i - Len(queue) \in 1..n /\ i = Len(queue) + (i - Len(queue))
        BY <1>2, <3>1
      <3> QED
        BY <3>2
    <2>2. i - Len(queue) = k
      BY <1>2, <2>1
    <2> QED
      BY <1>4, <2>1, <2>2
  <1>6. DOMAIN queue \subseteq DOMAIN rows
    BY <1>2, <1>3
  <1> QED
    BY <1>2, <1>3, <1>4, <1>5, <1>6, OldRowsKept DEF Added

LEMMA RowWritten ==
  ASSUME IInv, NEW i \in DOMAIN queue, NEW r \in RowSet, NEW rows,
         rows = [queue EXCEPT ![i] = r],
         r.msg = queue[i].msg, r.box = queue[i].box, r.uid = queue[i].uid,
         r.epoch = queue[i].epoch,
         \/ /\ queue[i].type # "setflags" /\ r.type # "setflags"
            /\ r.status \in Live => queue[i].status \in Live
         \/ /\ queue[i].type = "setflags" /\ r.type = "setflags" /\ r.seen = queue[i].seen
            /\ queue[i].status = "pending" => r.status = "pending" /\ r.attempts = queue[i].attempts
  PROVE  /\ OneWay(rows, {}) /\ DOMAIN rows = DOMAIN queue
         /\ queue[i].status = "leased" => (r.status = "leased" <=> Leases(rows))
         /\ queue[i].status # "leased" => Leases(rows)
  <1>1. queue \in Seq(RowSet)
    BY DEF IInv, QueueGood
  <1>2. DOMAIN rows = DOMAIN queue /\ rows[i] = r /\ \A j \in DOMAIN queue : j # i => rows[j] = queue[j]
    BY <1>1
  <1>3. Keeps(rows)
    BY <1>2 DEF Keeps
  <1>4. OneWay(rows, {})
    BY <1>2, <1>3 DEF OneWay
  <1> QED
    BY <1>2, <1>4 DEF Leases

LEMMA RowsRead ==
  ASSUME IInv, IInv', ReadInv, NEW G, OneWay(queue', G),
         \A i \in DOMAIN queue' : i \notin DOMAIN queue /\ queue'[i].type = "setflags" =>
           queue'[i].seen \/ word'[queue'[i].msg] = "mixed",
         \A m \in Msg : word[m] = "mixed" => word'[m] = "mixed"
  PROVE  OnlyRead'
  <1> SUFFICES ASSUME NEW i \in DOMAIN queue', queue'[i].type = "setflags",
                      word'[queue'[i].msg] # "mixed"
               PROVE  queue'[i].seen
    BY DEF OnlyRead
  <1>1. queue'[i] \in RowSet
    BY DEF IInv, QueueGood
  <1>2. queue'[i].msg \in Msg
    BY <1>1 DEF RowSet
  <1>3. CASE i \in DOMAIN queue
    <2>1. queue'[i].msg = queue[i].msg /\ queue[i].type = "setflags" /\ queue'[i].seen = queue[i].seen
      BY <1>3 DEF OneWay, Keeps
    <2>2. word[queue[i].msg] # "mixed"
      BY <1>2, <2>1
    <2> QED
      BY <1>3, <2>1, <2>2 DEF ReadInv, OnlyRead
  <1>4. CASE i \notin DOMAIN queue
    BY <1>4
  <1> QED
    BY <1>3, <1>4

LEMMA WaitingKept ==
  ASSUME IInv, IInv', NEW G, OneWay(queue', G),
         NEW i \in DOMAIN queue, queue[i].type = "setflags", queue[i].msg \notin G, Waiting(i),
         \A j \in agent'.todo : j > i => i \in agent'.todo,
         agent'.pc \in Holding => agent'.row <= i
  PROVE  i \in DOMAIN queue' /\ Waiting(i)'
  <1>1. /\ queue \in Seq(RowSet) /\ queue' \in Seq(RowSet)
        /\ DOMAIN queue \subseteq DOMAIN queue'
    BY DEF IInv, QueueGood, OneWay, Keeps
  <1>2. queue'[i].status = "pending" /\ queue'[i].attempts = 0 /\ queue'[i].msg = queue[i].msg
    BY DEF Waiting, OneWay, Keeps
  <1>3. ASSUME NEW j \in DOMAIN queue', j < i, queue'[j].msg = queue'[i].msg, Files(queue'[j])
        PROVE  queue'[j].status \notin Live
    <2>1. j \in DOMAIN queue
      BY <1>1, <1>3
    <2>2. queue'[j].msg = queue[j].msg
      BY <2>1 DEF OneWay, Keeps
    <2>3. queue[j].type # "setflags" /\ queue[j].type \in Types
      <3>1. queue'[j].type # "setflags"
        BY <1>3 DEF Files
      <3>2. queue[j].type # "setflags"
        BY <2>1, <3>1 DEF OneWay
      <3>3. queue[j] \in RowSet
        BY <1>1, <2>1
      <3> QED
        BY <3>2, <3>3 DEF RowSet
    <2>4. Files(queue[j])
      BY <2>3 DEF Files, Types
    <2>5. queue[j].status \notin Live
      BY <1>2, <1>3, <2>1, <2>2, <2>4 DEF Waiting
    <2> QED
      BY <1>2, <1>3, <2>1, <2>2, <2>3, <2>5 DEF OneWay
  <1> QED
    BY <1>1, <1>2, <1>3 DEF Waiting

LEMMA MeansKept ==
  ASSUME NEW G, OneWay(queue', G), NEW i \in DOMAIN queue, NEW b \in Box, NEW e, NEW f,
         Means(i, b, e), e.msg = f.msg, e.uid = f.uid, epoch'[b] = epoch[b]
  PROVE  Means(i, b, f)'
  <1>1. queue'[i].type = "setflags" /\ queue'[i].msg = f.msg /\ queue'[i].box = b /\ queue'[i].uid = f.uid
        /\ queue'[i].epoch = epoch'[b]
    BY DEF Means, OneWay, Keeps
  <1> QED
    BY <1>1 DEF Means

\* A step after which the agent holds no row.
LEMMA LooseReads ==
  ASSUME IInv, IInv', ReadInv, NEW G, OneWay(queue', G), NewRead(queue'),
         UNCHANGED <<server, epoch>>, doubt \subseteq doubt', agent'.pc \notin Holding,
         \A i \in DOMAIN queue : Waiting(i) => \A j \in agent'.todo : j > i => i \in agent'.todo,
         word' \in [Msg -> {"none", "read", "mixed"}],
         \A m \in Msg : word'[m] \in {word[m], "mixed"},
         \A i \in DOMAIN queue : queue[i].type = "setflags" /\ InHand(i) =>
           word'[queue[i].msg] = "mixed" \/ queue[i].epoch # epoch[queue[i].box],
         \A m \in G : m \in doubt' \/ AtRest(m)
  PROVE  ReadInv'
  <1>1. OnlyRead'
    BY RowsRead DEF NewRead
  <1>2. ASSUME NEW m \in Msg \ doubt', word'[m] = "read", NEW b \in Box, NEW e \in Copies(b, m)', ~e.seen
        PROVE  \E i \in DOMAIN queue' : (Means(i, b, e) /\ (Waiting(i) \/ InHand(i)))'
    <2>1. m \in Msg \ doubt /\ word[m] = "read" /\ e \in Copies(b, m) /\ e.msg = m
      BY <1>2 DEF Copies
    <2>2. PICK i \in DOMAIN queue : Means(i, b, e) /\ (Waiting(i) \/ InHand(i))
      BY <1>2, <2>1 DEF ReadInv, Said
    <2>3. queue[i].type = "setflags" /\ queue[i].msg = m /\ queue[i].box = b /\ queue[i].epoch = epoch[b]
      BY <2>1, <2>2 DEF Means
    <2>4. ~InHand(i)
      BY <1>2, <2>3
    <2>5. i \in RowsOf(m) /\ queue[i].status \in Live
      BY <2>2, <2>3, <2>4 DEF Waiting, RowsOf, Live
    <2>6. m \notin G
      BY <1>2, <2>5 DEF AtRest
    <2>7. i \in DOMAIN queue' /\ Waiting(i)'
      BY <2>2, <2>3, <2>4, <2>6, WaitingKept
    <2>8. Means(i, b, e)'
      BY <2>2, MeansKept
    <2> QED
      BY <2>7, <2>8
  <1>3. Said'
    BY <1>2 DEF Said
  <1> QED
    BY <1>1, <1>3 DEF ReadInv

\* A transaction of a user's.
LEMMA DeskReads ==
  ASSUME IInv, IInv', ReadInv, OneWay(queue', {}), NewRead(queue'), Leases(queue'),
         UNCHANGED <<server, epoch, agent, word>>, doubt \subseteq doubt'
  PROVE  ReadInv'
  <1>1. OnlyRead'
    BY RowsRead DEF NewRead
  <1>2. agent.pc \in Holding => queue'[agent.row].status = "leased"
    BY DEF IInv, AgentOK, ReadInv, Leases
  <1>3. ASSUME NEW m \in Msg \ doubt', word'[m] = "read", NEW b \in Box, NEW e \in Copies(b, m)', ~e.seen
        PROVE  \E i \in DOMAIN queue' : (Means(i, b, e) /\ (Waiting(i) \/ InHand(i)))'
    <2>1. m \in Msg \ doubt /\ word[m] = "read" /\ e \in Copies(b, m)
      BY <1>3 DEF Copies
    <2>2. PICK i \in DOMAIN queue : Means(i, b, e) /\ (Waiting(i) \/ InHand(i))
      BY <1>3, <2>1 DEF ReadInv, Said
    <2>3. Means(i, b, e)' /\ i \in DOMAIN queue'
      BY <2>2, MeansKept DEF OneWay, Keeps
    <2>4. CASE Waiting(i)
      BY <2>2, <2>3, <2>4, WaitingKept DEF Means, Waiting
    <2>5. CASE InHand(i)
      BY <2>3, <2>5 DEF InHand, Leases
    <2> QED
      BY <2>2, <2>3, <2>4, <2>5
  <1>4. Said'
    BY <1>3 DEF Said
  <1> QED
    BY <1>1, <1>2, <1>4 DEF ReadInv

-----------------------------------------------------------------------------
(* A user's transactions.                                                  *)

Spares(rows) == OneWay(rows, {}) /\ NewRead(rows) /\ Leases(rows)

LEMMA QueueSpared == ASSUME IInv PROVE Spares(queue)
BY OldRowsKept DEF Spares, NewRead

LEMMA AppendSpares ==
  ASSUME IInv, NEW r \in RowSet, r.type # "setflags" PROVE Spares(Append(queue, r))
  <1>1. queue \in Seq(RowSet)
    BY DEF IInv, QueueGood
  <1>2. /\ DOMAIN queue \subseteq DOMAIN Append(queue, r)
        /\ \A i \in DOMAIN queue : Append(queue, r)[i] = queue[i]
        /\ \A i \in DOMAIN Append(queue, r) : i \notin DOMAIN queue => Append(queue, r)[i] = r
    BY <1>1
  <1> DEFINE rows == Append(queue, r)
  <1> HIDE DEF rows
  <1>3. OneWay(rows, {}) /\ Leases(rows)
    BY <1>2, OldRowsKept DEF rows
  <1>4. NewRead(rows)
    BY <1>2 DEF NewRead, rows
  <1> QED
    BY <1>3, <1>4 DEF Spares, rows

\* A queued move is taken back, or aimed elsewhere.
LEMMA MoveSpares ==
  ASSUME IInv, ~EarlyPress, NEW m \in Msg, NEW loc \in Locations(m), Pressable(loc),
         NEW b \in Box, move_to(m, loc, b).ok
  PROVE  Spares(move_to(m, loc, b).queue)
  <1> DEFINE new == Row("move", loc, mailbox[loc.box].epoch, b, loc.seen)
             i == Max(Queued(m))
  <1>1. loc \in place /\ loc \in PlaceSet /\ loc.seen \in BOOLEAN
    BY DEF Locations, IInv, PlaceGood, PlaceSet
  <1>2. QueueGood(queue, purged) /\ queue \in Seq(RowSet)
    BY DEF IInv, QueueGood
  <1>3. CASE ~is_pending(loc)
    <2>1. loc.uid # 0 /\ mailbox[loc.box].epoch \in Nat
      BY <1>1, <1>3, PressedStands
    <2>2. new \in RowSet /\ new.type = "move"
      BY <1>1, <2>1, RowType DEF Types
    <2>3. move_to(m, loc, b).queue = Append(queue, new)
      BY <1>3 DEF move_to, Kept
    <2> HIDE DEF new
    <2> QED
      BY <2>2, <2>3, AppendSpares
  <1>4. CASE is_pending(loc) /\ Queued(m) # {}
    <2>1. i \in Queued(m)
      BY <1>2, <1>4, QueueFinite, MaxIn DEF Queued, RowsOf
    <2>2. i \in DOMAIN queue /\ queue[i].type # "setflags" /\ queue[i].status = "pending"
      BY <2>1 DEF Queued, RowsOf, Files
    <2>3. move_to(m, loc, b).queue = Retarget(m, loc, i, b).queue
      BY <1>4 DEF move_to
    <2> HIDE DEF i
    <2>4. queue[i] \in RowSet
      BY <1>2, <2>2
    <2> DEFINE r == [queue[i] EXCEPT !.to = b, !.type = "move"]
               g == [queue[i] EXCEPT !.status = "gone"]
    <2>5. /\ r \in RowSet /\ r.msg = queue[i].msg /\ r.box = queue[i].box
          /\ r.uid = queue[i].uid /\ r.epoch = queue[i].epoch /\ r.type = "move"
          /\ r.status = queue[i].status
      BY <2>4 DEF RowSet, Types
    <2>6. /\ g \in RowSet /\ g.msg = queue[i].msg /\ g.box = queue[i].box
          /\ g.uid = queue[i].uid /\ g.epoch = queue[i].epoch /\ g.type = queue[i].type
          /\ g.status = "gone"
      BY <2>4 DEF RowSet, Status
    <2>7. [queue EXCEPT ![i].to = b, ![i].type = "move"] = [queue EXCEPT ![i] = r]
      BY <1>2
    <2>8. [queue EXCEPT ![i].status = "gone"] = [queue EXCEPT ![i] = g]
      BY <1>2
    <2>9. move_to(m, loc, b).queue \in {queue, [queue EXCEPT ![i] = r], [queue EXCEPT ![i] = g]}
      BY <2>3, <2>7, <2>8 DEF Retarget, Home, Kept, Nothing
    <2> HIDE DEF r, g
    <2>10. ASSUME NEW s \in {r, g} PROVE Spares([queue EXCEPT ![i] = s])
      <3> DEFINE rows == [queue EXCEPT ![i] = s]
      <3>1. s \in RowSet /\ s.msg = queue[i].msg /\ s.box = queue[i].box /\ s.uid = queue[i].uid
            /\ s.epoch = queue[i].epoch /\ s.type # "setflags" /\ queue[i].status \in Live
        BY <2>2, <2>5, <2>6, <2>10 DEF Live
      <3>2. rows = [queue EXCEPT ![i] = s]
        OBVIOUS
      <3> HIDE DEF rows
      <3>3. OneWay(rows, {}) /\ DOMAIN rows = DOMAIN queue /\ Leases(rows)
        BY <2>2, <3>1, <3>2, RowWritten
      <3> QED
        BY <3>2, <3>3 DEF Spares, NewRead
    <2> QED
      BY <2>9, <2>10, QueueSpared
  <1>5. CASE is_pending(loc) /\ Queued(m) = {}
    <2>1. move_to(m, loc, b).queue = queue
      BY <1>5 DEF move_to, Nothing, Kept
    <2> QED
      BY <2>1, QueueSpared
  <1> QED
    BY <1>3, <1>4, <1>5

LEMMA MoveReads ==
  ASSUME IInv, IInv', ReadInv, ~EarlyPress, NEW m \in Msg, NEW loc \in Locations(m), NEW b \in Box,
         Move(m, loc, b)
  PROVE  ReadInv'
  <1>1. Pressable(loc) /\ move_to(m, loc, b).ok /\ queue' = move_to(m, loc, b).queue
    BY DEF Move, Commit
  <1>2. UNCHANGED <<server, epoch, agent, word>> /\ doubt \subseteq doubt'
    BY DEF Move, imap
  <1>3. Spares(queue')
    BY <1>1, MoveSpares
  <1> QED
    BY <1>2, <1>3, DeskReads DEF Spares

LEMMA PurgeReads ==
  ASSUME IInv, IInv', ReadInv, ~EarlyPress, NEW m \in Msg, NEW loc \in Locations(m), Purge(m, loc)
  PROVE  ReadInv'
  <1> DEFINE new == Row("delete", loc, mailbox[Trash].epoch, "none", loc.seen)
  <1>1. loc \in place /\ loc.box = Trash /\ ~is_pending(loc) /\ Pressable(loc)
    BY DEF Purge, In, Locations
  <1>2. loc \in PlaceSet /\ loc.uid # 0 /\ mailbox[Trash].epoch \in Nat
    BY <1>1, PressedStands
  <1>3. loc.seen \in BOOLEAN
    BY <1>2 DEF PlaceSet
  <1>4. new \in RowSet /\ new.type = "delete"
    BY <1>2, <1>3, RowType DEF Types
  <1>5. queue' = Append(queue, new)
    BY DEF Purge
  <1>6. UNCHANGED <<server, epoch, agent, word>> /\ doubt \subseteq doubt'
    BY DEF Purge, imap
  <1> HIDE DEF new
  <1>7. Spares(queue')
    BY <1>4, <1>5, AppendSpares
  <1> QED
    BY <1>6, <1>7, DeskReads DEF Spares

\* A mark made here waits behind nothing that files its message.
LEMMA SeenReads ==
  ASSUME IInv, IInv', ReadInv, ~EarlyPress, NEW m \in Msg, NEW b \in BOOLEAN, set_seen(m, b)
  PROVE  ReadInv'
  <1> DEFINE stale == {p \in Locations(m) : p.seen # b}
             T == {p \in stale : ~is_pending(p)}
             told == SetToSeq(T)
             n == Cardinality(T)
             new == [i \in DOMAIN told |->
                       Row("setflags", told[i], mailbox[told[i].box].epoch, "none", b)]
  <1>1. /\ \A p \in stale : Pressable(p)
        /\ queue' = queue \o new
        /\ word' = [word EXCEPT ![m] = IF b /\ (@ = "read" \/ (@ = "none" /\ Reaches(m, stale)))
                                       THEN "read" ELSE "mixed"]
    BY DEF set_seen
  <1>2. UNCHANGED <<server, epoch, agent, doubt>>
    BY DEF set_seen, imap
  <1>3. word \in [Msg -> {"none", "read", "mixed"}]
    BY DEF ReadInv
  <1>4. /\ word' \in [Msg -> {"none", "read", "mixed"}]
        /\ \A k \in Msg \ {m} : word'[k] = word[k]
        /\ word'[m] = "mixed" \/ /\ word'[m] = "read" /\ b
                                 /\ word[m] = "read" \/ (word[m] = "none" /\ Reaches(m, stale))
    <2> HIDE DEF stale
    <2> QED
      BY <1>1, <1>3
  <1>5. T \subseteq place /\ T \subseteq stale /\ IsFiniteSet(T)
    <2>1. T \subseteq place
      BY DEF Locations
    <2> QED
      BY <2>1, FS_Subset DEF IInv, PlaceGood
  <1>6. /\ n \in Nat /\ told \in [1..n -> T]
        /\ \A p \in T : \E i \in 1..n : told[i] = p
    BY <1>5, SetToSeqType, FS_CardinalityType
  <1>7. ASSUME NEW p \in T
        PROVE  LET r == Row("setflags", p, mailbox[p.box].epoch, "none", b) IN
               /\ r \in RowSet /\ r.type = "setflags" /\ r.msg = m /\ r.box = p.box /\ r.uid = p.uid
               /\ r.epoch = p.era /\ r.status = "pending" /\ r.attempts = 0 /\ (r.seen <=> b)
    <2>1. p \in place /\ ~is_pending(p) /\ Pressable(p) /\ p.msg = m
      BY <1>1, <1>5 DEF Locations
    <2>2. p \in PlaceSet /\ p.uid # 0 /\ mailbox[p.box].epoch \in Nat /\ mailbox[p.box].epoch = p.era
      BY <2>1, PressedStands DEF Pressable
    <2> DEFINE r == Row("setflags", p, mailbox[p.box].epoch, "none", b)
    <2>3. r \in RowSet
      BY <2>2, RowType DEF Types
    <2>4. /\ r.type = "setflags" /\ r.msg = m /\ r.box = p.box /\ r.uid = p.uid
          /\ r.epoch = p.era /\ r.status = "pending" /\ r.attempts = 0 /\ (r.seen <=> b)
      BY <2>1, <2>2 DEF Row
    <2> QED
      BY <2>3, <2>4
  <1>8. /\ new \in [1..n -> RowSet]
        /\ \A i \in 1..n : /\ new[i].type = "setflags" /\ new[i].msg = m /\ new[i].box = told[i].box
                            /\ new[i].uid = told[i].uid /\ new[i].epoch = told[i].era
                            /\ new[i].status = "pending" /\ new[i].attempts = 0
                            /\ (new[i].seen <=> b)
    <2> HIDE DEF T, told, n
    <2> QED
      BY <1>6, <1>7
  <1> HIDE DEF T, told, n, new
  <1>9. /\ DOMAIN queue = 1..Len(queue) /\ Len(queue) \in Nat /\ DOMAIN queue' = 1..(Len(queue) + n)
        /\ \A i \in DOMAIN queue : queue'[i] = queue[i]
        /\ \A i \in 1..n : queue'[Len(queue) + i] = new[i]
        /\ \A i \in DOMAIN queue' : i \notin DOMAIN queue =>
             i - Len(queue) \in 1..n /\ queue'[i] = new[i - Len(queue)]
        /\ OneWay(queue', {}) /\ Leases(queue')
    <2>1. queue' = queue \o new
      BY <1>1 DEF new, told, T
    <2>2. PICK rows : rows = queue'
      OBVIOUS
    <2>3. Added(rows, n, new) /\ OneWay(rows, {}) /\ Leases(rows)
      BY <1>6, <1>8, <2>1, <2>2, RowsAdded
    <2> QED
      BY <2>2, <2>3 DEF Added
  <1>10. OneWay(queue', {}) /\ Leases(queue')
    BY <1>9
  <1>11. OnlyRead'
    <2>1. ASSUME NEW i \in DOMAIN queue', i \notin DOMAIN queue
          PROVE  queue'[i].seen \/ word'[queue'[i].msg] = "mixed"
      <3>1. queue'[i].msg = m /\ (queue'[i].seen <=> b)
        BY <1>8, <1>9, <2>1
      <3> QED
        BY <1>4, <3>1
    <2>2. \A k \in Msg : word[k] = "mixed" => word'[k] = "mixed"
      BY <1>4
    <2> QED
      BY <1>10, <2>1, <2>2, RowsRead
  <1>12. agent.pc \in Holding => queue'[agent.row].status = "leased"
    BY <1>10 DEF IInv, AgentOK, ReadInv, Leases
  <1>13. ASSUME NEW k \in Msg \ doubt', word'[k] = "read", NEW c \in Box, NEW e \in Copies(c, k)', ~e.seen
         PROVE  \E i \in DOMAIN queue' : (Means(i, c, e) /\ (Waiting(i) \/ InHand(i)))'
    <2>1. k \in Msg \ doubt /\ e \in Copies(c, k) /\ e \in server[c] /\ e.msg = k
      BY <1>2, <1>13 DEF Copies
    <2>2. CASE word[k] = "read"
      <3>1. PICK i \in DOMAIN queue : Means(i, c, e) /\ (Waiting(i) \/ InHand(i))
        BY <1>13, <2>1, <2>2 DEF ReadInv, Said
      <3>2. Means(i, c, e)' /\ i \in DOMAIN queue'
        BY <1>2, <1>10, <3>1, MeansKept DEF OneWay, Keeps
      <3>3. CASE Waiting(i)
        BY <1>2, <1>10, <3>1, <3>2, <3>3, WaitingKept DEF Means, Waiting
      <3>4. CASE InHand(i)
        BY <1>2, <1>10, <3>2, <3>4 DEF InHand, Leases
      <3> QED
        BY <3>1, <3>2, <3>3, <3>4
    <2>3. CASE word[k] # "read"
      <3>1. k = m /\ Reaches(m, stale)
        BY <1>4, <1>13, <2>1, <2>3
      <3>2. PICK p \in stale : p.box = c /\ p.uid = e.uid /\ p.era = epoch[c]
        BY <1>13, <2>1, <3>1 DEF Reaches
      <3>3. e.uid # 0
        BY <2>1 DEF IInv, ServerOK, FolderOK, EntrySet
      <3>4. p \in T
        BY <3>2, <3>3 DEF T, is_pending, Ahead
      <3>5. PICK i \in 1..n : told[i] = p
        BY <1>6, <3>4
      <3>6. PICK j \in DOMAIN queue' : j = Len(queue) + i
        BY <1>6, <1>9
      <3>7. /\ queue'[j].type = "setflags" /\ queue'[j].msg = m /\ queue'[j].box = c
            /\ queue'[j].uid = e.uid /\ queue'[j].epoch = epoch[c]
            /\ queue'[j].status = "pending" /\ queue'[j].attempts = 0
        BY <1>8, <1>9, <3>2, <3>5, <3>6
      <3>8. Means(j, c, e)'
        BY <1>2, <2>1, <3>1, <3>7 DEF Means
      <3>9. Waiting(j)'
        <4>1. ASSUME NEW h \in DOMAIN queue', h < j, queue'[h].msg = m, Files(queue'[h])
              PROVE  queue'[h].status \notin Live
          <5>1. CASE h \in DOMAIN queue
            <6>1. queue[h] = queue'[h] /\ h # 0
              BY <1>9, <5>1
            <6>2. queue[h].status \in Live => h \in RowsOf(m) \ {0}
              BY <4>1, <5>1, <6>1 DEF RowsOf, Live
            <6> QED
              BY <3>1, <4>1, <6>1, <6>2 DEF Reaches, Rivalled
          <5>2. CASE h \notin DOMAIN queue
            <6>1. queue'[h].type = "setflags"
              BY <1>8, <1>9, <5>2
            <6> QED
              BY <4>1, <6>1 DEF Files
          <5> QED
            BY <5>1, <5>2
        <4>2. agent.todo \subseteq DOMAIN queue /\ (agent.pc \in Holding => agent.row \in DOMAIN queue)
          BY DEF IInv, AgentOK
        <4>3. \A h \in DOMAIN queue : h < j
          BY <1>6, <1>9, <3>5, <3>6
        <4>4. /\ \A h \in agent'.todo : h > j => j \in agent'.todo
              /\ agent'.pc \in Holding => agent'.row <= j
          BY <1>2, <1>9, <3>6, <4>2, <4>3
        <4> QED
          BY <3>7, <4>1, <4>4 DEF Waiting
      <3> QED
        BY <3>8, <3>9
    <2> QED
      BY <2>2, <2>3
  <1>14. Said'
    BY <1>13 DEF Said
  <1> QED
    BY <1>2, <1>4, <1>11, <1>12, <1>14 DEF ReadInv

LEMMA CancelReads ==
  ASSUME IInv, IInv', ReadInv, NEW i \in DOMAIN queue, CancelMove(i) PROVE ReadInv'
  <1> DEFINE r == [queue[i] EXCEPT !.status = "undone", !.undone = TRUE]
  <1>1. queue \in Seq(RowSet) /\ queue[i] \in RowSet
    BY DEF IInv, QueueGood
  <1>2. queue[i].type = "move" /\ queue[i].status # "leased"
    BY DEF CancelMove, Undoable
  <1>3. /\ r \in RowSet /\ r.msg = queue[i].msg /\ r.box = queue[i].box /\ r.uid = queue[i].uid
        /\ r.epoch = queue[i].epoch /\ r.type = queue[i].type /\ r.status = "undone"
    BY <1>1 DEF RowSet, Status
  <1>4. queue' = [queue EXCEPT ![i] = r]
    BY <1>1 DEF CancelMove, Undone, RowSet
  <1>5. UNCHANGED <<server, epoch, agent, word>> /\ doubt \subseteq doubt'
    BY DEF CancelMove, imap
  <1> HIDE DEF r
  <1>6. r.status \notin Live
    BY <1>3 DEF Live
  <1>7. OneWay(queue', {}) /\ DOMAIN queue' = DOMAIN queue /\ Leases(queue')
    BY <1>2, <1>3, <1>4, <1>6, RowWritten
  <1> QED
    BY <1>5, <1>7, DeskReads DEF NewRead

LEMMA ReverseReads ==
  ASSUME IInv, IInv', ReadInv, ~EarlyPress, NEW i \in DOMAIN queue, ReverseMove(i) PROVE ReadInv'
  <1> DEFINE row == queue[i]
             m == row.msg
             b == row.box
  <1>1. row \in RowSet /\ row.type = "move" /\ row.status = "done"
    BY DEF IInv, QueueGood, ReverseMove, Undoable
  <1>2. PICK loc \in In(m, row.to) :
          /\ Pressable(loc) /\ move_to(m, loc, b).ok
          /\ queue' = Undone([move_to(m, loc, b).queue EXCEPT ![i].fresh = TRUE], i)
    BY DEF ReverseMove
  <1>3. m \in Msg /\ b \in Box
    BY <1>1 DEF RowSet
  <1>4. loc \in Locations(m)
    BY DEF In
  <1> DEFINE rows == move_to(m, loc, b).queue
  <1>5. Spares(rows)
    <2> HIDE DEF row, m, b
    <2> QED
      BY <1>2, <1>3, <1>4, MoveSpares
  <1>6. queue' = Undone([rows EXCEPT ![i].fresh = TRUE], i)
    BY <1>2
  <1> HIDE DEF rows
  <1>7. UNCHANGED <<server, epoch, agent, word>> /\ doubt \subseteq doubt'
    BY DEF ReverseMove, imap
  <1>8. DOMAIN queue' = DOMAIN rows /\ \A j \in DOMAIN rows : j # i => queue'[j] = rows[j]
    BY <1>6 DEF Undone
  <1>9. i \in DOMAIN rows
    BY <1>5 DEF Spares, OneWay, Keeps
  <1>10. queue'[i] = [[rows[i] EXCEPT !.fresh = TRUE] EXCEPT !.undone = TRUE]
    BY <1>6, <1>9 DEF Undone
  <1>11. /\ queue'[i].msg = rows[i].msg /\ queue'[i].box = rows[i].box /\ queue'[i].uid = rows[i].uid
         /\ queue'[i].epoch = rows[i].epoch /\ queue'[i].type = rows[i].type
         /\ queue'[i].status = rows[i].status
    BY <1>10
  <1>12. OneWay(queue', {})
    BY <1>1, <1>5, <1>8, <1>9, <1>11 DEF Spares, OneWay, Keeps
  <1>13. NewRead(queue') /\ Leases(queue')
    BY <1>1, <1>5, <1>8, <1>9, <1>11 DEF Spares, NewRead, Leases, OneWay, Keeps
  <1> QED
    BY <1>7, <1>12, <1>13, DeskReads

LEMMA RecheckReads == ASSUME IInv, IInv', ReadInv, request_recheck PROVE ReadInv'
  <1>1. UNCHANGED <<server, epoch, agent, queue, word, doubt>>
    BY DEF request_recheck, imap, history
  <1>2. Spares(queue')
    BY <1>1, QueueSpared
  <1> QED
    BY <1>1, <1>2, DeskReads DEF Spares

LEMMA GraceReads ==
  ASSUME IInv, IInv', ReadInv, NEW i \in DOMAIN queue, GraceEnds(i) PROVE ReadInv'
  <1> DEFINE r == [queue[i] EXCEPT !.fresh = FALSE]
  <1>1. queue \in Seq(RowSet) /\ queue[i] \in RowSet
    BY DEF IInv, QueueGood
  <1>2. /\ r \in RowSet /\ r.msg = queue[i].msg /\ r.box = queue[i].box /\ r.uid = queue[i].uid
        /\ r.epoch = queue[i].epoch /\ r.type = queue[i].type /\ r.status = queue[i].status
        /\ r.seen = queue[i].seen /\ r.attempts = queue[i].attempts
    BY <1>1 DEF RowSet
  <1>3. queue' = [queue EXCEPT ![i] = r]
    BY <1>1 DEF GraceEnds
  <1>4. UNCHANGED <<server, epoch, agent, word, doubt>>
    BY DEF GraceEnds, imap, history
  <1> HIDE DEF r
  <1>5. OneWay(queue', {}) /\ DOMAIN queue' = DOMAIN queue /\ Leases(queue')
    BY <1>2, <1>3, RowWritten
  <1> QED
    BY <1>4, <1>5, DeskReads DEF NewRead

-----------------------------------------------------------------------------
(* The agent's steps.                                                      *)

\* No step but the user's own changes what was said, or a row left alone.
LEMMA BeginReads ==
  ASSUME IInv, IInv', ReadInv, NEW full \in BOOLEAN, Begin(full) PROVE ReadInv'
  <1>1. UNCHANGED <<server, epoch, queue, doubt, word>> /\ agent.pc = "idle"
    BY DEF Begin, imap, db, history
  <1>2. PICK late \in SUBSET {i \in DOMAIN queue : MaybeDue(i)} :
          LET due == late \cup {i \in DOMAIN queue : Due(i)} IN
          agent' = [Idle EXCEPT !.pc = IF due = {} THEN "drain" ELSE "picked",
                                !.full = full \/ recheck # 0, !.recheck = recheck, !.todo = due]
    BY DEF Begin
  <1>3. agent'.pc \in {"drain", "picked"} /\ agent'.todo = late \cup {i \in DOMAIN queue : Due(i)}
    BY <1>2 DEF Idle
  <1>4. \A i \in DOMAIN queue : Waiting(i) => i \in agent'.todo
    BY <1>3 DEF Waiting, Due
  <1>5. Spares(queue') /\ word \in [Msg -> {"none", "read", "mixed"}]
    BY <1>1, QueueSpared DEF ReadInv
  <1> QED
    BY <1>1, <1>3, <1>4, <1>5, LooseReads DEF Spares, Holding, InHand

\* A step between rows, or between folders.
LEMMA StrollReads ==
  ASSUME IInv, IInv', ReadInv, UNCHANGED <<server, epoch, queue, doubt, word>>,
         agent.pc \notin Holding, agent'.pc \notin Holding,
         agent'.todo = agent.todo \/ agent'.todo = {}
  PROVE  ReadInv'
  <1>1. Spares(queue') /\ word \in [Msg -> {"none", "read", "mixed"}]
    BY QueueSpared DEF ReadInv
  <1>2. \A i \in DOMAIN queue : ~InHand(i)
    BY DEF InHand, Holding
  <1> QED
    BY <1>1, <1>2, LooseReads DEF Spares, Waiting

LEMMA DrainedReads == ASSUME IInv, IInv', ReadInv, Drained PROVE ReadInv'
  <1>1. UNCHANGED <<server, epoch, queue, doubt, word>> /\ agent.pc = "drain"
    BY DEF Drained, imap, db, history
  <1>2. agent' = [agent EXCEPT !.pc = "walk", !.walk = Box] /\ agent \in AgentSet
    BY DEF Drained, IInv, AgentOK
  <1>3. agent'.pc = "walk" /\ agent'.todo = agent.todo
    BY <1>2 DEF AgentSet
  <1> QED
    BY <1>1, <1>3, StrollReads DEF Holding

LEMMA RegisterReads ==
  ASSUME IInv, IInv', ReadInv, NEW b \in Box, register_folder(b) PROVE ReadInv'
  <1>1. UNCHANGED <<server, epoch, queue, doubt, word>> /\ agent.pc = "walk"
    BY DEF register_folder, imap, history
  <1>2. /\ agent \in AgentSet
        /\ agent' = [agent EXCEPT !.pc = "opened", !.box = b, !.walk = @ \ {b},
                                  !.exists = Cardinality(server[b])]
    BY DEF register_folder, IInv, AgentOK
  <1>3. agent'.pc = "opened" /\ agent'.todo = agent.todo
    BY <1>2 DEF AgentSet
  <1> QED
    BY <1>1, <1>3, StrollReads DEF Holding

LEMMA FetchReads == ASSUME IInv, IInv', ReadInv, FetchNew \/ ListFolder PROVE ReadInv'
  <1>1. UNCHANGED <<server, epoch, queue, doubt, word>> /\ agent.pc \in {"opened", "sweep"}
    BY DEF FetchNew, ListFolder, imap, db, history
  <1>2. agent \in AgentSet
    BY DEF IInv, AgentOK
  <1>3. agent'.pc \in {"sweep", "walk", "fetched", "listed"} /\ agent'.todo = agent.todo
    <2>1. CASE FetchNew
      <3>1. PICK new :
              agent' = [agent EXCEPT !.got = new, !.pc = IF new = {} THEN Onward ELSE "fetched"]
        BY <2>1 DEF FetchNew
      <3> QED
        BY <1>2, <3>1 DEF AgentSet, Onward
    <2>2. CASE ListFolder
      <3>1. PICK new : agent' = [agent EXCEPT !.pc = "listed", !.got = new]
        BY <2>2 DEF ListFolder
      <3> QED
        BY <1>2, <3>1 DEF AgentSet
    <2> QED
      BY <2>1, <2>2
  <1> QED
    BY <1>1, <1>3, StrollReads DEF Holding

LEMMA EndReads == ASSUME IInv, IInv', ReadInv, EndPass PROVE ReadInv'
  <1>1. UNCHANGED <<server, epoch, queue, doubt, word>> /\ agent.pc = "walk"
    BY DEF EndPass, imap, history
  <1>2. agent'.pc = "idle" /\ agent'.todo = {}
    BY DEF EndPass, Idle
  <1> QED
    BY <1>1, <1>2, StrollReads DEF Holding

\* A row in hand when the agent dies has a mark that may be overtaken.
LEMMA CrashReads == ASSUME IInv, IInv', ReadInv, Crash PROVE ReadInv'
  <1>1. UNCHANGED <<server, epoch, queue, doubt>> /\ word' = Unsaid(agent.row)
    BY DEF Crash, imap, db
  <1>2. agent'.pc = "idle" /\ agent'.todo = {}
    BY DEF Crash, Idle
  <1>3. word \in [Msg -> {"none", "read", "mixed"}] /\ queue \in Seq(RowSet)
    BY DEF ReadInv, IInv, QueueGood
  <1>4. /\ word' \in [Msg -> {"none", "read", "mixed"}]
        /\ \A m \in Msg : word'[m] \in {word[m], "mixed"}
    BY <1>1, <1>3 DEF Unsaid
  <1>5. ASSUME NEW i \in DOMAIN queue, queue[i].type = "setflags", InHand(i)
        PROVE  word'[queue[i].msg] = "mixed"
    <2>0. i # 0 /\ queue[i] \in RowSet
      BY <1>3
    <2>1. agent.row = i /\ i # 0 /\ queue[i].status = "leased" /\ queue[i].msg \in Msg
      BY <1>5, <2>0 DEF InHand, RowSet
    <2>2. word' = [word EXCEPT ![queue[i].msg] = "mixed"]
      BY <1>1, <1>5, <2>1 DEF Unsaid
    <2> QED
      BY <1>3, <2>1, <2>2
  <1>6. Spares(queue')
    BY <1>1, QueueSpared
  <1> QED
    BY <1>1, <1>2, <1>4, <1>5, <1>6, LooseReads DEF Spares, Holding

\* An attempt ends: nobody waits behind it who did not before.
LEMMA SettleReads ==
  ASSUME IInv, IInv', ReadInv, agent.pc \in Holding,
         NEW status \in {"done", "stale", "refused", "failed"}, Settle(status),
         UNCHANGED <<server, epoch>>, doubt \subseteq doubt',
         word' \in [Msg -> {"none", "read", "mixed"}],
         \A m \in Msg : word'[m] \in {word[m], "mixed"},
         queue[agent.row].type = "setflags" /\ agent.pc \in {"leased", "selected"} =>
           \/ word'[queue[agent.row].msg] = "mixed"
           \/ queue[agent.row].epoch # epoch[queue[agent.row].box]
  PROVE  ReadInv'
  <1> DEFINE i == agent.row
  <1>1. /\ i \in DOMAIN queue /\ queue \in Seq(RowSet) /\ queue[i] \in RowSet
        /\ agent \in AgentSet /\ queue[i].status = "leased"
    BY DEF IInv, AgentOK, QueueGood, ReadInv
  <1>2. agent' = [agent EXCEPT !.pc = "drain"]
    BY DEF Settle, Goto
  <1>3. agent'.pc = "drain" /\ agent'.todo = agent.todo
    BY <1>1, <1>2 DEF AgentSet
  <1>4. /\ DOMAIN queue' = DOMAIN queue /\ \A j \in DOMAIN queue : j # i => queue'[j] = queue[j]
        /\ queue'[i].msg = queue[i].msg /\ queue'[i].box = queue[i].box /\ queue'[i].uid = queue[i].uid
        /\ queue'[i].epoch = queue[i].epoch /\ queue'[i].type = queue[i].type
        /\ queue'[i].seen = queue[i].seen
    <2>1. CASE status = "failed"
      <3>1. PICK n : queue' = [queue EXCEPT ![i] = [queue[i] EXCEPT !.status = "pending", !.attempts = n]]
        <4> DEFINE n == IF queue[i].attempts < StuckAfter THEN queue[i].attempts + 1
                                                          ELSE queue[i].attempts
        <4>1. queue' = [queue EXCEPT ![i] = [queue[i] EXCEPT !.status = "pending", !.attempts = n]]
          BY <1>1, <2>1 DEF Settle, RowSet
        <4> QED
          BY <4>1
      <3> QED
        BY <1>1, <3>1 DEF RowSet
    <2>2. CASE status # "failed"
      <3>1. PICK f : queue' = [queue EXCEPT ![i] = [queue[i] EXCEPT !.status = status, !.fresh = f]]
        <4> DEFINE f == status = "done"
        <4>1. queue' = [queue EXCEPT ![i] = [queue[i] EXCEPT !.status = status, !.fresh = f]]
          BY <1>1, <2>2 DEF Settle, RowSet
        <4> QED
          BY <4>1
      <3> QED
        BY <1>1, <3>1 DEF RowSet
    <2> QED
      BY <2>1, <2>2
  <1>5. OneWay(queue', {})
    BY <1>1, <1>4 DEF OneWay, Keeps, Live
  <1>6. NewRead(queue')
    BY <1>4 DEF NewRead
  <1>7. \A j \in DOMAIN queue : InHand(j) => j = i /\ agent.pc \in {"leased", "selected"}
    BY DEF InHand
  <1>8. \A j \in DOMAIN queue : Waiting(j) => \A h \in agent'.todo : h > j => j \in agent'.todo
    BY <1>3 DEF Waiting
  <1> QED
    BY <1>3, <1>5, <1>6, <1>7, <1>8, LooseReads DEF Holding

LEMMA RefusalReads == ASSUME IInv, IInv', ReadInv, Refusal PROVE ReadInv'
  <1>1. Settle("refused") /\ agent.pc \in Holding /\ queue[agent.row].type = "move"
    BY DEF Refusal, Holding
  <1>2. UNCHANGED <<server, epoch, doubt, word>>
    BY DEF Refusal, imap
  <1>3. word \in [Msg -> {"none", "read", "mixed"}]
    BY DEF ReadInv
  <1> QED
    BY <1>1, <1>2, <1>3, SettleReads

LEMMA AppliedReads == ASSUME IInv, IInv', ReadInv, Applied PROVE ReadInv'
  <1>1. Settle("done") /\ agent.pc = "applied"
    BY DEF Applied
  <1>2. UNCHANGED <<server, epoch, doubt, word>>
    BY DEF Applied, imap
  <1>3. word \in [Msg -> {"none", "read", "mixed"}]
    BY DEF ReadInv
  <1> QED
    BY <1>1, <1>2, <1>3, SettleReads DEF Holding

LEMMA FailReads == ASSUME IInv, IInv', ReadInv, Fail PROVE ReadInv'
  <1>1. Settle("failed") /\ agent.pc \in Holding
    BY DEF Fail, Holding
  <1>2. UNCHANGED <<server, epoch, doubt>> /\ word' = Unsaid(agent.row)
    BY DEF Fail, imap
  <1>3. /\ word \in [Msg -> {"none", "read", "mixed"}] /\ queue \in Seq(RowSet)
        /\ agent.row \in DOMAIN queue /\ queue[agent.row].status = "leased"
    BY <1>1 DEF ReadInv, IInv, QueueGood, AgentOK
  <1>4. /\ word' \in [Msg -> {"none", "read", "mixed"}]
        /\ \A m \in Msg : word'[m] \in {word[m], "mixed"}
    BY <1>2, <1>3 DEF Unsaid
  <1>5. agent.row # 0 /\ queue[agent.row] \in RowSet
    BY <1>3
  <1>6. queue[agent.row].type = "setflags" => word'[queue[agent.row].msg] = "mixed"
    BY <1>2, <1>3, <1>5 DEF Unsaid, RowSet
  <1> QED
    BY <1>1, <1>2, <1>4, <1>6, SettleReads

\* A row passed over for good is not one that waits.
LEMMA SkipReads ==
  ASSUME IInv, IInv', ReadInv, UNCHANGED <<server, epoch, queue, doubt, word>>,
         agent.pc \notin Holding, agent'.pc \notin Holding, agent.todo # {},
         queue[NextRow].status \notin Live, agent'.todo = agent.todo \ {NextRow}
  PROVE  ReadInv'
  <1>1. \A j \in DOMAIN queue : Waiting(j) => \A h \in agent'.todo : h > j => j \in agent'.todo
    BY DEF Waiting, Live
  <1>2. Spares(queue') /\ word \in [Msg -> {"none", "read", "mixed"}]
    BY QueueSpared DEF ReadInv
  <1>3. \A j \in DOMAIN queue : ~InHand(j)
    BY DEF InHand, Holding
  <1> QED
    BY <1>1, <1>2, <1>3, LooseReads DEF Spares

LEMMA ReloadReads == ASSUME IInv, IInv', ReadInv, Reload PROVE ReadInv'
  <1>1. UNCHANGED <<server, epoch, queue, doubt, word>> /\ agent.pc = "drain" /\ agent.todo # {}
    BY DEF Reload, imap, db, history
  <1>2. agent \in AgentSet
    BY DEF IInv, AgentOK
  <1>3. CASE queue[NextRow].status \in Live \/ queue[NextRow].status = "gone"
    <2>1. agent' = Idle \/ agent' = [agent EXCEPT !.pc = "picked"]
      BY <1>3 DEF Reload, Live
    <2>2. agent'.pc \in {"idle", "picked"} /\ (agent'.todo = agent.todo \/ agent'.todo = {})
      BY <1>2, <2>1 DEF AgentSet, Idle
    <2> QED
      BY <1>1, <2>2, StrollReads DEF Holding
  <1>4. CASE queue[NextRow].status \notin Live /\ queue[NextRow].status # "gone"
    <2>1. agent' = [agent EXCEPT !.todo = agent.todo \ {NextRow}]
      BY <1>4 DEF Reload
    <2>2. agent'.pc = "drain" /\ agent'.todo = agent.todo \ {NextRow}
      BY <1>1, <1>2, <2>1 DEF AgentSet
    <2> QED
      BY <1>1, <1>4, <2>2, SkipReads DEF Holding
  <1> QED
    BY <1>3, <1>4

\* The next row is the oldest that is due: who waits, waits behind it or is it.
LEMMA LeaseReads == ASSUME IInv, IInv', ReadInv, Lease PROVE ReadInv'
  <1> DEFINE i == NextRow
             r == [queue[i] EXCEPT !.status = "leased"]
  <1>1. UNCHANGED <<server, epoch, word>> /\ agent.pc = "picked" /\ agent.todo # {}
    BY DEF Lease, imap, IInv, AgentOK
  <1>2. /\ agent \in AgentSet /\ agent.todo \subseteq DOMAIN queue
        /\ QueueGood(queue, purged) /\ queue \in Seq(RowSet)
    BY DEF IInv, AgentOK, QueueGood
  <1>3. i \in agent.todo /\ \A j \in agent.todo : i <= j
    BY <1>1, NextIs
  <1>4. i \in DOMAIN queue /\ i \in Nat /\ queue[i] \in RowSet
    BY <1>1, NextIs
  <1>5. CASE ~Takes(i)
    <2>1. agent' = [agent EXCEPT !.pc = "drain", !.todo = agent.todo \ {i}]
          /\ UNCHANGED <<queue, doubt>>
      BY <1>5 DEF Lease
    <2>2. agent'.pc = "drain" /\ agent'.todo = agent.todo \ {i}
      BY <1>1, <1>2, <2>1 DEF AgentSet
    <2>3. queue[i].status \notin Live
      BY <1>5 DEF Takes, Live
    <2> QED
      BY <1>1, <2>1, <2>2, <2>3, SkipReads DEF Holding
  <1>6. CASE Takes(i)
    <2>1. queue' = [queue EXCEPT ![i] = r]
      BY <1>2, <1>4, <1>6 DEF Lease
    <2>2. r.msg = queue[i].msg /\ r.box = queue[i].box /\ r.uid = queue[i].uid
          /\ r.epoch = queue[i].epoch /\ r.type = queue[i].type /\ r.seen = queue[i].seen
          /\ r.status = "leased"
      BY <1>4 DEF RowSet
    <2>3. agent' = [agent EXCEPT !.pc = "leased", !.row = i, !.todo = agent.todo \ {i}]
      BY <1>6 DEF Lease
    <2>a. doubt \subseteq doubt' /\ (queue[i].msg \in Msg \ doubt' => queue[i].status \in Live)
      BY <1>6 DEF Lease
    <2> HIDE DEF i, r
    <2>4. agent'.pc = "leased" /\ agent'.row = i /\ agent'.todo = agent.todo \ {i}
      BY <1>2, <2>3 DEF AgentSet
    <2>5. DOMAIN queue' = DOMAIN queue /\ queue'[i] = r /\ \A j \in DOMAIN queue : j # i => queue'[j] = queue[j]
      BY <1>2, <1>4, <2>1
    <2>6. /\ \A j \in DOMAIN queue :
               /\ queue'[j].msg = queue[j].msg /\ queue'[j].box = queue[j].box
               /\ queue'[j].uid = queue[j].uid /\ queue'[j].epoch = queue[j].epoch
               /\ queue'[j].type = queue[j].type /\ queue'[j].seen = queue[j].seen
               /\ queue[j].msg \in Msg \ doubt' =>
                    (queue'[j].status \in Live => queue[j].status \in Live)
      BY <2>2, <2>5, <2>a
    <2>7. OnlyRead'
      BY <1>1, <2>5, <2>6 DEF ReadInv, OnlyRead
    <2>8. ASSUME NEW m \in Msg \ doubt', word'[m] = "read", NEW b \in Box, NEW e \in Copies(b, m)', ~e.seen
          PROVE  \E j \in DOMAIN queue' : (Means(j, b, e) /\ (Waiting(j) \/ InHand(j)))'
      <3>1. m \in Msg \ doubt /\ word[m] = "read" /\ e \in Copies(b, m)
        BY <1>1, <2>8, <2>a DEF Copies
      <3>2. PICK j \in DOMAIN queue : Means(j, b, e) /\ (Waiting(j) \/ InHand(j))
        BY <2>8, <3>1 DEF ReadInv, Said
      <3>3. Waiting(j)
        BY <1>1, <3>2 DEF InHand
      <3>4. Means(j, b, e)'
        BY <1>1, <2>6, <3>2 DEF Means
      <3>5. CASE j = i
        BY <2>2, <2>4, <2>5, <3>4, <3>5 DEF InHand
      <3>6. CASE j # i
        <4>1. queue'[j] = queue[j] /\ j \in Int /\ i \in Int
          BY <1>2, <1>4, <2>5, <3>6
        <4>2. i <= j
          <5>1. i > j => j \in agent.todo
            BY <1>3, <3>3 DEF Waiting
          <5> QED
            BY <1>3, <4>1, <5>1
        <4>3. \A h \in agent'.todo : h > j => j \in agent'.todo
          BY <2>4, <3>3, <3>6 DEF Waiting
        <4>4. \A h \in DOMAIN queue' :
                h < j /\ queue'[h].msg = queue'[j].msg /\ Files(queue'[h]) => queue'[h].status \notin Live
          <5>1. queue[j].msg = m
            BY <3>2, <3>1 DEF Means, Copies
          <5> QED
            BY <2>5, <2>6, <2>8, <3>3, <5>1 DEF Waiting, Files
        <4>5. Waiting(j)'
          BY <2>4, <3>3, <4>1, <4>2, <4>3, <4>4 DEF Waiting
        <4> QED
          BY <2>5, <3>4, <4>5
      <3> QED
        BY <3>5, <3>6
    <2>9. Said'
      BY <2>8 DEF Said
    <2> QED
      BY <1>1, <2>2, <2>4, <2>5, <2>7, <2>9 DEF ReadInv
  <1> QED
    BY <1>5, <1>6

\* A row is taken up on its own folder.
LEMMA SelectReads == ASSUME IInv, IInv', ReadInv, Select PROVE ReadInv'
  <1> DEFINE row == queue[agent.row]
  <1>1. agent.pc = "leased" /\ agent.pc \in Holding
    BY DEF Select, Holding
  <1>2. UNCHANGED <<server, epoch, word>> /\ doubt \subseteq doubt'
    BY DEF Select, imap
  <1>3. \/ Verified(row) /\ Goto("selected") /\ UNCHANGED queue
        \/ /\ ~Verified(row) \/ row.type = "move"
           /\ \E found \in {"done", "stale", "failed"} : Settle(found)
    BY DEF Select, _still_to_move
  <1>4. word \in [Msg -> {"none", "read", "mixed"}]
    BY DEF ReadInv
  <1>5. CASE Verified(row) /\ Goto("selected") /\ UNCHANGED queue
    <2>1. agent \in AgentSet /\ agent' = [agent EXCEPT !.pc = "selected"]
      BY <1>5 DEF Goto, IInv, AgentOK
    <2>2. agent'.pc = "selected" /\ agent'.row = agent.row /\ agent'.todo = agent.todo
      BY <2>1 DEF AgentSet
    <2>3. OnlyRead'
      BY <1>2, <1>5 DEF ReadInv, OnlyRead
    <2>4. ASSUME NEW i \in DOMAIN queue, Waiting(i) \/ InHand(i) PROVE (Waiting(i) \/ InHand(i))'
      <3>1. CASE Waiting(i)
        BY <1>1, <1>5, <2>2, <3>1 DEF Waiting
      <3>2. CASE InHand(i)
        BY <1>1, <1>5, <2>2, <3>2 DEF InHand
      <3> QED
        BY <2>4, <3>1, <3>2
    <2>5. ASSUME NEW m \in Msg \ doubt', word'[m] = "read", NEW b \in Box, NEW e \in Copies(b, m)', ~e.seen
          PROVE  \E i \in DOMAIN queue' : (Means(i, b, e) /\ (Waiting(i) \/ InHand(i)))'
      <3>1. m \in Msg \ doubt /\ word[m] = "read" /\ e \in Copies(b, m)
        BY <1>2, <2>5 DEF Copies
      <3>2. PICK i \in DOMAIN queue : Means(i, b, e) /\ (Waiting(i) \/ InHand(i))
        BY <2>5, <3>1 DEF ReadInv, Said
      <3>3. Means(i, b, e)'
        BY <1>2, <1>5, <3>2 DEF Means
      <3> QED
        BY <1>5, <2>4, <3>2, <3>3
    <2>6. Said'
      BY <2>5 DEF Said
    <2> QED
      BY <1>1, <1>2, <1>4, <1>5, <2>2, <2>3, <2>6 DEF ReadInv
  <1>6. CASE /\ ~Verified(row) \/ row.type = "move"
             /\ \E found \in {"done", "stale", "failed"} : Settle(found)
    BY <1>1, <1>2, <1>4, <1>6, SettleReads DEF Verified
  <1> QED
    BY <1>3, <1>5, <1>6

\* What a walk adds says that mail is read.
LEMMA CatchUpReads ==
  ASSUME IInv, NEW ps, NEW b \in Box, NEW got \in SUBSET EntrySet, IsFiniteSet(got),
         mailbox[b].epoch \in Nat
  PROVE  LET rows == queue \o CatchUp(ps, b, got) IN
         OneWay(rows, {}) /\ NewRead(rows)
  <1> DEFINE S == {e \in got : ~e.seen /\ Inherits(ps, b, e)}
             s == SetToSeq(S)
             n == Cardinality(S)
             row(e) == Row("setflags", At(e.msg, b, e.uid, TRUE, 0), mailbox[b].epoch, "none", TRUE)
             new == [i \in DOMAIN s |-> row(s[i])]
             rows == queue \o new
  <1>1. IsFiniteSet(S) /\ S \subseteq got
    BY FS_Subset
  <1>2. n \in Nat /\ s \in [1..n -> S]
    BY <1>1, SetToSeqType, FS_CardinalityType
  <1>3. ASSUME NEW e \in S PROVE row(e) \in RowSet /\ row(e).seen
    <2>1. e \in EntrySet /\ e.msg \in Msg /\ e.uid \in Nat /\ e.uid # 0
      BY DEF EntrySet
    <2> DEFINE p == At(e.msg, b, e.uid, TRUE, 0)
    <2>2. p \in PlaceSet /\ p.uid # 0
      BY <2>1 DEF At, PlaceSet
    <2>3. row(e).seen
      BY DEF Row
    <2> HIDE DEF p
    <2>4. Row("setflags", p, mailbox[b].epoch, "none", TRUE) \in RowSet
      BY <2>2, RowType DEF Types
    <2> QED
      BY <2>3, <2>4 DEF p
  <1>4. CatchUp(ps, b, got) = new
    BY DEF CatchUp
  <1> HIDE DEF S, s, n, row
  <1>5. new \in [1..n -> RowSet] /\ \A i \in 1..n : new[i].seen
    BY <1>2, <1>3
  <1> HIDE DEF new
  <1>6. rows = queue \o new
    OBVIOUS
  <1> HIDE DEF rows
  <1>7. Added(rows, n, new) /\ OneWay(rows, {})
    BY <1>2, <1>5, <1>6, RowsAdded
  <1>8. NewRead(rows)
    BY <1>5, <1>7 DEF NewRead, Added
  <1> QED
    BY <1>4, <1>6, <1>7, <1>8

LEMMA StoreReads == ASSUME IInv, IInv', ReadInv, StoreNew PROVE ReadInv'
  <1>1. UNCHANGED <<server, epoch, word>> /\ doubt \subseteq doubt' /\ agent.pc = "fetched"
    BY DEF StoreNew, imap
  <1>2. /\ agent \in AgentSet /\ agent.box \in Box /\ agent.got \in SUBSET EntrySet
        /\ IsFiniteSet(agent.got) /\ mailbox[agent.box].epoch \in Nat
    BY DEF IInv, AgentOK, AgentSet, MailboxGood
  <1>3. /\ queue' = queue \o CatchUp(place, agent.box, agent.got)
        /\ agent' = [agent EXCEPT !.pc = Onward, !.got = {}]
    BY DEF StoreNew
  <1>4. OneWay(queue', {}) /\ NewRead(queue')
    BY <1>2, <1>3, CatchUpReads
  <1>5. agent'.pc \in {"sweep", "walk"} /\ agent'.todo = agent.todo
    BY <1>2, <1>3 DEF AgentSet, Onward
  <1>6. \A i \in DOMAIN queue : Waiting(i) => \A j \in agent'.todo : j > i => i \in agent'.todo
    BY <1>5 DEF Waiting
  <1>7. word \in [Msg -> {"none", "read", "mixed"}]
    BY DEF ReadInv
  <1> QED
    BY <1>1, <1>4, <1>5, <1>6, <1>7, LooseReads DEF Holding, InHand

\* A message swept away goes with its rows, and had none to wait for.
LEMMA SweepReads == ASSUME IInv, IInv', ReadInv, Sweep PROVE ReadInv'
  <1> DEFINE b == agent.box
             flagged == Swept(b, agent.got)
             back == Missing(flagged, b, agent.got)
             full == Upserted(flagged, b, back)
             gone == Vanished(full, b, agent.got, agent.exists)
             orphans == {p.msg : p \in gone} \ {p.msg : p \in full \ gone}
             rows == queue \o CatchUp(flagged, b, back)
  <1>1. UNCHANGED <<server, epoch, word>> /\ agent.pc = "listed"
    BY DEF Sweep, imap
  <1>2. /\ agent \in AgentSet /\ b \in Box /\ mailbox[b].epoch \in Nat
        /\ FolderOK(server[b], uidnext[b])
    BY DEF IInv, AgentOK, AgentSet, MailboxGood, ServerOK
  <1>3. /\ queue' = [i \in DOMAIN rows |-> IF rows[i].msg \in orphans
                                           THEN [rows[i] EXCEPT !.status = "gone"] ELSE rows[i]]
        /\ agent' = [agent EXCEPT !.pc = "walk", !.got = {}]
        /\ doubt' = doubt \cup {m \in orphans : ~AtRest(m)}
    BY DEF Sweep
  <1>4. back \in SUBSET EntrySet /\ IsFiniteSet(back)
    <2>1. back \subseteq server[b]
      BY DEF Missing
    <2>2. IsFiniteSet(back)
      BY <1>2, <2>1, FS_Subset DEF FolderOK
    <2> HIDE DEF back
    <2> QED
      BY <1>2, <2>1, <2>2 DEF FolderOK
  <1> HIDE DEF flagged, back
  <1>5. OneWay(rows, {}) /\ NewRead(rows) /\ QueueGood(rows, purged)
    <2>1. OneWay(rows, {}) /\ NewRead(rows)
      BY <1>2, <1>4, CatchUpReads
    <2>2. QueueGood(rows, purged)
      <3>1. mailbox[b].epoch = epoch[b] /\ epoch[b] \in Nat
        BY <1>1, <1>2 DEF IInv, AgentOK, ServerOK
      <3>2. back \subseteq server[b]
        BY DEF back, Missing
      <3>3. \A e \in back : Names(b, e.uid, e.msg)
        BY <1>2, <3>2 DEF FolderOK, Names, EntrySet
      <3> QED
        BY <1>2, <1>4, <3>1, <3>3, CatchUpGood
    <2> QED
      BY <2>1, <2>2
  <1> HIDE DEF rows, orphans, full, gone, b
  <1>6. ASSUME NEW i \in DOMAIN rows
        PROVE  /\ queue'[i].msg = rows[i].msg /\ queue'[i].box = rows[i].box
               /\ queue'[i].uid = rows[i].uid /\ queue'[i].epoch = rows[i].epoch
               /\ queue'[i].type = rows[i].type /\ queue'[i].seen = rows[i].seen
               /\ queue'[i].attempts = rows[i].attempts
               /\ rows[i].msg \notin orphans => queue'[i].status = rows[i].status
    <2>1. rows[i] \in RowSet
      BY <1>5 DEF QueueGood
    <2>2. queue'[i] = [rows[i] EXCEPT !.status = "gone"] \/ queue'[i] = rows[i]
      BY <1>3
    <2>3. rows[i].msg \notin orphans => queue'[i] = rows[i]
      BY <1>3
    <2> QED
      BY <2>1, <2>2, <2>3 DEF RowSet
  <1>7. DOMAIN queue' = DOMAIN rows
    BY <1>3
  <1>8. OneWay(queue', orphans)
    <2>1. DOMAIN queue \subseteq DOMAIN rows
      BY <1>5 DEF OneWay, Keeps
    <2>2. Keeps(queue')
      BY <1>5, <1>6, <1>7, <2>1 DEF OneWay, Keeps
    <2> QED
      BY <1>5, <1>6, <2>1, <2>2 DEF OneWay, Keeps
  <1>9. NewRead(queue')
    BY <1>5, <1>6, <1>7 DEF NewRead
  <1>10. agent'.pc = "walk" /\ agent'.todo = agent.todo
    BY <1>2, <1>3 DEF AgentSet
  <1>11. \A i \in DOMAIN queue : Waiting(i) => \A j \in agent'.todo : j > i => i \in agent'.todo
    BY <1>10 DEF Waiting
  <1>12. word \in [Msg -> {"none", "read", "mixed"}] /\ doubt \subseteq doubt'
         /\ \A m \in orphans : m \in doubt' \/ AtRest(m)
    BY <1>3 DEF ReadInv
  <1> QED
    BY <1>1, <1>8, <1>9, <1>10, <1>11, <1>12, LooseReads DEF Holding, InHand

-----------------------------------------------------------------------------
(* What happens on the server.                                             *)

\* Unread copies are where they were, and nothing that marked one is done.
LEMMA ServerReads ==
  ASSUME IInv, IInv', ReadInv, UNCHANGED queue, doubt \subseteq doubt',
         agent'.todo = agent.todo, agent'.row = agent.row,
         agent'.pc \in Holding => agent.pc \in Holding,
         word' \in [Msg -> {"none", "read", "mixed"}],
         \A m \in Msg : word'[m] \in {word[m], "mixed"},
         \A m \in Msg \ doubt', b \in Box : word'[m] = "read" => \A e \in Copies(b, m)' : ~e.seen =>
           /\ epoch'[b] = epoch[b]
           /\ \E d \in Copies(b, m) : ~d.seen /\ d.uid = e.uid
           /\ \/ agent'.pc = agent.pc
              \/ ~(queue[agent.row].type = "setflags" /\ queue[agent.row].box = b
                   /\ queue[agent.row].uid = e.uid)
  PROVE  ReadInv'
  <1>1. OnlyRead'
    <2>1. queue \in Seq(RowSet)
      BY DEF IInv, QueueGood
    <2>2. ASSUME NEW i \in DOMAIN queue PROVE word[queue[i].msg] = "mixed" => word'[queue[i].msg] = "mixed"
      <3>1. queue[i] \in RowSet
        BY <2>1
      <3>2. queue[i].msg \in Msg
        BY <3>1 DEF RowSet
      <3> QED
        BY <3>2
    <2> QED
      BY <2>2 DEF ReadInv, OnlyRead
  <1>2. ASSUME NEW m \in Msg \ doubt', word'[m] = "read", NEW b \in Box, NEW e \in Copies(b, m)', ~e.seen
        PROVE  \E i \in DOMAIN queue' : (Means(i, b, e) /\ (Waiting(i) \/ InHand(i)))'
    <2>1. PICK d \in Copies(b, m) : ~d.seen /\ d.uid = e.uid /\ epoch'[b] = epoch[b]
      BY <1>2
    <2>2. m \in Msg \ doubt /\ word[m] = "read" /\ d.msg = m /\ e.msg = m
      BY <1>2, <2>1 DEF Copies
    <2>3. PICK i \in DOMAIN queue : Means(i, b, d) /\ (Waiting(i) \/ InHand(i))
      BY <2>1, <2>2 DEF ReadInv, Said
    <2>4. Means(i, b, e)'
      BY <2>1, <2>2, <2>3 DEF Means
    <2>5. CASE Waiting(i)
      BY <2>3, <2>4, <2>5 DEF Waiting
    <2>6. CASE InHand(i)
      <3>1. queue[agent.row].type = "setflags" /\ queue[agent.row].box = b /\ queue[agent.row].uid = e.uid
        BY <2>1, <2>3, <2>6 DEF Means, InHand
      <3>2. agent'.pc = agent.pc
        BY <1>2, <3>1
      <3> QED
        BY <2>4, <2>6, <3>2 DEF InHand
    <2> QED
      BY <2>3, <2>5, <2>6
  <1>3. Said'
    BY <1>2 DEF Said
  <1>4. agent'.pc \in Holding => queue'[agent'.row].status = "leased"
    BY DEF ReadInv
  <1> QED
    BY <1>1, <1>3, <1>4 DEF ReadInv

LEMMA RemoveReads == ASSUME IInv, IInv', ReadInv, RemoveSource PROVE ReadInv'
  <1> DEFINE row == queue[agent.row]
  <1>1. /\ server' = [server EXCEPT ![row.box] = server[row.box] \ Entry(row.box, row.uid)]
        /\ agent' = [agent EXCEPT !.pc = "applied"] /\ agent.pc = "copied"
        /\ UNCHANGED <<epoch, queue, word, doubt>>
    BY DEF RemoveSource, Without, Goto, db, history
  <1>2. agent \in AgentSet /\ word \in [Msg -> {"none", "read", "mixed"}]
        /\ server = [c \in Box |-> server[c]]
    BY DEF IInv, AgentOK, ReadInv, ServerOK
  <1>3. agent'.pc = "applied" /\ agent'.row = agent.row /\ agent'.todo = agent.todo
    BY <1>1, <1>2 DEF AgentSet
  <1>4. \A b \in Box : server'[b] \subseteq server[b]
    BY <1>1, <1>2
  <1>5. ASSUME NEW m \in Msg \ doubt', word'[m] = "read", NEW b \in Box, NEW e \in Copies(b, m)', ~e.seen
        PROVE  /\ epoch'[b] = epoch[b]
               /\ \E d \in Copies(b, m) : ~d.seen /\ d.uid = e.uid
               /\ \/ agent'.pc = agent.pc
                  \/ ~(queue[agent.row].type = "setflags" /\ queue[agent.row].box = b
                       /\ queue[agent.row].uid = e.uid)
    <2>1. e \in Copies(b, m) /\ e \in server[b] /\ e.msg = m
      BY <1>4, <1>5 DEF Copies
    <2>2. ~(row.type = "setflags" /\ row.box = b /\ row.uid = e.uid)
      <3>1. e \in server'[b]
        BY <1>5 DEF Copies
      <3> QED
        BY <1>1, <1>2, <3>1 DEF Entry
    <2> QED
      BY <1>1, <1>5, <2>1, <2>2
  <1> QED
    BY <1>1, <1>2, <1>3, <1>5, ServerReads DEF Holding

LEMMA ElseReads ==
  ASSUME IInv, IInv', ReadInv, NEW b \in Box, NEW e \in server[b],
         ExpungeElsewhere(b, e) \/ \E c \in Box : MoveElsewhere(b, c, e)
  PROVE  ReadInv'
  <1>1. UNCHANGED <<epoch, queue, agent, word>> /\ doubt' = doubt \cup {e.msg}
    BY DEF ExpungeElsewhere, MoveElsewhere, Disturbed, db
  <1>2. word \in [Msg -> {"none", "read", "mixed"}] /\ server = [c \in Box |-> server[c]]
    BY DEF ReadInv, IInv, ServerOK
  <1>3. ASSUME NEW c \in Box, NEW d \in server'[c], d.msg # e.msg PROVE d \in server[c]
    <2>1. CASE ExpungeElsewhere(b, e)
      <3>1. server' = [server EXCEPT ![b] = server[b] \ {e}]
        BY <2>1 DEF ExpungeElsewhere
      <3> QED
        BY <1>2, <1>3, <3>1
    <2>2. CASE \E f \in Box : MoveElsewhere(b, f, e)
      <3>1. PICK f \in Box : MoveElsewhere(b, f, e)
        BY <2>2
      <3> DEFINE new == [e EXCEPT !.uid = uidnext[f]]
                 thin == [server EXCEPT ![b] = server[b] \ {e}]
      <3>2. server' = [thin EXCEPT ![f] = thin[f] \cup {new}]
        BY <3>1 DEF MoveElsewhere
      <3>3. new.msg = e.msg
        <4>1. e \in EntrySet
          BY DEF IInv, ServerOK, FolderOK
        <4> QED
          BY <4>1 DEF EntrySet
      <3> HIDE DEF new
      <3>4. d \in thin[c] \/ d = new
        BY <1>2, <1>3, <3>2
      <3> QED
        BY <1>2, <1>3, <3>3, <3>4
    <2> QED
      BY <2>1, <2>2
  <1>4. ASSUME NEW m \in Msg \ doubt', NEW c \in Box, NEW d \in Copies(c, m)'
        PROVE  epoch'[c] = epoch[c] /\ d \in Copies(c, m)
    <2>1. m # e.msg /\ d \in server'[c] /\ d.msg = m
      BY <1>1, <1>4 DEF Copies
    <2> QED
      BY <1>1, <1>3, <2>1 DEF Copies
  <1> QED
    BY <1>1, <1>2, <1>4, ServerReads

LEMMA RebuildReads == ASSUME IInv, IInv', ReadInv, NEW b \in Box, Rebuild(b) PROVE ReadInv'
  <1>1. /\ epoch' = [epoch EXCEPT ![b] = epoch[b] + 1] /\ UNCHANGED <<queue, agent, doubt>>
        /\ word' = [m \in Msg |-> IF word[m] = "read" /\ Copies(b, m) # {} THEN "mixed" ELSE word[m]]
    BY DEF Rebuild, db
  <1>2. PICK f : server' = [server EXCEPT ![b] = {[e EXCEPT !.uid = f[e]] : e \in server[b]}]
    BY DEF Rebuild
  <1>3. /\ word \in [Msg -> {"none", "read", "mixed"}] /\ server = [c \in Box |-> server[c]]
        /\ epoch \in [Box -> Nat] /\ server[b] \subseteq EntrySet
    BY DEF ReadInv, IInv, ServerOK, FolderOK
  <1>4. /\ word' \in [Msg -> {"none", "read", "mixed"}]
        /\ \A m \in Msg : word'[m] \in {word[m], "mixed"}
    BY <1>1, <1>3
  <1>5. ASSUME NEW m \in Msg, word'[m] = "read", NEW c \in Box, NEW d \in Copies(c, m)'
        PROVE  epoch'[c] = epoch[c] /\ d \in Copies(c, m)
    <2>1. Copies(b, m) = {}
      BY <1>1, <1>5
    <2>2. d \in server'[c] /\ d.msg = m
      BY <1>5 DEF Copies
    <2>3. c # b
      <3> SUFFICES ASSUME c = b PROVE FALSE
        OBVIOUS
      <3>1. PICK e \in server[b] : d = [e EXCEPT !.uid = f[e]]
        BY <1>2, <1>3, <2>2
      <3>2. e.msg = m
        BY <1>3, <2>2, <3>1 DEF EntrySet
      <3> QED
        BY <2>1, <3>2 DEF Copies
    <2> QED
      BY <1>1, <1>2, <1>3, <2>2, <2>3 DEF Copies
  <1> QED
    BY <1>1, <1>4, <1>5, ServerReads

\* A mark is made where it was meant; and an unread copy is filed only by a row
\* that nobody who would mark it waits behind.
LEMMA ApplyReads == ASSUME IInv, IInv', ReadInv, Apply PROVE ReadInv'
  <1> DEFINE row == queue[agent.row]
             es == Entry(row.box, row.uid)
  <1>1. agent.pc = "selected" /\ UNCHANGED <<epoch, queue, word>> /\ doubt \subseteq doubt'
    BY DEF Apply, db
  <1>2. /\ agent \in AgentSet /\ agent.row \in DOMAIN queue /\ queue \in Seq(RowSet)
        /\ row \in RowSet /\ RowGood(row, purged) /\ row.epoch = epoch[row.box]
    BY <1>1 DEF IInv, AgentOK, Holding, QueueGood
  <1>3. /\ row.box \in Box /\ Names(row.box, row.uid, row.msg) /\ row.msg \in Msg
        /\ row.status = "leased" /\ agent.row \in Int
    BY <1>1, <1>2 DEF RowSet, RowGood, Stands, ReadInv, Holding
  <1>4. server = [d \in Box |-> server[d]] /\ word \in [Msg -> {"none", "read", "mixed"}]
    BY DEF IInv, ServerOK, ReadInv
  <1>5. agent'.row = agent.row /\ agent'.todo = agent.todo
    <2>1. Goto("applied") \/ Goto("copied")
      BY DEF Apply
    <2> QED
      BY <1>2, <2>1 DEF Goto, AgentSet
  <1>6. CASE /\ row.type = "setflags"
             /\ server' = [server EXCEPT ![row.box] =
                  {IF e.uid = row.uid THEN [e EXCEPT !.seen = row.seen] ELSE e : e \in server[row.box]}]
    <2>1. ASSUME NEW m \in Msg \ doubt', word'[m] = "read", NEW b \in Box, NEW e \in Copies(b, m)', ~e.seen
          PROVE  /\ epoch'[b] = epoch[b]
                 /\ \E d \in Copies(b, m) : ~d.seen /\ d.uid = e.uid
                 /\ \/ agent'.pc = agent.pc
                    \/ ~(queue[agent.row].type = "setflags" /\ queue[agent.row].box = b
                         /\ queue[agent.row].uid = e.uid)
      <3>1. e \in server'[b] /\ e.msg = m
        BY <2>1 DEF Copies
      <3>2. CASE b = row.box
        <4>1. PICK d \in server[b] : e = IF d.uid = row.uid THEN [d EXCEPT !.seen = row.seen] ELSE d
          BY <1>3, <1>4, <1>6, <3>1, <3>2
        <4>2. d.uid # row.uid
          <5> SUFFICES ASSUME d.uid = row.uid PROVE FALSE
            OBVIOUS
          <5>1. d.msg = row.msg /\ d \in EntrySet
            BY <1>3, <3>2 DEF Names, IInv, ServerOK, FolderOK
          <5>2. e.msg = row.msg /\ (e.seen <=> row.seen)
            BY <4>1, <5>1 DEF EntrySet
          <5>3. row.seen
            BY <1>1, <1>2, <1>6, <2>1, <3>1, <5>2 DEF ReadInv, OnlyRead
          <5> QED
            BY <2>1, <5>2, <5>3
        <4>3. d = e
          BY <4>1, <4>2
        <4> QED
          BY <1>1, <2>1, <3>1, <4>2, <4>3 DEF Copies
      <3>3. CASE b # row.box
        <4>1. e \in server[b]
          BY <1>4, <1>6, <3>1, <3>3
        <4> QED
          BY <1>1, <2>1, <3>1, <3>3, <4>1 DEF Copies
      <3> QED
        BY <3>2, <3>3
    <2> QED
      BY <1>1, <1>4, <1>5, <2>1, ServerReads DEF Holding
  <1>7. CASE /\ row.type # "setflags"
             /\ \A b \in Box : \A e \in server'[b] :
                  e \in server[b] \/ \E d \in es : e.msg = d.msg /\ e.seen = d.seen
    <2>1. ASSUME NEW m \in Msg \ doubt', word'[m] = "read", NEW b \in Box, NEW e \in Copies(b, m)', ~e.seen
          PROVE  /\ epoch'[b] = epoch[b]
                 /\ \E d \in Copies(b, m) : ~d.seen /\ d.uid = e.uid
                 /\ \/ agent'.pc = agent.pc
                    \/ ~(queue[agent.row].type = "setflags" /\ queue[agent.row].box = b
                         /\ queue[agent.row].uid = e.uid)
      <3>1. e \in server'[b] /\ e.msg = m
        BY <2>1 DEF Copies
      <3>2. CASE e \in server[b]
        BY <1>1, <1>7, <2>1, <3>1, <3>2 DEF Copies
      <3>3. CASE \E d \in es : e.msg = d.msg /\ e.seen = d.seen
        <4>1. PICK d \in es : d.msg = m /\ e.seen = d.seen
          BY <3>1, <3>3
        <4>2. d \in Copies(row.box, m) /\ m = row.msg
          BY <1>3, <4>1 DEF Entry, Copies, Names
        <4>3. PICK i \in DOMAIN queue : Means(i, row.box, d) /\ (Waiting(i) \/ InHand(i))
          BY <1>1, <1>3, <2>1, <4>1, <4>2 DEF ReadInv, Said
        <4>4. queue[i].type = "setflags" /\ queue[i].msg = m
          BY <4>2, <4>3 DEF Means, Copies
        <4>5. i # agent.row
          BY <1>7, <4>4
        <4>6. Waiting(i)
          BY <4>3, <4>5 DEF InHand
        <4>7. agent.row < i
          <5>1. agent.row <= i /\ i \in Int
            BY <1>1, <1>2, <4>6 DEF Waiting, Holding
          <5> QED
            BY <1>3, <4>5, <5>1
        <4>8. Files(row)
          BY <1>2, <1>7 DEF Files, RowSet, Types
        <4> QED
          BY <1>2, <1>3, <4>2, <4>4, <4>6, <4>7, <4>8 DEF Waiting, Live
      <3> QED
        BY <1>7, <3>1, <3>2, <3>3
    <2> QED
      BY <1>1, <1>4, <1>5, <2>1, ServerReads DEF Holding
  <1>8. \/ /\ row.type = "setflags"
           /\ server' = [server EXCEPT ![row.box] =
                {IF e.uid = row.uid THEN [e EXCEPT !.seen = row.seen] ELSE e : e \in server[row.box]}]
        \/ row.type = "delete" /\ server' = Without(row.box, row.uid)
        \/ row.type = "move" /\ server' = WithCopy(Without(row.box, row.uid), row)
        \/ row.type = "move" /\ server' \in {server, WithCopy(server, row)}
    BY DEF Apply
  <1>9. ASSUME NEW sv, sv = [d \in Box |-> sv[d]], \A d \in Box : sv[d] \subseteq server[d],
               server' \in {sv, WithCopy(sv, row)}
        PROVE  \A b \in Box : \A e \in server'[b] :
                 e \in server[b] \/ \E d \in es : e.msg = d.msg /\ e.seen = d.seen
    <2> SUFFICES ASSUME NEW b \in Box, NEW e \in server'[b], e \notin server[b]
                 PROVE  \E d \in es : e.msg = d.msg /\ e.seen = d.seen
      OBVIOUS
    <2>1. server' = WithCopy(sv, row)
      BY <1>9
    <2>2. PICK d \in es : e = [uid |-> uidnext[row.to], msg |-> d.msg, seen |-> d.seen]
      BY <1>9, <2>1 DEF WithCopy
    <2> QED
      BY <2>2
  <1>10. LET thin == Without(row.box, row.uid) IN
         thin = [d \in Box |-> thin[d]] /\ \A d \in Box : thin[d] \subseteq server[d]
    BY <1>3, <1>4 DEF Without
  <1>11. row.type # "setflags" => \A b \in Box : \A e \in server'[b] :
           e \in server[b] \/ \E d \in es : e.msg = d.msg /\ e.seen = d.seen
    <2> SUFFICES ASSUME row.type # "setflags"
                 PROVE  \A b \in Box : \A e \in server'[b] :
                          e \in server[b] \/ \E d \in es : e.msg = d.msg /\ e.seen = d.seen
      OBVIOUS
    <2>1. PICK thin : thin = Without(row.box, row.uid)
      OBVIOUS
    <2>2. server' \in {thin, WithCopy(thin, row)} \/ server' \in {server, WithCopy(server, row)}
      BY <1>8, <2>1
    <2>3. CASE server' \in {thin, WithCopy(thin, row)}
      BY <1>9, <1>10, <2>1, <2>3
    <2>4. CASE server' \in {server, WithCopy(server, row)}
      BY <1>4, <1>9, <2>4
    <2> QED
      BY <2>2, <2>3, <2>4
  <1> QED
    BY <1>6, <1>7, <1>8, <1>11

-----------------------------------------------------------------------------
LEMMA InitReads == Init => ReadInv
  <1> SUFFICES ASSUME Init PROVE ReadInv
    OBVIOUS
  <1>1. queue = <<>> /\ agent = Idle /\ word = [m \in Msg |-> "none"]
    BY DEF Init
  <1>2. agent.pc = "idle"
    BY <1>1 DEF Idle
  <1>3. word \in [Msg -> {"none", "read", "mixed"}] /\ \A m \in Msg : word[m] # "read"
    BY <1>1
  <1> QED
    BY <1>1, <1>2, <1>3 DEF ReadInv, OnlyRead, Said, Holding

LEMMA NextReads == ASSUME ~EarlyPress PROVE IInv /\ IInv' /\ ReadInv /\ [Next]_vars => ReadInv'
  <1> SUFFICES ASSUME IInv, IInv', ReadInv, [Next]_vars PROVE ReadInv'
    OBVIOUS
  <1>1. CASE User
    BY <1>1, MoveReads, PurgeReads, SeenReads, CancelReads, ReverseReads, RecheckReads DEF User
  <1>2. CASE \E full \in BOOLEAN : Begin(full)
    BY <1>2, BeginReads
  <1>3. CASE Drain
    BY <1>3, ReloadReads, LeaseReads, SelectReads, ApplyReads, RefusalReads, RemoveReads, AppliedReads,
       DrainedReads DEF Drain
  <1>4. CASE Walk
    BY <1>4, RegisterReads, FetchReads, StoreReads, SweepReads, EndReads DEF Walk
  <1>5. CASE World
    BY <1>5, RebuildReads, ElseReads, GraceReads, FailReads, CrashReads DEF World
  <1>6. CASE UNCHANGED vars
    <2>1. UNCHANGED <<server, epoch, agent, word, queue, doubt>>
      BY <1>6 DEF vars, imap, db, history
    <2>2. Spares(queue')
      BY <2>1, QueueSpared
    <2> QED
      BY <2>1, <2>2, DeskReads DEF Spares
  <1> QED
    BY <1>1, <1>2, <1>3, <1>4, <1>5, <1>6 DEF Next

\* When nothing is queued for a message any more, nothing is being told.
LEMMA SaidIsRead == ASSUME ReadInv PROVE ReadSticks
  <1> SUFFICES ASSUME NEW m \in Msg \ doubt, word[m] = "read", AtRest(m),
                      NEW b \in Box, NEW e \in Copies(b, m)
               PROVE  e.seen
    BY DEF ReadSticks
  <1>1. ASSUME NEW i \in DOMAIN queue, Means(i, b, e), Waiting(i) \/ InHand(i) PROVE FALSE
    <2>1. queue[i].msg = m /\ queue[i].status \in Live
      BY <1>1 DEF Means, Copies, Waiting, InHand, Live
    <2>2. i \in RowsOf(m)
      BY <2>1 DEF RowsOf, Live
    <2> QED
      BY <2>1, <2>2 DEF AtRest
  <1> QED
    BY <1>1 DEF ReadInv, Said

\* A message read here is read on the server once its rows are done, whatever is filed,
\* swept, undone or tried again meanwhile (set_seen, due_queue, _queue_flag_catchup),
\* but where a move taken back was leased all the same (_lease).
THEOREM ReadStays == ASSUME ~EarlyPress PROVE Spec => []ReadSticks
  <1>1. Init => ReadInv
    BY InitReads
  <1>2. IInv /\ IInv' /\ ReadInv /\ [Next]_vars => ReadInv'
    BY NextReads
  <1>3. ReadInv => ReadSticks
    BY SaidIsRead
  <1> QED
    BY <1>1, <1>2, <1>3, UidsStand, PTL DEF Spec
=============================================================================
