---------------------------- MODULE FilingProofs ----------------------------
(* What becomes of mail that is filed, for every account and every bound.   *)
EXTENDS PlacementProofs

\* The UIDs under which a folder of the server has a message.
Uids(es, m) == {e.uid : e \in {e \in es : e.msg = m}}

\* The rows that file a message, and those of them still to be applied.
Mine(m)     == {i \in DOMAIN queue : queue[i].msg = m /\ Files(queue[i])}
AtWork(row) == Files(row) /\ row.status \in Live
Working(m)  == {i \in Mine(m) : AtWork(queue[i])}

\* A row that came to nothing, and can still be taken back.
Shelved(row) == row.status \in {"refused", "undone"} /\ ~row.undone

\* The server has the message once at most, or in this folder alone.
Lone(sv, m) ==
    \A b, c \in Box : \A u \in Uids(sv[b], m), v \in Uids(sv[c], m) : b = c /\ u = v
OnlyIn(sv, m, b) == Uids(sv[b], m) # {} /\ \A c \in Box \ {b} : Uids(sv[c], m) = {}

\* A move by hand has made its COPY, and its source is still there.
Copied(sv, ep, row) ==
    /\ row.type = "move" /\ ~offers.move /\ <<row.box, row.to>> \notin Refused
    /\ \E u : Uids(sv[row.box], row.msg) = {u} /\ (row.epoch = ep[row.box] => u = row.uid)
    /\ \E v : Uids(sv[row.to], row.msg) = {v}
    /\ \A b \in Box \ {row.box, row.to} : Uids(sv[b], row.msg) = {}

\* Of a message nothing interfered with.  A row at work is the last that files it;
LastWorks(m) == \A i \in Working(m) : \A j \in Mine(m) : j <= i

\* what a row takes away is not placed here while the row is believed;
StaysFiled(m) ==
    \A i \in Working(m) : queue[i].attempts < StuckAfter =>
        \A p \in In(m, queue[i].box) : p.uid = queue[i].uid => p.era # queue[i].epoch

\* the server has it once, but while a row is half made;
OneCopyThere(m) == Lone(server, m) \/ \E i \in Working(m) : Copied(server, epoch, queue[i])

\* a row at work leads where its user wants it, and with none it is there;
WishHeld(m) ==
    wish[m] # "none" =>
        IF Working(m) = {} THEN OnlyIn(server, m, wish[m])
        ELSE \E i \in Working(m) : queue[i].type = "move" /\ queue[i].to = wish[m]

\* a move that came to nothing left it where it was, unless it was filed since;
ShelvedHome(m) ==
    \A i \in Mine(m) :
        Shelved(queue[i]) /\ queue[i].type = "move" /\ (\A j \in Mine(m) : j <= i)
            => OnlyIn(server, m, queue[i].box)

\* and a placement ahead of the server stands beside no other in its folder, nor
\* in a folder that a row takes it out of, nor without reason.
Apart(m) == \A p, q \in Locations(m) : p.box = q.box /\ is_pending(p) => is_pending(q)
NoneHome(m) == \A i \in Working(m) : \A p \in In(m, queue[i].box) : ~is_pending(p)
Backed(m) ==
    \A p \in Locations(m) : is_pending(p) =>
        (\E i \in Working(m) : queue[i].to = p.box) \/ Uids(server[p.box], m) # {}

\* A delete leads nowhere.
Aimed(m) == \A i \in Mine(m) : queue[i].type = "delete" => queue[i].to \notin Box

Clear(m) ==
    /\ LastWorks(m) /\ StaysFiled(m) /\ OneCopyThere(m) /\ WishHeld(m) /\ ShelvedHome(m)
    /\ Apart(m) /\ NoneHome(m) /\ Backed(m) /\ Aimed(m)

\* Nothing has its place, or its UID, twice.
UidsOnce(es) == \A e, f \in es : e.uid = f.uid => e = f
PlacedOnce(ps) ==
    \A p, q \in ps : p.box = q.box /\ p.uid = q.uid /\ (is_pending(p) => p.msg = q.msg) => p = q

\* What the agent knows of the row it holds.
Held ==
    /\ agent.pc \in Holding => queue[agent.row].status = "leased"
    /\ agent.pc = "copied" => queue[agent.row].type = "move"
    /\ agent.pc \in {"selected", "copied", "applied"} =>
         LET row == queue[agent.row] IN
         row.type = "move" /\ row.msg \notin doubt =>
             /\ agent.pc = "selected" => row.uid \in Uids(server[row.box], row.msg)
             /\ agent.pc = "copied"   => Uids(server[row.to], row.msg) # {}
             /\ agent.pc = "applied"  => OnlyIn(server, row.msg, row.to)

Once ==
    /\ \A b \in Box : UidsOnce(server[b])
    /\ UidsOnce(agent.got) /\ PlacedOnce(place)

FInv ==
    /\ Once /\ Held
    /\ wish \in [Msg -> Box \cup {"none"}]
    /\ \A m \in Msg \ doubt : Clear(m)

-----------------------------------------------------------------------------
(* Steps that leave a message alone.                                       *)

\* The rows that file it keep what they say, and work on if they did.
RowSame(i) ==
    /\ queue'[i].type = queue[i].type /\ queue'[i].box = queue[i].box
    /\ queue'[i].uid = queue[i].uid /\ queue'[i].epoch = queue[i].epoch
    /\ queue'[i].to = queue[i].to
    /\ queue'[i].status \in Live <=> queue[i].status \in Live
    /\ Shelved(queue'[i]) => Shelved(queue[i])
    /\ queue[i].attempts < StuckAfter \/ ~(queue'[i].attempts < StuckAfter)
RowsSame(m) == Mine(m)' = Mine(m) /\ \A i \in Mine(m) : RowSame(i)

\* The server has it where it was, though a folder may be numbered anew.
UidsSame(m) ==
    \A b \in Box :
        \/ epoch'[b] = epoch[b] /\ Uids(server'[b], m) = Uids(server[b], m)
        \/ /\ epoch'[b] = epoch[b] + 1
           /\ Uids(server[b], m) = {} <=> Uids(server'[b], m) = {}
           /\ \A u : Uids(server[b], m) = {u} => \E v : Uids(server'[b], m) = {v}

\* A placement is one it had, or comes from the server: no placement ahead stays
\* beside it, and no row that is believed takes it away.
PlaceSame(m) ==
    \A p \in Locations(m)' :
        \/ \E q \in Locations(m) : q.box = p.box /\ q.uid = p.uid /\ q.era = p.era
        \/ /\ ~is_pending(p)
           /\ \A q \in Locations(m)' : q.box = p.box => ~is_pending(q)
           /\ \A i \in Working(m) :
                queue[i].attempts < StuckAfter /\ queue[i].box = p.box /\ queue[i].uid = p.uid
                    => p.era # queue[i].epoch

LEMMA WorkingSame ==
  ASSUME NEW m, RowsSame(m)
  PROVE  /\ Working(m)' = Working(m)
         /\ \A i \in Working(m) : i \in Mine(m) /\ RowSame(i)
BY DEF RowsSame, Working, Mine, AtWork, RowSame, Files

\* The rows are about messages and folders of this account.
LEMMA RowIs ==
  ASSUME IInv, NEW i \in DOMAIN queue
  PROVE  /\ queue \in Seq(RowSet) /\ queue[i] \in RowSet
         /\ queue[i].msg \in Msg /\ queue[i].box \in Box
         /\ queue[i].uid \in Nat \ {0} /\ queue[i].epoch \in Nat
         /\ queue[i].type = "move" => queue[i].to \in Box /\ queue[i].to # queue[i].box
  <1>1. queue \in Seq(RowSet) /\ RowGood(queue[i], purged)
    BY DEF IInv, QueueGood
  <1>2. queue[i] \in RowSet
    BY <1>1
  <1> QED
    BY <1>1, <1>2 DEF RowSet, RowGood

LEMMA MineType ==
  ASSUME IInv, NEW m \in Msg, NEW i \in Mine(m)
  PROVE  /\ i \in DOMAIN queue /\ queue[i] \in RowSet /\ queue[i].msg = m
         /\ queue[i].type \in {"move", "delete"}
         /\ queue[i].box \in Box /\ queue[i].uid \in Nat \ {0} /\ queue[i].epoch \in Nat
         /\ queue[i].epoch <= epoch[queue[i].box] /\ epoch[queue[i].box] \in Nat
         /\ queue[i].type = "move" => queue[i].to \in Box /\ queue[i].to # queue[i].box
  <1>1. i \in DOMAIN queue /\ queue[i].msg = m /\ Files(queue[i])
    BY DEF Mine
  <1>2. queue \in Seq(RowSet) /\ RowGood(queue[i], purged)
    BY <1>1 DEF IInv, QueueGood
  <1>3. queue[i] \in RowSet
    BY <1>1, <1>2
  <1>4. epoch \in [Box -> Nat]
    BY DEF IInv, ServerOK
  <1>5. queue[i].type \in {"move", "delete"}
    BY <1>1 DEF Files
  <1>6. queue[i].box \in Box /\ queue[i].uid \in Nat \ {0} /\ queue[i].epoch \in Nat
    BY <1>3 DEF RowSet
  <1>7. queue[i].epoch <= epoch[queue[i].box]
    BY <1>2 DEF RowGood, Stands
  <1>8. queue[i].type = "move" => queue[i].to \in Box /\ queue[i].to # queue[i].box
    BY <1>2 DEF RowGood
  <1> QED
    BY <1>1, <1>3, <1>4, <1>5, <1>6, <1>7, <1>8

\* In the same folders, the server has it as often.
LEMMA LoneSame ==
  ASSUME NEW m \in Msg, UidsSame(m), Lone(server, m) PROVE Lone(server', m)
  <1> SUFFICES ASSUME NEW b \in Box, NEW c \in Box, NEW u \in Uids(server'[b], m), NEW v \in Uids(server'[c], m)
               PROVE  b = c /\ u = v
    BY DEF Lone
  <1>1. Uids(server[b], m) # {} /\ Uids(server[c], m) # {}
    BY DEF UidsSame
  <1>2. PICK x \in Uids(server[b], m) : TRUE
    BY <1>1
  <1>3. b = c /\ Uids(server[b], m) = {x}
    BY <1>1, <1>2 DEF Lone
  <1>4. u = v
    BY <1>3 DEF UidsSame
  <1> QED
    BY <1>3, <1>4

LEMMA OnlySame ==
  ASSUME NEW m \in Msg, NEW b \in Box, UidsSame(m), OnlyIn(server, m, b) PROVE OnlyIn(server', m, b)
  <1>1. \A c \in Box : Uids(server'[c], m) = {} <=> Uids(server[c], m) = {}
    BY DEF UidsSame
  <1> QED
    BY <1>1 DEF OnlyIn

LEMMA CopiedSame ==
  ASSUME IInv, NEW m \in Msg, RowsSame(m), UidsSame(m), offers' = offers,
         NEW i \in Working(m), Copied(server, epoch, queue[i])
  PROVE  Copied(server', epoch', queue'[i])
  <1> DEFINE row == queue[i]
  <1>1. /\ row.box \in Box
        /\ row.type = "move" => row.to \in Box
        /\ row.epoch \in Nat /\ row.epoch <= epoch[row.box] /\ epoch[row.box] \in Nat
        /\ row.msg = m /\ i \in Mine(m)
    BY MineType DEF Working
  <1>2. /\ queue'[i].type = row.type /\ queue'[i].box = row.box /\ queue'[i].uid = row.uid
        /\ queue'[i].epoch = row.epoch /\ queue'[i].to = row.to
    BY <1>1 DEF RowsSame, RowSame
  <1>3. queue'[i].msg = m
    BY <1>1 DEF RowsSame, Mine
  <1>4. row.type = "move" /\ row.to \in Box
    BY <1>1 DEF Copied
  <1>5. \E u : Uids(server'[row.box], m) = {u} /\ (row.epoch = epoch'[row.box] => u = row.uid)
    <2>1. PICK u : Uids(server[row.box], m) = {u} /\ (row.epoch = epoch[row.box] => u = row.uid)
      BY <1>1 DEF Copied
    <2>2. CASE epoch'[row.box] = epoch[row.box] /\ Uids(server'[row.box], m) = Uids(server[row.box], m)
      BY <2>1, <2>2
    <2>3. CASE epoch'[row.box] = epoch[row.box] + 1 /\ \E v : Uids(server'[row.box], m) = {v}
      <3>1. row.epoch # epoch'[row.box]
        BY <1>1, <2>3
      <3> QED
        BY <2>3, <3>1
    <2>4. \/ epoch'[row.box] = epoch[row.box] /\ Uids(server'[row.box], m) = Uids(server[row.box], m)
          \/ epoch'[row.box] = epoch[row.box] + 1 /\ \E v : Uids(server'[row.box], m) = {v}
      BY <1>1, <2>1 DEF UidsSame
    <2> QED
      BY <2>2, <2>3, <2>4
  <1>6. \E v : Uids(server'[row.to], m) = {v}
    BY <1>1, <1>4 DEF Copied, UidsSame
  <1>7. \A b \in Box \ {row.box, row.to} : Uids(server'[b], m) = {}
    BY <1>1 DEF Copied, UidsSame
  <1>8. ~offers'.move /\ <<row.box, row.to>> \notin Refused
    BY DEF Copied
  <1> QED
    BY <1>2, <1>3, <1>4, <1>5, <1>6, <1>7, <1>8 DEF Copied

\* A step that leaves a message alone leaves it clear.
LEMMA QuietClear ==
  ASSUME IInv, NEW m \in Msg, Clear(m), RowsSame(m), UidsSame(m), PlaceSame(m),
         offers' = offers, wish'[m] = wish[m], wish[m] \in Box \cup {"none"}
  PROVE  Clear(m)'
  <1>1. /\ Working(m)' = Working(m) /\ Mine(m)' = Mine(m)
        /\ \A i \in Mine(m) : RowSame(i) /\ queue[i].msg = m /\ queue[i].box \in Box
        /\ \A i \in Mine(m) : queue[i].uid # 0
    BY WorkingSame, MineType DEF RowsSame
  <1>2. Working(m) \subseteq Mine(m)
    BY DEF Working
  <1>3. LastWorks(m)'
    BY <1>1 DEF Clear, LastWorks
  <1>4. StaysFiled(m)'
    <2> SUFFICES ASSUME NEW i \in Working(m), queue'[i].attempts < StuckAfter,
                        NEW p \in Locations(m)', p.box = queue'[i].box, p.uid = queue'[i].uid
                 PROVE  p.era # queue'[i].epoch
      BY <1>1 DEF StaysFiled, In
    <2>1. /\ queue[i].attempts < StuckAfter /\ p.box = queue[i].box /\ p.uid = queue[i].uid
          /\ queue'[i].epoch = queue[i].epoch
      BY <1>1, <1>2 DEF RowSame
    <2>2. ASSUME NEW q \in Locations(m), q.box = p.box, q.uid = p.uid, q.era = p.era
          PROVE  p.era # queue[i].epoch
      BY <2>1, <2>2 DEF Clear, StaysFiled, In
    <2> QED
      BY <2>1, <2>2 DEF PlaceSame
  <1>5. OneCopyThere(m)'
    <2>1. CASE Lone(server, m)
      BY <2>1, LoneSame DEF OneCopyThere
    <2>2. ASSUME NEW i \in Working(m), Copied(server, epoch, queue[i]) PROVE OneCopyThere(m)'
      <3>1. Copied(server', epoch', queue'[i])
        BY <2>2, CopiedSame
      <3>2. Copied(server, epoch, queue[i])'
        BY <3>1 DEF Copied
      <3> HIDE DEF Copied
      <3> QED
        BY <1>1, <3>1, <3>2 DEF OneCopyThere
    <2> QED
      BY <2>1, <2>2 DEF Clear, OneCopyThere
  <1>6. WishHeld(m)'
    <2> SUFFICES ASSUME wish[m] # "none"
                 PROVE  IF Working(m) = {} THEN OnlyIn(server', m, wish[m])
                        ELSE \E i \in Working(m) : queue'[i].type = "move" /\ queue'[i].to = wish[m]
      BY <1>1 DEF WishHeld
    <2>1. CASE Working(m) = {}
      BY <2>1, OnlySame DEF Clear, WishHeld
    <2>2. CASE Working(m) # {}
      BY <1>1, <1>2, <2>2 DEF Clear, WishHeld, RowSame
    <2> QED
      BY <2>1, <2>2
  <1>7. ShelvedHome(m)'
    <2> SUFFICES ASSUME NEW i \in Mine(m), Shelved(queue'[i]), queue'[i].type = "move",
                        \A j \in Mine(m) : j <= i
                 PROVE  OnlyIn(server', m, queue'[i].box)
      BY <1>1 DEF ShelvedHome, Shelved
    <2>1. Shelved(queue[i]) /\ queue[i].type = "move" /\ queue'[i].box = queue[i].box
      BY <1>1 DEF RowSame
    <2>2. OnlyIn(server, m, queue[i].box)
      BY <2>1 DEF Clear, ShelvedHome
    <2>3. OnlyIn(server', m, queue[i].box)
      BY <1>1, <2>2, OnlySame
    <2> QED
      BY <2>1, <2>3
  <1>8. Apart(m)'
    BY DEF Clear, Apart, PlaceSame, is_pending
  <1>9. NoneHome(m)'
    <2> SUFFICES ASSUME NEW i \in Working(m), NEW p \in Locations(m)', p.box = queue'[i].box
                 PROVE  ~is_pending(p)
      BY <1>1 DEF NoneHome, In
    <2>1. p.box = queue[i].box
      BY <1>1, <1>2 DEF RowSame
    <2> QED
      BY <2>1 DEF Clear, NoneHome, In, PlaceSame, is_pending
  <1>10. Backed(m)'
    <2> SUFFICES ASSUME NEW p \in Locations(m)', is_pending(p)
                 PROVE  (\E i \in Working(m) : queue'[i].to = p.box) \/ Uids(server'[p.box], m) # {}
      BY <1>1 DEF Backed
    <2>1. PICK q \in Locations(m) : q.box = p.box /\ q.uid = p.uid
      BY DEF PlaceSame
    <2>2. is_pending(q) /\ q.box \in Box
      BY <2>1 DEF is_pending, IInv, PlaceGood, PlaceSet, Locations
    <2>3. (\E i \in Working(m) : queue[i].to = p.box) \/ Uids(server[p.box], m) # {}
      BY <2>1, <2>2 DEF Clear, Backed
    <2> QED
      BY <1>1, <1>2, <2>1, <2>2, <2>3 DEF RowSame, UidsSame
  <1>11. Aimed(m)'
    BY <1>1 DEF Clear, Aimed, RowSame
  <1> QED
    BY <1>3, <1>4, <1>5, <1>6, <1>7, <1>8, <1>9, <1>10, <1>11 DEF Clear

\* Rows carried over, with none added that files mail.
LEMMA RowsCarried ==
  ASSUME NEW m, DOMAIN queue \subseteq DOMAIN queue',
         \A i \in DOMAIN queue :
            /\ queue'[i].msg = queue[i].msg /\ queue'[i].type = queue[i].type
            /\ queue[i].msg = m /\ Files(queue[i]) => RowSame(i),
         \A i \in DOMAIN queue' \ DOMAIN queue : ~Files(queue'[i])
  PROVE  RowsSame(m)
  <1>1. Mine(m)' = {i \in DOMAIN queue' : queue'[i].msg = m /\ Files(queue'[i])}
    BY DEF Mine
  <1>2. \A i \in DOMAIN queue : Files(queue'[i]) <=> Files(queue[i])
    BY DEF Files
  <1>3. Mine(m)' = Mine(m)
    BY <1>1, <1>2 DEF Mine
  <1> QED
    BY <1>3 DEF RowsSame, Mine

LEMMA RowsKept == ASSUME NEW m, UNCHANGED queue PROVE RowsSame(m)
BY DEF RowsSame, RowSame, Mine

\* One row rewritten, of another message or of another kind, or much as it was.
LEMMA RowsButOne ==
  ASSUME IInv, NEW m, NEW i \in DOMAIN queue, NEW r, queue' = [queue EXCEPT ![i] = r],
         r.msg = queue[i].msg, r.type = queue[i].type,
         r.msg = m /\ Files(queue[i]) => RowSame(i)
  PROVE  RowsSame(m)
  <1>1. /\ DOMAIN queue' = DOMAIN queue
        /\ queue'[i] = r /\ \A j \in DOMAIN queue : j # i => queue'[j] = queue[j]
    OBVIOUS
  <1>2. ASSUME NEW j \in DOMAIN queue
        PROVE  /\ queue'[j].msg = queue[j].msg /\ queue'[j].type = queue[j].type
               /\ queue[j].msg = m /\ Files(queue[j]) => RowSame(j)
    <2>1. CASE j = i
      BY <1>1, <2>1
    <2>2. CASE j # i
      BY <1>1, <2>2 DEF RowSame
    <2> QED
      BY <2>1, <2>2
  <1> QED
    BY <1>1, <1>2, RowsCarried

\* The queue grows at its end, whatever is put there.
LEMMA Joined ==
  ASSUME NEW S, NEW q \in Seq(S), NEW n \in Nat, NEW new, new = [j \in 1..n |-> new[j]],
         NEW rows, rows = q \o new
  PROVE  /\ DOMAIN q = 1..Len(q) /\ Len(q) \in Nat
         /\ DOMAIN rows = 1..(Len(q) + n)
         /\ \A i \in 1..(Len(q) + n) : rows[i] = IF i <= Len(q) THEN q[i] ELSE new[i - Len(q)]
  <1> DEFINE U == S \cup {new[j] : j \in 1..n}
  <1>1. new \in [1..n -> U]
    OBVIOUS
  <1>2. q \in Seq(U)
    OBVIOUS
  <1> HIDE DEF U
  <1>3. new \in Seq(U) /\ Len(new) = n
    BY <1>1
  <1> QED
    BY <1>2, <1>3

\* Flags are queued beside them.
LEMMA RowsBeside ==
  ASSUME IInv, NEW m, NEW n \in Nat, NEW new, new = [j \in 1..n |-> new[j]],
         \A j \in 1..n : ~Files(new[j]), queue' = queue \o new
  PROVE  RowsSame(m)
  <1>1. queue \in Seq(RowSet)
    BY DEF IInv, QueueGood
  <1>2. /\ DOMAIN queue \subseteq DOMAIN queue'
        /\ \A i \in DOMAIN queue : queue'[i] = queue[i]
        /\ \A i \in DOMAIN queue' \ DOMAIN queue : \E j \in 1..n : queue'[i] = new[j]
    <2>1. /\ DOMAIN queue = 1..Len(queue) /\ Len(queue) \in Nat
          /\ DOMAIN queue' = 1..(Len(queue) + n)
          /\ \A i \in 1..(Len(queue) + n) :
               queue'[i] = IF i <= Len(queue) THEN queue[i] ELSE new[i - Len(queue)]
      BY <1>1, Joined
    <2> QED
      BY <2>1
  <1>3. \A i \in DOMAIN queue : RowSame(i)
    BY <1>2 DEF RowSame
  <1> QED
    BY <1>2, <1>3, RowsCarried

LEMMA UidsKept == ASSUME NEW m, UNCHANGED <<server, epoch>> PROVE UidsSame(m)
BY DEF UidsSame

LEMMA PlaceKept == ASSUME NEW m, place' \subseteq place PROVE PlaceSame(m)
BY DEF PlaceSame, Locations

\* The row the agent holds, and its message on the server, as they were.
LEMMA HeldKept ==
  ASSUME IInv, Held, agent'.pc = agent.pc, agent'.row = agent.row, doubt \subseteq doubt',
         agent.pc \in Holding =>
             /\ queue'[agent.row].type = queue[agent.row].type
             /\ queue'[agent.row].msg = queue[agent.row].msg
             /\ queue'[agent.row].box = queue[agent.row].box
             /\ queue'[agent.row].uid = queue[agent.row].uid
             /\ queue'[agent.row].to = queue[agent.row].to
             /\ queue'[agent.row].status = queue[agent.row].status,
         agent.pc \in {"selected", "copied", "applied"}
           /\ queue[agent.row].msg \notin doubt' =>
             \A b \in Box : Uids(server'[b], queue[agent.row].msg) = Uids(server[b], queue[agent.row].msg)
  PROVE  Held'
  <1> DEFINE row == queue[agent.row]
  <1>1. (agent.pc \in Holding => queue[agent.row].status = "leased")'
    BY DEF Held
  <1>2. (agent.pc = "copied" => queue[agent.row].type = "move")'
    BY DEF Held, Holding
  <1>3. ASSUME agent.pc \in {"selected", "copied", "applied"}, row.type = "move", row.msg \notin doubt'
        PROVE  /\ agent.pc = "selected" => row.uid \in Uids(server'[row.box], row.msg)
               /\ agent.pc = "copied"   => Uids(server'[row.to], row.msg) # {}
               /\ agent.pc = "applied"  => OnlyIn(server', row.msg, row.to)
    <2>1. agent.row \in DOMAIN queue
      BY <1>3 DEF IInv, AgentOK, Holding
    <2>2. row.box \in Box /\ row.to \in Box
      BY <1>3, <2>1, RowIs
    <2>3. /\ agent.pc = "selected" => row.uid \in Uids(server[row.box], row.msg)
          /\ agent.pc = "copied"   => Uids(server[row.to], row.msg) # {}
          /\ agent.pc = "applied"  => OnlyIn(server, row.msg, row.to)
      BY <1>3 DEF Held
    <2>4. \A b \in Box : Uids(server'[b], row.msg) = Uids(server[b], row.msg)
      BY <1>3
    <2> HIDE DEF row
    <2> QED
      BY <2>2, <2>3, <2>4 DEF OnlyIn
  <1> QED
    BY <1>1, <1>2, <1>3 DEF Held, Holding

LEMMA HeldLoose == ASSUME agent'.pc \notin Holding PROVE Held'
BY DEF Held, Holding

\* A step that leaves alone every message it does not cast doubt on.
LEMMA QuietStep ==
  ASSUME IInv, FInv, Once', Held', UNCHANGED <<wish, offers>>, doubt \subseteq doubt',
         \A m \in Msg \ doubt' : RowsSame(m) /\ UidsSame(m) /\ PlaceSame(m)
  PROVE  FInv'
  <1>1. ASSUME NEW m \in Msg \ doubt' PROVE Clear(m)'
    <2>1. Clear(m) /\ wish[m] \in Box \cup {"none"}
      BY DEF FInv
    <2> QED
      BY <2>1, QuietClear
  <1> QED
    BY <1>1 DEF FInv

\* The same, where the server and the placements are not touched.
LEMMA StillStep ==
  ASSUME IInv, FInv, Held', UidsOnce(agent'.got),
         UNCHANGED <<server, epoch, place, wish, offers>>, doubt \subseteq doubt',
         \A m \in Msg \ doubt' : RowsSame(m)
  PROVE  FInv'
  <1>1. Once'
    BY DEF FInv, Once
  <1> QED
    BY <1>1, UidsKept, PlaceKept, QuietStep

-----------------------------------------------------------------------------
(* Steps of the agent that file nothing.                                   *)

LEMMA RecheckF == ASSUME IInv, FInv, request_recheck PROVE FInv'
  <1>1. UNCHANGED <<server, epoch, offers, place, queue, agent, wish, doubt>>
    BY DEF request_recheck, imap, history
  <1>2. Held'
    BY <1>1, HeldKept DEF FInv
  <1> QED
    BY <1>1, <1>2, RowsKept, StillStep DEF FInv, Once

LEMMA BeginF == ASSUME IInv, FInv, NEW full \in BOOLEAN, Begin(full) PROVE FInv'
  <1>1. UNCHANGED <<server, epoch, offers, place, queue, wish, doubt>>
    BY DEF Begin, imap, db, history
  <1>2. agent'.pc \in {"drain", "picked"} /\ agent'.got = {}
    BY DEF Begin, Idle
  <1>3. Held' /\ UidsOnce(agent'.got)
    BY <1>2, HeldLoose DEF Holding, UidsOnce
  <1> QED
    BY <1>1, <1>3, RowsKept, StillStep

LEMMA CrashF == ASSUME IInv, FInv, Crash PROVE FInv'
  <1>1. UNCHANGED <<server, epoch, offers, place, queue, wish, doubt>>
    BY DEF Crash, imap, db
  <1>2. agent'.pc = "idle" /\ agent'.got = {}
    BY DEF Crash, Idle
  <1>3. Held' /\ UidsOnce(agent'.got)
    BY <1>2, HeldLoose DEF Holding, UidsOnce
  <1> QED
    BY <1>1, <1>3, RowsKept, StillStep

LEMMA EndF == ASSUME IInv, FInv, EndPass PROVE FInv'
  <1>1. UNCHANGED <<server, epoch, offers, place, queue, wish, doubt>>
    BY DEF EndPass, imap, history
  <1>2. agent'.pc = "idle" /\ agent'.got = {}
    BY DEF EndPass, Idle
  <1>3. Held' /\ UidsOnce(agent'.got)
    BY <1>2, HeldLoose DEF Holding, UidsOnce
  <1> QED
    BY <1>1, <1>3, RowsKept, StillStep

LEMMA DrainedF == ASSUME IInv, FInv, Drained PROVE FInv'
  <1>1. UNCHANGED <<server, epoch, offers, place, queue, wish, doubt>>
    BY DEF Drained, imap, db, history
  <1>2. agent'.pc = "walk" /\ agent'.got = agent.got
    BY DEF Drained, IInv, AgentOK, AgentSet
  <1>3. Held' /\ UidsOnce(agent'.got)
    BY <1>2, HeldLoose DEF Holding, FInv, Once
  <1> QED
    BY <1>1, <1>3, RowsKept, StillStep

LEMMA RegisterF == ASSUME IInv, FInv, NEW b \in Box, register_folder(b) PROVE FInv'
  <1>1. UNCHANGED <<server, epoch, offers, place, queue, wish, doubt>>
    BY DEF register_folder, imap, history
  <1>2. agent'.pc = "opened" /\ agent'.got = agent.got
    BY DEF register_folder, IInv, AgentOK, AgentSet
  <1>3. Held' /\ UidsOnce(agent'.got)
    BY <1>2, HeldLoose DEF Holding, FInv, Once
  <1> QED
    BY <1>1, <1>3, RowsKept, StillStep

\* What a folder lists names no message twice.
LEMMA FetchF == ASSUME IInv, FInv, FetchNew \/ ListFolder PROVE FInv'
  <1>1. UNCHANGED <<server, epoch, offers, place, queue, wish, doubt>>
    BY DEF FetchNew, ListFolder, imap, db, history
  <1>2. agent.box \in Box /\ agent \in AgentSet
    BY DEF IInv, AgentOK, AgentSet
  <1>3. agent'.pc \notin Holding /\ agent'.got \subseteq server[agent.box]
    <2>1. CASE FetchNew
      <3>1. PICK new \in Listing({e \in server[agent.box] : e.uid > mailbox[agent.box].last}) :
              agent' = [agent EXCEPT !.got = new, !.pc = IF new = {} THEN Onward ELSE "fetched"]
        BY <2>1 DEF FetchNew
      <3>2. new \subseteq server[agent.box]
        BY <3>1 DEF Listing
      <3> QED
        BY <1>2, <3>1, <3>2 DEF AgentSet, Holding, Onward
    <2>2. CASE ListFolder
      <3>1. PICK listed \in Listing(server[agent.box]) :
              agent' = [agent EXCEPT !.pc = "listed", !.got = listed]
        BY <2>2 DEF ListFolder
      <3>2. listed \subseteq server[agent.box]
        BY <3>1 DEF Listing
      <3> QED
        BY <1>2, <3>1, <3>2 DEF AgentSet, Holding
    <2> QED
      BY <2>1, <2>2
  <1>4. UidsOnce(agent'.got)
    BY <1>2, <1>3 DEF FInv, Once, UidsOnce
  <1> QED
    BY <1>1, <1>3, <1>4, HeldLoose, RowsKept, StillStep

LEMMA GraceF == ASSUME IInv, FInv, NEW i \in DOMAIN queue, GraceEnds(i) PROVE FInv'
  <1> DEFINE r == [queue[i] EXCEPT !.fresh = FALSE]
  <1>1. UNCHANGED <<server, epoch, offers, place, agent, wish, doubt>>
    BY DEF GraceEnds, imap, history
  <1>2. queue[i] \in RowSet
    BY RowIs
  <1>3. queue' = [queue EXCEPT ![i] = r]
    BY DEF GraceEnds
  <1>4. /\ r.msg = queue[i].msg /\ r.type = queue[i].type /\ r.box = queue[i].box
        /\ r.uid = queue[i].uid /\ r.epoch = queue[i].epoch /\ r.to = queue[i].to
        /\ r.status = queue[i].status /\ r.attempts = queue[i].attempts
        /\ r.undone = queue[i].undone
    BY <1>2 DEF RowSet
  <1> HIDE DEF r
  <1>5. RowSame(i)
    BY <1>3, <1>4 DEF RowSame, Shelved
  <1>6. \A m \in Msg : RowsSame(m)
    BY <1>3, <1>4, <1>5, RowsButOne
  <1>7. Held'
    <2>1. \A j \in DOMAIN queue : queue'[j] = IF j = i THEN r ELSE queue[j]
      BY <1>3
    <2>2. agent.pc \in Holding => agent.row \in DOMAIN queue
      BY DEF IInv, AgentOK
    <2> QED
      BY <1>1, <1>4, <2>1, <2>2, HeldKept DEF FInv
  <1> QED
    BY <1>1, <1>6, <1>7, StillStep DEF FInv, Once

LEMMA ReloadF == ASSUME IInv, FInv, Reload PROVE FInv'
  <1>1. UNCHANGED <<server, epoch, offers, place, queue, wish, doubt>>
    BY DEF Reload, imap, db, history
  <1>2. agent'.pc \in {"idle", "picked", "drain"} /\ agent'.got \in {agent.got, {}}
    BY DEF Reload, Idle, IInv, AgentOK, AgentSet
  <1>3. Held' /\ UidsOnce(agent'.got)
    BY <1>2, HeldLoose DEF Holding, FInv, Once, UidsOnce
  <1> QED
    BY <1>1, <1>3, RowsKept, StillStep

\* A row that was at work is at work; any other is of a message now in doubt.
LEMMA LeaseF == ASSUME IInv, FInv, Lease PROVE FInv'
  <1> DEFINE i == NextRow
             r == [queue[i] EXCEPT !.status = "leased"]
  <1>1. UNCHANGED <<server, epoch, offers, place, wish>>
    BY DEF Lease, imap
  <1>2. agent \in AgentSet /\ agent.todo # {} /\ agent.pc = "picked"
    BY DEF Lease, IInv, AgentOK
  <1>3. i \in DOMAIN queue /\ queue[i] \in RowSet
    BY <1>2, NextIs
  <1>4. CASE Takes(i)
    <2>1. queue' = [queue EXCEPT ![i] = r]
      BY <1>3, <1>4 DEF Lease
    <2>2. /\ r.msg = queue[i].msg /\ r.type = queue[i].type /\ r.box = queue[i].box
          /\ r.uid = queue[i].uid /\ r.epoch = queue[i].epoch /\ r.to = queue[i].to
          /\ r.status = "leased" /\ r.attempts = queue[i].attempts
          /\ r.undone = queue[i].undone
      BY <1>3 DEF RowSet
    <2>3. agent'.pc = "leased" /\ agent'.row = i /\ agent'.got = agent.got
      BY <1>2, <1>4 DEF Lease, AgentSet
    <2>4. doubt \subseteq doubt' /\ (queue[i].status \in Live \/ queue[i].msg \in doubt')
      BY <1>4 DEF Lease
    <2> HIDE DEF i, r
    <2>5. queue'[i] = r
      BY <1>3, <2>1
    <2>6. queue[i].status \in Live => RowSame(i)
      BY <2>2, <2>5 DEF RowSame, Shelved, Live
    <2>7. \A m \in Msg \ doubt' : RowsSame(m)
      BY <1>3, <2>1, <2>2, <2>4, <2>6, RowsButOne
    <2>8. Held'
      BY <2>2, <2>3, <2>5 DEF Held
    <2> QED
      BY <1>1, <2>3, <2>4, <2>7, <2>8, StillStep DEF FInv, Once
  <1>5. CASE ~Takes(i)
    <2>1. agent'.pc = "drain" /\ agent'.got = agent.got /\ UNCHANGED <<queue, doubt>>
      BY <1>2, <1>5 DEF Lease, AgentSet
    <2>2. Held'
      BY <2>1, HeldLoose DEF Holding
    <2> QED
      BY <1>1, <2>1, <2>2, RowsKept, StillStep DEF FInv, Once
  <1> QED
    BY <1>4, <1>5

\* The end of an attempt that failed.
LEMMA FailedF ==
  ASSUME IInv, FInv, agent.pc \in Holding, Settle("failed"),
         UNCHANGED <<server, epoch, offers>>, doubt \subseteq doubt'
  PROVE  FInv'
  <1> DEFINE i == agent.row
             n == IF queue[i].attempts < StuckAfter THEN queue[i].attempts + 1
                  ELSE queue[i].attempts
             r == [queue[i] EXCEPT !.status = "pending", !.attempts = n]
  <1>1. i \in DOMAIN queue /\ queue[i].status = "leased" /\ agent \in AgentSet
    BY DEF IInv, AgentOK, FInv, Held
  <1>2. queue[i] \in RowSet
    BY <1>1, RowIs
  <1>3. queue' = [queue EXCEPT ![i] = r]
    BY <1>1, <1>2 DEF Settle, RowSet
  <1>4. /\ r.msg = queue[i].msg /\ r.type = queue[i].type /\ r.box = queue[i].box
        /\ r.uid = queue[i].uid /\ r.epoch = queue[i].epoch /\ r.to = queue[i].to
        /\ r.status = "pending" /\ r.attempts = n
    BY <1>2 DEF RowSet
  <1>5. UNCHANGED <<place, wish>>
    BY DEF Settle
  <1>6. agent'.pc = "drain" /\ agent'.got = agent.got
    BY <1>1 DEF Settle, Goto, AgentSet
  <1>7. queue[i].attempts < StuckAfter \/ ~(n < StuckAfter)
    OBVIOUS
  <1> HIDE DEF r, n, i
  <1>8. RowSame(i)
    BY <1>1, <1>3, <1>4, <1>7 DEF RowSame, Shelved, Live
  <1>9. \A m \in Msg : RowsSame(m)
    BY <1>1, <1>3, <1>4, <1>8, RowsButOne
  <1>10. Held'
    BY <1>6, HeldLoose DEF Holding
  <1> QED
    BY <1>5, <1>6, <1>9, <1>10, StillStep DEF FInv, Once

LEMMA FailF == ASSUME IInv, FInv, Fail PROVE FInv'
  <1>1. UNCHANGED <<server, epoch, offers, doubt>> /\ agent.pc \in Holding /\ Settle("failed")
    BY DEF Fail, imap, Holding
  <1> QED
    BY <1>1, FailedF

-----------------------------------------------------------------------------
(* Flags, and the walk.                                                    *)

\* A placement keeps its place when it is marked.
LEMMA SeenF ==
  ASSUME IInv, FInv, NEW m \in Msg, NEW b \in BOOLEAN, set_seen(m, b) PROVE FInv'
  <1> DEFINE stale == {p \in Locations(m) : p.seen # b}
             T == {p \in stale : ~is_pending(p)}
             told == SetToSeq(T)
             new == [i \in DOMAIN told |->
                       Row("setflags", told[i], mailbox[told[i].box].epoch, "none", b)]
             flag == [p \in stale |-> [p EXCEPT !.seen = b]]
  <1>1. /\ place' = (place \ stale) \cup {[p EXCEPT !.seen = b] : p \in stale}
        /\ queue' = queue \o new
        /\ UNCHANGED <<server, epoch, offers, agent, wish, doubt>>
    BY DEF set_seen, imap
  <1>2. stale \subseteq place /\ place \subseteq PlaceSet /\ IsFiniteSet(T)
    <2>1. stale \subseteq place /\ T \subseteq place
      BY DEF Locations
    <2> QED
      BY <2>1, FS_Subset DEF IInv, PlaceGood
  <1>3. \A x \in Msg : RowsSame(x)
    <2> DEFINE n == Cardinality(T)
    <2>1. n \in Nat /\ told \in [1..n -> T]
      BY <1>2, SetToSeqType, FS_CardinalityType
    <2> HIDE DEF T, told, n
    <2>2. new = [j \in 1..n |-> new[j]] /\ \A j \in 1..n : ~Files(new[j])
      BY <2>1 DEF Row, Files
    <2> HIDE DEF new
    <2>3. queue' = queue \o new
      BY <1>1 DEF new
    <2> QED
      BY <2>1, <2>2, <2>3, RowsBeside
  <1>4. \A p \in stale : /\ flag[p].uid = p.uid /\ flag[p].msg = p.msg
                         /\ flag[p].box = p.box /\ flag[p].era = p.era
    BY <1>2 DEF PlaceSet
  <1>5. place' = (place \ stale) \cup {flag[p] : p \in stale}
    BY <1>1
  <1> HIDE DEF flag, stale
  <1>6. \A p \in place' : \E x \in place :
          /\ x.uid = p.uid /\ x.msg = p.msg /\ x.box = p.box /\ x.era = p.era
          /\ p = IF x \in stale THEN flag[x] ELSE x
    BY <1>2, <1>4, <1>5
  <1>7. PlacedOnce(place')
    <2> SUFFICES ASSUME NEW p \in place', NEW q \in place', p.box = q.box, p.uid = q.uid,
                        is_pending(p) => p.msg = q.msg
                 PROVE  p = q
      BY DEF PlacedOnce
    <2>1. PICK x \in place : /\ x.uid = p.uid /\ x.msg = p.msg /\ x.box = p.box
                             /\ p = IF x \in stale THEN flag[x] ELSE x
      BY <1>6
    <2>2. PICK y \in place : /\ y.uid = q.uid /\ y.msg = q.msg /\ y.box = q.box
                             /\ q = IF y \in stale THEN flag[y] ELSE y
      BY <1>6
    <2>3. x = y
      BY <2>1, <2>2 DEF FInv, Once, PlacedOnce, is_pending
    <2> QED
      BY <2>1, <2>2, <2>3
  <1>8. \A x \in Msg : PlaceSame(x)
    BY <1>6 DEF PlaceSame, Locations
  <1>9. Once'
    BY <1>1, <1>7 DEF FInv, Once
  <1>10. Held'
    <2>1. agent.pc \in Holding => agent.row \in DOMAIN queue
      BY DEF IInv, AgentOK
    <2>2. \A i \in DOMAIN queue : queue'[i] = queue[i]
      BY <1>1 DEF IInv, QueueGood
    <2> QED
      BY <1>1, <2>1, <2>2, HeldKept DEF FInv
  <1> QED
    BY <1>1, <1>3, <1>8, <1>9, <1>10, UidsKept, QuietStep

\* What is stored comes with the folder's epoch, and ousts what stood ahead.
LEMMA UpsertedPlaces ==
  ASSUME NEW ps, PlacedOnce(ps), NEW b \in Box, NEW got \in SUBSET EntrySet, UidsOnce(got)
  PROVE  LET qs == Upserted(ps, b, got) IN
         /\ PlacedOnce(qs)
         /\ \A p \in qs :
              \/ p \in ps
              \/ /\ ~is_pending(p) /\ p.box = b /\ p.era = mailbox[b].epoch
                 /\ \E e \in got : p.uid = e.uid /\ p.msg = e.msg
                 /\ \A q \in qs : q.msg = p.msg /\ q.box = b => ~is_pending(q)
  <1> DEFINE ousted(p) == p.box = b /\ \E e \in got : p.uid = e.uid \/ (is_pending(p) /\ p.msg = e.msg)
             kept == {p \in ps : ~ousted(p)}
             new(e) == At(e.msg, b, e.uid, e.seen \/ Inherits(ps, b, e), mailbox[b].epoch)
             qs == Upserted(ps, b, got)
  <1>1. qs = kept \cup {new(e) : e \in got}
    BY DEF Upserted
  <1>2. \A e \in got : /\ new(e).msg = e.msg /\ new(e).box = b /\ new(e).uid = e.uid
                       /\ new(e).era = mailbox[b].epoch /\ e.uid # 0
    BY DEF At, EntrySet
  <1> HIDE DEF qs, new
  <1>3. \A p \in qs : p \in kept \/ \E e \in got : p = new(e)
    BY <1>1
  <1>4. PlacedOnce(qs)
    <2> SUFFICES ASSUME NEW p \in qs, NEW q \in qs, p.box = q.box, p.uid = q.uid,
                        is_pending(p) => p.msg = q.msg
                 PROVE  p = q
      BY DEF PlacedOnce
    <2>1. CASE p \in kept /\ q \in kept
      BY <2>1 DEF PlacedOnce
    <2>2. ASSUME NEW e \in got, p = new(e), q \in kept PROVE FALSE
      BY <1>2, <2>2
    <2>3. ASSUME NEW e \in got, q = new(e), p \in kept PROVE FALSE
      BY <1>2, <2>3
    <2>4. ASSUME NEW e \in got, NEW d \in got, p = new(e), q = new(d) PROVE p = q
      BY <1>2, <2>4 DEF UidsOnce
    <2> QED
      BY <1>3, <2>1, <2>2, <2>3, <2>4
  <1>5. ASSUME NEW e \in got, NEW q \in qs, q.msg = e.msg, q.box = b PROVE ~is_pending(q)
    <2>1. CASE q \in kept
      BY <1>5, <2>1
    <2>2. ASSUME NEW d \in got, q = new(d) PROVE ~is_pending(q)
      BY <1>2, <2>2 DEF is_pending, Ahead
    <2> QED
      BY <1>3, <2>1, <2>2
  <1>6. ASSUME NEW p \in qs
        PROVE  \/ p \in ps
               \/ /\ ~is_pending(p) /\ p.box = b /\ p.era = mailbox[b].epoch
                  /\ \E e \in got : p.uid = e.uid /\ p.msg = e.msg
                  /\ \A q \in qs : q.msg = p.msg /\ q.box = b => ~is_pending(q)
    <2>1. CASE p \in kept
      BY <2>1
    <2>2. ASSUME NEW e \in got, p = new(e)
          PROVE  /\ ~is_pending(p) /\ p.box = b /\ p.era = mailbox[b].epoch
                 /\ \E d \in got : p.uid = d.uid /\ p.msg = d.msg
                 /\ \A q \in qs : q.msg = p.msg /\ q.box = b => ~is_pending(q)
      <3>1. p.msg = e.msg /\ p.box = b /\ p.uid = e.uid /\ p.era = mailbox[b].epoch /\ e.uid # 0
        BY <1>2, <2>2
      <3> QED
        BY <1>5, <3>1 DEF is_pending, Ahead
    <2> QED
      BY <1>3, <2>1, <2>2
  <1> QED
    BY <1>4, <1>6 DEF qs

LEMMA CatchUpBeside ==
  ASSUME IInv, NEW ps, NEW b, NEW got, IsFiniteSet(got),
         NEW rows, rows = queue \o CatchUp(ps, b, got)
  PROVE  /\ DOMAIN queue \subseteq DOMAIN rows
         /\ \A i \in DOMAIN queue : rows[i] = queue[i]
         /\ \A i \in DOMAIN rows \ DOMAIN queue : ~Files(rows[i])
  <1> DEFINE B == {e \in got : ~e.seen /\ Inherits(ps, b, e)}
             behind == SetToSeq(B)
             new == [i \in DOMAIN behind |->
                       Row("setflags", At(behind[i].msg, b, behind[i].uid, TRUE, 0),
                           mailbox[b].epoch, "none", TRUE)]
             n == Cardinality(B)
  <1>1. rows = queue \o new
    BY DEF CatchUp
  <1>2. IsFiniteSet(B)
    BY FS_Subset
  <1> HIDE DEF B
  <1>3. n \in Nat /\ behind \in [1..n -> B]
    BY <1>2, SetToSeqType, FS_CardinalityType
  <1> HIDE DEF behind, n
  <1>4. new = [j \in 1..n |-> new[j]] /\ \A j \in 1..n : ~Files(new[j])
    BY <1>3 DEF Row, Files
  <1> HIDE DEF new
  <1>5. queue \in Seq(RowSet)
    BY DEF IInv, QueueGood
  <1>7. /\ DOMAIN queue = 1..Len(queue) /\ Len(queue) \in Nat
        /\ DOMAIN rows = 1..(Len(queue) + n)
        /\ \A i \in 1..(Len(queue) + n) :
             rows[i] = IF i <= Len(queue) THEN queue[i] ELSE new[i - Len(queue)]
    BY <1>1, <1>3, <1>4, <1>5, Joined
  <1>8. ASSUME NEW i \in DOMAIN rows \ DOMAIN queue PROVE ~Files(rows[i])
    <2>1. i - Len(queue) \in 1..n /\ rows[i] = new[i - Len(queue)]
      BY <1>3, <1>7
    <2> QED
      BY <1>4, <2>1
  <1> QED
    BY <1>3, <1>7, <1>8

LEMMA StoreF == ASSUME IInv, FInv, StoreNew PROVE FInv'
  <1> DEFINE b == agent.box
             got == agent.got
  <1>1. UNCHANGED <<server, epoch, offers, wish>> /\ doubt' = doubt \cup Returned(b, got)
    BY DEF StoreNew, imap
  <1>2. agent \in AgentSet /\ b \in Box /\ got \in SUBSET EntrySet /\ IsFiniteSet(got)
    BY DEF IInv, AgentOK, AgentSet
  <1>3. /\ place' = Upserted(place, b, got)
        /\ queue' = queue \o CatchUp(place, b, got)
        /\ agent' = [agent EXCEPT !.pc = Onward, !.got = {}]
    BY DEF StoreNew
  <1>4. agent'.pc \notin Holding /\ agent'.got = {}
    BY <1>2, <1>3 DEF AgentSet, Onward, Holding
  <1>5. PlacedOnce(place) /\ UidsOnce(got)
    BY DEF FInv, Once
  <1> HIDE DEF got
  <1>6. /\ PlacedOnce(place')
        /\ \A p \in place' :
             \/ p \in place
             \/ /\ ~is_pending(p) /\ p.box = b
                /\ \E e \in got : p.uid = e.uid /\ p.msg = e.msg
                /\ \A q \in place' : q.msg = p.msg /\ q.box = b => ~is_pending(q)
    BY <1>2, <1>3, <1>5, UpsertedPlaces
  <1>7. ASSUME NEW m \in Msg \ doubt' PROVE PlaceSame(m)
    <2>1. ASSUME NEW e \in got, e.msg = m, NEW i \in Working(m)
          PROVE  ~(queue[i].box = b /\ queue[i].uid = e.uid)
      <3>1. i \in RowsOf(m) /\ Files(queue[i]) /\ queue[i].status \in Live
        BY DEF Working, Mine, AtWork, RowsOf, Live
      <3>2. m \notin Returned(b, got)
        BY <1>1
      <3> QED
        BY <2>1, <3>1, <3>2 DEF Returned
    <2> QED
      BY <1>6, <2>1 DEF PlaceSame, Locations
  <1>8. \A m \in Msg : RowsSame(m)
    <2>1. /\ DOMAIN queue \subseteq DOMAIN queue'
          /\ \A i \in DOMAIN queue : queue'[i] = queue[i]
          /\ \A i \in DOMAIN queue' \ DOMAIN queue : ~Files(queue'[i])
      BY <1>2, <1>3, CatchUpBeside
    <2>2. \A i \in DOMAIN queue : RowSame(i)
      BY <2>1 DEF RowSame
    <2> QED
      BY <2>1, <2>2, RowsCarried
  <1>9. Once' /\ Held'
    BY <1>1, <1>4, <1>6, HeldLoose DEF FInv, Once, UidsOnce
  <1> QED
    BY <1>1, <1>7, <1>8, <1>9, UidsKept, QuietStep

LEMMA SweepF == ASSUME IInv, FInv, Sweep PROVE FInv'
  <1> DEFINE b == agent.box
             flagged == Swept(b, agent.got)
             back == Missing(flagged, b, agent.got)
             full == Upserted(flagged, b, back)
             gone == Vanished(full, b, agent.got, agent.exists)
             orphans == {p.msg : p \in gone} \ {p.msg : p \in full \ gone}
             rows == queue \o CatchUp(flagged, b, back)
  <1>1. /\ UNCHANGED <<server, epoch, offers, wish>>
        /\ doubt' = doubt \cup {m \in orphans : ~AtRest(m)}
        /\ place' \subseteq full
        /\ queue' = [i \in DOMAIN rows |-> IF rows[i].msg \in orphans
                                           THEN [rows[i] EXCEPT !.status = "gone"] ELSE rows[i]]
        /\ agent' = [agent EXCEPT !.pc = "walk", !.got = {}]
    BY DEF Sweep, imap
  <1>2. /\ agent \in AgentSet /\ b \in Box /\ mailbox[b].epoch = epoch[b] /\ epoch[b] \in Nat
        /\ FolderOK(server[b], uidnext[b]) /\ place \subseteq PlaceSet
        /\ UidsOnce(server[b]) /\ PlacedOnce(place)
    BY DEF IInv, AgentOK, ServerOK, AgentSet, Sweep, PlaceGood, FInv, Once
  <1>3. agent'.pc = "walk" /\ agent'.got = {}
    BY <1>1, <1>2 DEF AgentSet
  <1>4. /\ \A p \in flagged : \E q \in place :
             q.msg = p.msg /\ q.box = p.box /\ q.uid = p.uid /\ q.era = p.era
        /\ PlacedOnce(flagged)
    <2> DEFINE f == [p \in place |->
                       IF p.box = b /\ \E e \in agent.got : e.uid = p.uid
                       THEN [p EXCEPT !.seen = (CHOOSE e \in agent.got : e.uid = p.uid).seen] ELSE p]
    <2>1. flagged = {f[p] : p \in place}
      BY DEF Swept
    <2>2. \A p \in place : /\ f[p].uid = p.uid /\ f[p].msg = p.msg
                           /\ f[p].box = p.box /\ f[p].era = p.era
      BY <1>2 DEF PlaceSet
    <2> HIDE DEF f, flagged
    <2>3. \A p \in flagged : \E q \in place : p = f[q]
      BY <2>1
    <2>4. PlacedOnce(flagged)
      BY <1>2, <2>2, <2>3 DEF PlacedOnce, is_pending
    <2> QED
      BY <2>2, <2>3, <2>4
  <1>5. /\ back \in SUBSET EntrySet /\ IsFiniteSet(back) /\ UidsOnce(back)
        /\ \A e \in back : Names(b, e.uid, e.msg) /\ ~uids_with_write_in_flight(b, e)
    <2>1. back \subseteq server[b] /\ \A e \in back : ~uids_with_write_in_flight(b, e)
      BY DEF Missing, LeftAlone
    <2>2. IsFiniteSet(back)
      BY <1>2, <2>1, FS_Subset DEF FolderOK
    <2> HIDE DEF back
    <2> QED
      BY <1>2, <2>1, <2>2 DEF FolderOK, Names, EntrySet, UidsOnce
  <1> HIDE DEF flagged, back
  <1>6. /\ PlacedOnce(full)
        /\ \A p \in full :
             \/ p \in flagged
             \/ /\ ~is_pending(p) /\ p.box = b /\ p.era = mailbox[b].epoch
                /\ \E e \in back : p.uid = e.uid /\ p.msg = e.msg
                /\ \A q \in full : q.msg = p.msg /\ q.box = b => ~is_pending(q)
    BY <1>2, <1>4, <1>5, UpsertedPlaces
  <1>7. QueueGood(rows, purged)
    BY <1>2, <1>5, CatchUpGood
  <1>8. /\ DOMAIN queue \subseteq DOMAIN rows
        /\ \A i \in DOMAIN queue : rows[i] = queue[i]
        /\ \A i \in DOMAIN rows \ DOMAIN queue : ~Files(rows[i])
    BY <1>5, CatchUpBeside
  <1> HIDE DEF full, rows, gone, orphans
  <1>9. ASSUME NEW m \in Msg \ doubt' PROVE RowsSame(m)
    <2>1. \A i \in DOMAIN rows : rows[i] \in RowSet
      BY <1>7 DEF QueueGood
    <2>2. ASSUME NEW i \in DOMAIN rows
          PROVE  /\ queue'[i].msg = rows[i].msg /\ queue'[i].type = rows[i].type
                 /\ queue'[i].box = rows[i].box /\ queue'[i].uid = rows[i].uid
                 /\ queue'[i].epoch = rows[i].epoch /\ queue'[i].to = rows[i].to
                 /\ queue'[i].attempts = rows[i].attempts
                 /\ queue'[i].undone = rows[i].undone
                 /\ \/ queue'[i].status = rows[i].status
                    \/ rows[i].msg \in orphans /\ queue'[i].status = "gone"
      BY <1>1, <2>1 DEF RowSet
    <2>3. ASSUME NEW i \in DOMAIN queue, queue[i].msg = m
          PROVE  RowSame(i)
      <3>1. i \in DOMAIN rows /\ rows[i] = queue[i]
        BY <1>8
      <3>2. m \in orphans => queue[i].status \notin Live
        BY <1>1, <2>3 DEF AtRest, RowsOf, Live
      <3> QED
        BY <2>2, <2>3, <3>1, <3>2 DEF RowSame, Shelved, Live
    <2>4. DOMAIN queue' = DOMAIN rows
      BY <1>1
    <2> QED
      BY <1>8, <2>2, <2>3, <2>4, RowsCarried DEF Files
  <1>10. ASSUME NEW m \in Msg \ doubt' PROVE PlaceSame(m)
    <2> SUFFICES ASSUME NEW p \in Locations(m)'
                 PROVE  \/ \E q \in Locations(m) : q.box = p.box /\ q.uid = p.uid /\ q.era = p.era
                        \/ /\ ~is_pending(p)
                           /\ \A q \in Locations(m)' : q.box = p.box => ~is_pending(q)
                           /\ \A i \in Working(m) :
                                queue[i].attempts < StuckAfter /\ queue[i].box = p.box /\ queue[i].uid = p.uid
                                    => p.era # queue[i].epoch
      BY DEF PlaceSame
    <2>1. p \in full /\ p.msg = m
      BY <1>1 DEF Locations
    <2>2. CASE p \in flagged
      BY <1>4, <2>1, <2>2 DEF Locations
    <2>3. CASE /\ ~is_pending(p) /\ p.box = b /\ p.era = mailbox[b].epoch
               /\ \E e \in back : p.uid = e.uid /\ p.msg = e.msg
               /\ \A q \in full : q.msg = p.msg /\ q.box = b => ~is_pending(q)
      <3>1. \A q \in Locations(m)' : q.box = p.box => ~is_pending(q)
        BY <1>1, <2>1, <2>3 DEF Locations
      <3>2. ASSUME NEW i \in Working(m), queue[i].attempts < StuckAfter,
                   queue[i].box = p.box, queue[i].uid = p.uid
            PROVE  p.era # queue[i].epoch
        BY <1>5, <2>3, <3>2 DEF uids_with_write_in_flight, Working, Mine, AtWork
      <3> QED
        BY <2>3, <3>1, <3>2
    <2> QED
      BY <1>6, <2>1, <2>2, <2>3
  <1>11. Once'
    <2>1. PlacedOnce(place')
      BY <1>1, <1>6 DEF PlacedOnce
    <2> QED
      BY <1>1, <1>3, <2>1 DEF FInv, Once, UidsOnce
  <1>12. Held'
    BY <1>3, HeldLoose DEF Holding
  <1> QED
    BY <1>1, <1>9, <1>10, <1>11, <1>12, UidsKept, QuietStep

-----------------------------------------------------------------------------
(* What happens on the server.                                             *)

\* Other mail comes and goes.
LEMMA OthersStep ==
  ASSUME IInv, FInv, \A b \in Box : UidsOnce(server'[b]),
         UNCHANGED <<epoch, offers, place, queue, agent, wish>>, doubt \subseteq doubt',
         \A m \in Msg \ doubt' : \A b \in Box : Uids(server'[b], m) = Uids(server[b], m)
  PROVE  FInv'
  <1>1. Once'
    BY DEF FInv, Once
  <1>2. agent.pc \in Holding => queue[agent.row].msg \in Msg
    BY RowIs DEF IInv, AgentOK
  <1>3. Held'
    BY <1>2, HeldKept DEF FInv, Holding
  <1>4. \A m \in Msg \ doubt' : UidsSame(m)
    BY DEF UidsSame
  <1> QED
    BY <1>1, <1>3, <1>4, RowsKept, PlaceKept, QuietStep

LEMMA ExpungeF ==
  ASSUME IInv, FInv, NEW b \in Box, NEW e \in server[b], ExpungeElsewhere(b, e) PROVE FInv'
  <1>1. /\ UNCHANGED <<epoch, offers, place, queue, agent, wish>> /\ doubt' = doubt \cup {e.msg}
        /\ server' = [server EXCEPT ![b] = @ \ {e}]
    BY DEF ExpungeElsewhere, Disturbed, db
  <1>2. server = [c \in Box |-> server[c]]
    BY DEF IInv, ServerOK
  <1>3. \A c \in Box : server'[c] = IF c = b THEN server[b] \ {e} ELSE server[c]
    BY <1>1, <1>2
  <1>4. \A c \in Box : UidsOnce(server'[c])
    BY <1>3 DEF FInv, Once, UidsOnce
  <1>5. \A m \in Msg \ doubt' : \A c \in Box : Uids(server'[c], m) = Uids(server[c], m)
    BY <1>1, <1>3 DEF Uids
  <1> QED
    BY <1>1, <1>4, <1>5, OthersStep

LEMMA ElsewhereF ==
  ASSUME IInv, FInv, NEW b \in Box, NEW c \in Box, NEW e \in server[b], MoveElsewhere(b, c, e)
  PROVE  FInv'
  <1> DEFINE new == [e EXCEPT !.uid = uidnext[c]]
  <1>1. /\ UNCHANGED <<epoch, offers, place, queue, agent, wish>> /\ doubt' = doubt \cup {e.msg}
        /\ server' = [server EXCEPT ![b] = @ \ {e}, ![c] = @ \cup {new}] /\ b # c
    BY DEF MoveElsewhere, Disturbed, db
  <1>2. /\ server = [d \in Box |-> server[d]] /\ e \in EntrySet
        /\ \A d \in server[c] : d.uid < uidnext[c] /\ d.uid \in Nat
        /\ uidnext[c] \in Nat
    BY DEF IInv, ServerOK, FolderOK, EntrySet
  <1>3. new.msg = e.msg /\ new.uid = uidnext[c]
    BY <1>2 DEF EntrySet
  <1> HIDE DEF new
  <1>4. /\ \A d \in Box \ {b, c} : server'[d] = server[d]
        /\ server'[b] = server[b] \ {e} /\ server'[c] = server[c] \cup {new}
    BY <1>1, <1>2
  <1>5. \A d \in Box : UidsOnce(server'[d])
    <2>1. UidsOnce(server'[c])
      BY <1>2, <1>3, <1>4 DEF FInv, Once, UidsOnce
    <2>2. \A d \in Box \ {c} : UidsOnce(server'[d])
      BY <1>4 DEF FInv, Once, UidsOnce
    <2> QED
      BY <2>1, <2>2
  <1>6. ASSUME NEW m \in Msg \ doubt', NEW d \in Box
        PROVE  Uids(server'[d], m) = Uids(server[d], m)
    <2>1. m # e.msg
      BY <1>1
    <2> QED
      BY <1>3, <1>4, <2>1 DEF Uids
  <1> QED
    BY <1>1, <1>5, <1>6, OthersStep

\* A folder numbered anew names each message as often.
LEMMA RebuildF == ASSUME IInv, FInv, NEW b \in Box, Rebuild(b) PROVE FInv'
  <1> DEFINE n == Cardinality(server[b])
  <1>1. /\ UNCHANGED <<offers, place, queue, agent, wish, doubt>> /\ agent.pc = "idle"
        /\ epoch' = [epoch EXCEPT ![b] = @ + 1]
    BY DEF Rebuild, db
  <1>2. PICK f \in [server[b] -> 1..n] :
          /\ IsInjective(f)
          /\ server' = [server EXCEPT ![b] = {[e EXCEPT !.uid = f[e]] : e \in @}]
    BY DEF Rebuild
  <1>3. /\ server = [d \in Box |-> server[d]] /\ server[b] \subseteq EntrySet
        /\ epoch \in [Box -> Nat]
    BY DEF IInv, ServerOK, FolderOK
  <1> DEFINE new(e) == [e EXCEPT !.uid = f[e]]
  <1>4. \A e \in server[b] : new(e).msg = e.msg /\ new(e).uid = f[e]
    BY <1>3 DEF EntrySet
  <1>5. /\ \A d \in Box \ {b} : server'[d] = server[d] /\ epoch'[d] = epoch[d]
        /\ server'[b] = {new(e) : e \in server[b]} /\ epoch'[b] = epoch[b] + 1
    BY <1>1, <1>2, <1>3
  <1> HIDE DEF new, n
  <1>6. \A e, g \in server[b] : f[e] = f[g] => e = g
    BY <1>2 DEF IsInjective
  <1>7. UidsOnce(server[b]) /\ \A d \in Box : UidsOnce(server[d])
    BY DEF FInv, Once
  <1>8. \A d \in Box : UidsOnce(server'[d])
    <2>1. UidsOnce(server'[b])
      BY <1>4, <1>5, <1>6 DEF UidsOnce
    <2> QED
      BY <1>5, <1>7, <2>1
  <1>9. ASSUME NEW m \in Msg PROVE UidsSame(m)
    <2>1. Uids(server[b], m) = {} <=> Uids(server'[b], m) = {}
      <3>1. (\E e \in server[b] : e.msg = m) <=> \E e \in server'[b] : e.msg = m
        BY <1>4, <1>5
      <3>2. \A es : Uids(es, m) = {} <=> ~\E e \in es : e.msg = m
        BY DEF Uids
      <3> QED
        BY <3>1, <3>2
    <2>2. ASSUME NEW u, Uids(server[b], m) = {u} PROVE \E v : Uids(server'[b], m) = {v}
      <3>1. PICK e \in server[b] : e.msg = m /\ e.uid = u
        BY <2>2 DEF Uids
      <3>2. \A g \in server[b] : g.msg = m => g = e
        BY <1>7, <2>2, <3>1 DEF Uids, UidsOnce
      <3>3. Uids(server'[b], m) = {f[e]}
        BY <1>4, <1>5, <3>1, <3>2 DEF Uids
      <3> QED
        BY <3>3
    <2> QED
      BY <1>5, <2>1, <2>2 DEF UidsSame
  <1>10. Once' /\ Held'
    BY <1>1, <1>8, HeldLoose DEF FInv, Once, Holding
  <1> QED
    BY <1>1, <1>9, <1>10, RowsKept, PlaceKept, QuietStep

-----------------------------------------------------------------------------
(* Steps that file a message.                                              *)

\* They leave every other one alone.
LEMMA OwnStep ==
  ASSUME IInv, FInv, Once', Held', offers' = offers, wish' \in [Msg -> Box \cup {"none"}],
         doubt \subseteq doubt', NEW w,
         \A m \in Msg \ doubt' : m # w =>
            wish'[m] = wish[m] /\ RowsSame(m) /\ UidsSame(m) /\ PlaceSame(m),
         w \in Msg \ doubt' => Clear(w)'
  PROVE  FInv'
  <1>1. ASSUME NEW m \in Msg \ doubt' PROVE Clear(m)'
    <2>1. Clear(m) /\ wish[m] \in Box \cup {"none"}
      BY DEF FInv
    <2>2. CASE m = w
      BY <2>2
    <2>3. CASE m # w
      BY <2>1, <2>3, QuietClear
    <2> QED
      BY <2>2, <2>3
  <1> QED
    BY <1>1 DEF FInv

\* Rows of other mail are written or rewritten.
LEMMA RowsApart ==
  ASSUME NEW m, DOMAIN queue \subseteq DOMAIN queue',
         \A i \in DOMAIN queue :
            queue'[i].msg = queue[i].msg /\ (queue[i].msg = m => RowSame(i)),
         \A i \in DOMAIN queue' \ DOMAIN queue : queue'[i].msg # m
  PROVE  RowsSame(m)
  <1>1. Mine(m)' = {i \in DOMAIN queue' : queue'[i].msg = m /\ Files(queue'[i])}
    BY DEF Mine
  <1>2. \A i \in DOMAIN queue : queue[i].msg = m => (Files(queue'[i]) <=> Files(queue[i]))
    BY DEF Files, RowSame
  <1>3. Mine(m)' = Mine(m)
    BY <1>1, <1>2 DEF Mine
  <1> QED
    BY <1>3 DEF RowsSame, Mine

\* A row at work is the only one, and stands last.
LEMMA Alone ==
  ASSUME IInv, NEW m \in Msg, LastWorks(m), NEW i \in Working(m)
  PROVE  /\ Working(m) = {i} /\ i \in Mine(m) /\ i \in Nat
         /\ queue[i].status \in Live /\ ~Shelved(queue[i])
         /\ \A j \in Mine(m) : j \in Nat /\ j <= i /\ ((\A k \in Mine(m) : k <= j) => j = i)
  <1>1. DOMAIN queue \subseteq Nat
    BY DEF IInv, QueueGood
  <1>2. Working(m) \subseteq Mine(m) /\ Mine(m) \subseteq Nat
    BY <1>1 DEF Working, Mine
  <1>3. \A j \in Mine(m) : j <= i
    BY DEF LastWorks
  <1>4. Working(m) = {i}
    BY <1>2, <1>3 DEF LastWorks
  <1>5. queue[i].status \in Live /\ ~Shelved(queue[i])
    BY DEF Working, AtWork, Shelved, Live
  <1> QED
    BY <1>2, <1>3, <1>4, <1>5

\* Where the server has a message once, in a folder, it has it there alone.
LEMMA LoneOnly ==
  ASSUME NEW m, NEW b \in Box, Lone(server, m), Uids(server[b], m) # {}
  PROVE  OnlyIn(server, m, b)
BY DEF Lone, OnlyIn

\* A row with neither COPY made nor source gone leaves it where it was.
LEMMA StillHome ==
  ASSUME IInv, NEW m \in Msg, Clear(m), ~HalfMade(m), NEW i \in Working(m), queue[i].type = "move"
  PROVE  OnlyIn(server, m, queue[i].box) /\ Lone(server, m)
  <1>1. /\ Working(m) = {i} /\ i \in DOMAIN queue /\ queue[i].msg = m
        /\ queue[i].status \in Live /\ queue[i].box \in Box /\ queue[i].to \in Box
    BY Alone, MineType DEF Clear
  <1>2. i \in RowsOf(m)
    BY <1>1 DEF RowsOf, Live
  <1>3. Copies(queue[i].box, m) # {} /\ Copies(queue[i].to, m) = {}
    BY <1>1, <1>2 DEF HalfMade
  <1>4. Uids(server[queue[i].box], m) # {} /\ Uids(server[queue[i].to], m) = {}
    BY <1>3 DEF Copies, Uids
  <1>5. ~Copied(server, epoch, queue[i])
    BY <1>1, <1>4 DEF Copied
  <1>6. Lone(server, m)
    BY <1>1, <1>5 DEF Clear, OneCopyThere
  <1> QED
    BY <1>1, <1>4, <1>6, LoneOnly

\* A row goes on as it was, as far as the others are concerned.
SaysSame(j) ==
    /\ queue'[j].msg = queue[j].msg /\ queue'[j].type = queue[j].type
    /\ queue'[j].status = queue[j].status /\ queue'[j].to = queue[j].to

\* The row comes to its end, and the message is where it should be.
LEMMA SettledClear ==
  ASSUME IInv, NEW m \in Msg, Clear(m), NEW i \in Working(m), Lone(server, m),
         UNCHANGED <<server, epoch, offers>>,
         DOMAIN queue' = DOMAIN queue, \A j \in DOMAIN queue : j # i => SaysSame(j),
         queue'[i].msg = m, queue'[i].type = queue[i].type, queue'[i].to = queue[i].to,
         queue'[i].box = queue[i].box, queue'[i].status \notin Live,
         Shelved(queue'[i]) /\ queue[i].type = "move" => OnlyIn(server, m, queue[i].box),
         Apart(m)',
         \A p \in Locations(m)' : is_pending(p) =>
            (p \in Locations(m) /\ p.box # queue[i].to) \/ Uids(server[p.box], m) # {},
         wish'[m] = "none" \/ OnlyIn(server, m, wish'[m])
  PROVE  Clear(m)'
  <1>1. /\ Working(m) = {i} /\ i \in Mine(m)
        /\ \A j \in Mine(m) : j <= i /\ ((\A k \in Mine(m) : k <= j) => j = i)
    BY Alone DEF Clear
  <1>2. i \in DOMAIN queue /\ queue[i].msg = m /\ Files(queue[i])
    BY <1>1 DEF Mine
  <1>3. Mine(m)' = Mine(m)
    BY <1>2 DEF Mine, Files, SaysSame
  <1>4. Working(m)' = {}
    BY <1>1, <1>3 DEF Working, AtWork, Mine, SaysSame, Files
  <1>5. (LastWorks(m) /\ StaysFiled(m) /\ NoneHome(m))'
    BY <1>4 DEF LastWorks, StaysFiled, NoneHome
  <1>6. OneCopyThere(m)'
    BY DEF OneCopyThere
  <1>7. WishHeld(m)'
    BY <1>4 DEF WishHeld
  <1>8. ShelvedHome(m)'
    <2> SUFFICES ASSUME NEW j \in Mine(m), Shelved(queue'[j]), queue'[j].type = "move",
                        \A k \in Mine(m) : k <= j
                 PROVE  OnlyIn(server, m, queue'[j].box)
      BY <1>3 DEF ShelvedHome
    <2>1. j = i
      BY <1>1
    <2> QED
      BY <2>1
  <1>9. Backed(m)'
    BY <1>1, <1>4 DEF Clear, Backed
  <1>10. Aimed(m)'
    BY <1>3 DEF Clear, Aimed, Mine, SaysSame
  <1> QED
    BY <1>5, <1>6, <1>7, <1>8, <1>9, <1>10 DEF Clear

\* A command of the row at work, with what users know unchanged.
LEMMA ServerClear ==
  ASSUME IInv, NEW m \in Msg, Clear(m), NEW i \in Working(m),
         UNCHANGED <<epoch, offers, place, queue>>, wish'[m] = wish[m],
         Lone(server', m) \/ Copied(server', epoch, queue[i]),
         \A b \in Box \ {queue[i].box} : Uids(server[b], m) # {} => Uids(server'[b], m) # {}
  PROVE  Clear(m)'
  <1>1. /\ Working(m) = {i} /\ i \in Mine(m) /\ ~Shelved(queue[i])
        /\ \A j \in Mine(m) : j <= i /\ ((\A k \in Mine(m) : k <= j) => j = i)
    BY Alone DEF Clear
  <1>2. Mine(m)' = Mine(m) /\ Working(m)' = Working(m)
    BY DEF Mine, Working
  <1>3. (LastWorks(m) /\ StaysFiled(m) /\ NoneHome(m) /\ Apart(m) /\ Aimed(m))'
    BY <1>2 DEF Clear, LastWorks, StaysFiled, NoneHome, Apart, Aimed, Locations, In
  <1>4. OneCopyThere(m)'
    <2>1. CASE Lone(server', m)
      BY <2>1 DEF OneCopyThere
    <2>2. CASE Copied(server', epoch, queue[i])
      <3>1. Copied(server, epoch, queue[i])'
        BY <2>2 DEF Copied
      <3> HIDE DEF Copied
      <3> QED
        BY <1>2, <3>1 DEF OneCopyThere
    <2> QED
      BY <2>1, <2>2
  <1>5. WishHeld(m)'
    BY <1>1, <1>2 DEF Clear, WishHeld
  <1>6. ShelvedHome(m)'
    BY <1>1, <1>2 DEF ShelvedHome
  <1>7. Backed(m)'
    <2> SUFFICES ASSUME NEW p \in Locations(m), is_pending(p)
                 PROVE  queue[i].to = p.box \/ Uids(server'[p.box], m) # {}
      BY <1>1, <1>2 DEF Backed, Locations
    <2>1. p.box \in Box
      BY DEF IInv, PlaceGood, PlaceSet, Locations
    <2>2. p.box # queue[i].box
      BY DEF Clear, NoneHome, In
    <2> QED
      BY <1>1, <2>1, <2>2 DEF Clear, Backed
  <1> QED
    BY <1>3, <1>4, <1>5, <1>6, <1>7 DEF Clear

\* The row the agent holds, when it files mail.
LEMMA HeldWorks ==
  ASSUME IInv, FInv, agent.pc \in Holding, Files(queue[agent.row])
  PROVE  LET i == agent.row IN
         /\ i \in DOMAIN queue /\ queue[i].msg \in Msg /\ queue[i].box \in Box
         /\ i \in Working(queue[i].msg)
         /\ queue[i].type = "move" => queue[i].to \in Box /\ queue[i].to # queue[i].box
         /\ agent.pc \in {"selected", "copied"} =>
              /\ queue[i].epoch = epoch[queue[i].box]
              /\ \A e \in Entry(queue[i].box, queue[i].uid) : e.msg = queue[i].msg
  <1> DEFINE i == agent.row
  <1>1. i \in DOMAIN queue /\ queue[i].status = "leased"
    BY DEF IInv, AgentOK, FInv, Held
  <1>2. /\ queue[i].msg \in Msg /\ queue[i].box \in Box
        /\ queue[i].type = "move" => queue[i].to \in Box /\ queue[i].to # queue[i].box
    BY <1>1, RowIs
  <1>3. i \in Working(queue[i].msg)
    BY <1>1 DEF Working, Mine, AtWork, Live
  <1>4. Stands(queue[i].box, queue[i].uid, queue[i].epoch, queue[i].msg)
    BY <1>1 DEF IInv, QueueGood, RowGood
  <1>5. ASSUME agent.pc \in {"selected", "copied"}
        PROVE  /\ queue[i].epoch = epoch[queue[i].box]
               /\ \A e \in Entry(queue[i].box, queue[i].uid) : e.msg = queue[i].msg
    BY <1>4, <1>5 DEF IInv, AgentOK, Stands, Names, Entry
  <1> QED
    BY <1>1, <1>2, <1>3, <1>5

\* The end of an attempt, for good.
LEMMA SettledF ==
  ASSUME IInv, FInv, agent.pc \in Holding, NEW status \in {"done", "stale", "refused"}, Settle(status),
         UNCHANGED <<server, epoch, offers>>, doubt \subseteq doubt',
         LET row == queue[agent.row] IN
         Files(row) /\ row.msg \notin doubt' =>
            /\ Lone(server, row.msg)
            /\ row.type = "move" /\ status = "done" => OnlyIn(server, row.msg, row.to)
            /\ row.type = "move" /\ status = "refused" => OnlyIn(server, row.msg, row.box)
  PROVE  FInv'
  <1>0. PICK i \in DOMAIN queue : i = agent.row /\ queue[i].status = "leased"
    BY DEF IInv, AgentOK, FInv, Held
  <1>a. PICK w \in Msg : w = queue[i].msg
    BY RowIs
  <1> DEFINE row == queue[i]
             f == status = "done"
             r == [row EXCEPT !.status = status, !.fresh = f]
  <1>1. i \in DOMAIN queue /\ i = agent.row /\ row.msg = w /\ row.status = "leased" /\ agent \in AgentSet
    BY <1>0, <1>a DEF IInv, AgentOK
  <1>2. row \in RowSet /\ w \in Msg /\ row.box \in Box /\ queue \in Seq(RowSet)
    BY <1>1, RowIs
  <1>3. queue' = [queue EXCEPT ![i] = r]
    BY <1>1, <1>2 DEF Settle, RowSet
  <1>4. /\ r.msg = w /\ r.type = row.type /\ r.box = row.box
        /\ r.uid = row.uid /\ r.epoch = row.epoch /\ r.to = row.to
        /\ r.status = status /\ r.status \notin Live
    BY <1>1, <1>2 DEF RowSet, Live
  <1>5. /\ agent'.pc = "drain" /\ agent'.got = agent.got
        /\ place' = IF status \in {"stale", "refused"} /\ row.type = "move"
                    THEN WithoutPending(place, w, row.to) ELSE place
        /\ wish' = IF status \in {"stale", "refused"} /\ row.type = "move"
                   THEN [wish EXCEPT ![w] = "none"] ELSE wish
    BY <1>1 DEF Settle, Goto, AgentSet
  <1> HIDE DEF r, f
  <1>6. place' \subseteq place /\ wish \in [Msg -> Box \cup {"none"}]
    BY <1>5 DEF WithoutPending, FInv
  <1>7. Once' /\ Held'
    <2>1. PlacedOnce(place')
      BY <1>6 DEF FInv, Once, PlacedOnce
    <2> QED
      BY <1>5, <2>1, HeldLoose DEF FInv, Once, Holding
  <1>8. ASSUME NEW m \in Msg, m # w \/ ~Files(row)
        PROVE  wish'[m] = wish[m] /\ RowsSame(m) /\ UidsSame(m) /\ PlaceSame(m)
    <2>1. RowsSame(m)
      BY <1>1, <1>3, <1>4, <1>8, RowsButOne
    <2>2. UidsSame(m) /\ PlaceSame(m)
      BY <1>6, UidsKept, PlaceKept
    <2>3. wish'[m] = wish[m]
      BY <1>5, <1>6, <1>8 DEF Files
    <2> QED
      BY <2>1, <2>2, <2>3
  <1>9. CASE ~Files(row)
    <2>1. wish' = wish
      BY <1>5, <1>9 DEF Files
    <2> QED
      BY <1>7, <1>8, <1>9, <2>1, QuietStep
  <1>10. CASE Files(row)
    <2>1. ASSUME w \notin doubt' PROVE Clear(w)'
      <3>1. Clear(w)
        BY <1>2, <2>1 DEF FInv
      <3>2. i \in Working(w)
        BY <1>1, <1>10, HeldWorks
      <3>3. /\ Lone(server, w)
            /\ row.type = "move" /\ status = "done" => OnlyIn(server, w, row.to)
            /\ row.type = "move" /\ status = "refused" => OnlyIn(server, w, row.box)
        BY <1>1, <1>10, <2>1
      <3>4. /\ DOMAIN queue' = DOMAIN queue /\ queue'[i] = r
            /\ \A j \in DOMAIN queue : j # i => queue'[j] = queue[j]
        BY <1>1, <1>3
      <3>5. Apart(w)'
        BY <1>6, <3>1 DEF Clear, Apart, Locations
      <3>6. row.type = "delete" => row.to \notin Box
        BY <3>1, <3>2 DEF Clear, Aimed, Working
      <3>7. ASSUME NEW p \in Locations(w)', is_pending(p)
            PROVE  (p \in Locations(w) /\ p.box # row.to) \/ Uids(server[p.box], w) # {}
        <4>1. p \in Locations(w) /\ p.msg = w /\ p.box \in Box
          BY <1>6 DEF Locations, IInv, PlaceGood, PlaceSet
        <4>2. CASE row.type = "delete"
          BY <3>6, <4>1, <4>2
        <4>3. CASE row.type = "move" /\ status = "done"
          BY <3>3, <4>1, <4>3 DEF OnlyIn
        <4>4. CASE row.type = "move" /\ status # "done"
          BY <1>5, <3>7, <4>1, <4>4 DEF WithoutPending, Locations
        <4> QED
          BY <1>10, <4>2, <4>3, <4>4 DEF Files
      <3>8. wish'[w] = "none" \/ OnlyIn(server, w, wish'[w])
        <4>1. CASE row.type = "move" /\ status # "done"
          BY <1>2, <1>5, <1>6, <4>1
        <4>2. CASE ~(row.type = "move" /\ status # "done")
          <5>1. wish' = wish
            BY <1>5, <4>2
          <5>2. Working(w) = {i}
            BY <1>2, <3>1, <3>2, Alone DEF Clear
          <5>3. wish[w] # "none" => row.type = "move" /\ row.to = wish[w]
            BY <3>1, <5>2 DEF Clear, WishHeld
          <5> QED
            BY <3>3, <4>2, <5>1, <5>3
        <4> QED
          BY <4>1, <4>2
      <3>9. Shelved(r) /\ row.type = "move" => OnlyIn(server, w, row.box)
        BY <1>4, <3>3 DEF Shelved
      <3> QED
        BY <1>1, <1>2, <1>4, <3>1, <3>2, <3>3, <3>4, <3>5, <3>7, <3>8, <3>9, SettledClear DEF SaysSame
    <2>2. wish' \in [Msg -> Box \cup {"none"}]
      BY <1>2, <1>5, <1>6
    <2> QED
      BY <1>7, <1>8, <2>1, <2>2, OwnStep
  <1> QED
    BY <1>9, <1>10

LEMMA RefusalF == ASSUME IInv, FInv, Refusal PROVE FInv'
  <1> DEFINE row == queue[agent.row]
             w == row.msg
  <1>1. /\ Settle("refused") /\ agent.pc = "selected" /\ agent.pc \in Holding
        /\ row.type = "move" /\ <<row.box, row.to>> \in Refused
        /\ UNCHANGED <<server, epoch, offers, doubt>>
    BY DEF Refusal, Holding, imap
  <1>2. ASSUME w \notin doubt PROVE Lone(server, w) /\ OnlyIn(server, w, row.box)
    <2>1. agent.row \in Working(w) /\ w \in Msg /\ row.box \in Box
      BY <1>1, HeldWorks DEF Files
    <2>2. Clear(w)
      BY <1>2, <2>1 DEF FInv
    <2>3. Working(w) = {agent.row}
      BY <2>1, <2>2, Alone DEF Clear
    <2>4. ~Copied(server, epoch, row)
      BY <1>1 DEF Copied
    <2>5. Lone(server, w)
      BY <2>2, <2>3, <2>4 DEF Clear, OneCopyThere
    <2>6. Uids(server[row.box], w) # {}
      BY <1>1, <1>2 DEF FInv, Held
    <2> QED
      BY <2>1, <2>5, <2>6, LoneOnly
  <1> HIDE DEF w, row
  <1> QED
    BY <1>1, <1>2, SettledF DEF row, w

LEMMA AppliedF == ASSUME IInv, FInv, Applied PROVE FInv'
  <1> DEFINE row == queue[agent.row]
             w == row.msg
  <1>1. /\ Settle("done") /\ agent.pc = "applied" /\ agent.pc \in Holding
        /\ UNCHANGED <<server, epoch, offers, doubt>>
    BY DEF Applied, Holding, imap
  <1>2. ASSUME w \notin doubt, Files(row)
        PROVE  Lone(server, w) /\ (row.type = "move" => OnlyIn(server, w, row.to))
    <2>1. /\ agent.row \in Working(w) /\ w \in Msg /\ row.box \in Box
          /\ row.type = "move" => row.to \in Box /\ row.to # row.box
      BY <1>1, <1>2, HeldWorks
    <2>2. Clear(w)
      BY <1>2, <2>1 DEF FInv
    <2>3. Working(w) = {agent.row}
      BY <2>1, <2>2, Alone DEF Clear
    <2>4. row.type = "move" => OnlyIn(server, w, row.to)
      BY <1>1, <1>2 DEF FInv, Held
    <2>5. ~Copied(server, epoch, row)
      BY <2>1, <2>4 DEF Copied, OnlyIn
    <2>6. Lone(server, w)
      BY <2>2, <2>3, <2>5 DEF Clear, OneCopyThere
    <2> QED
      BY <2>4, <2>6
  <1> HIDE DEF w, row
  <1> QED
    BY <1>1, <1>2, SettledF DEF row, w

LEMMA SelectF == ASSUME IInv, FInv, Select PROVE FInv'
  <1> DEFINE i == agent.row
             row == queue[i]
             w == row.msg
  <1>1. /\ agent.pc = "leased" /\ agent.pc \in Holding /\ agent \in AgentSet
        /\ UNCHANGED <<server, epoch, offers>>
        /\ doubt' = IF ~Verified(row) /\ HalfMade(w) THEN doubt \cup {w} ELSE doubt
    BY DEF Select, Holding, imap, IInv, AgentOK
  <1>2. i \in DOMAIN queue /\ row.status = "leased" /\ w \in Msg
    BY <1>1, RowIs DEF IInv, AgentOK, FInv, Held
  <1>3. PICK found \in {"there", "done", "stale", "failed"} :
          /\ found = "there" => /\ Goto("selected") /\ UNCHANGED <<place, queue, wish>>
                                /\ Verified(row)
                                /\ row.type = "move" => Entry(row.box, row.uid) # {}
          /\ found # "there" => Settle(found)
          /\ found \in {"done", "failed"} => row.type = "move" /\ Verified(row)
          /\ found = "done" => Landed(row) /\ Entry(row.box, row.uid) = {}
          /\ found = "stale" /\ Verified(row) => row.type = "move" /\ Entry(row.box, row.uid) = {}
    BY DEF Select, _still_to_move
  <1>4. CASE found = "there"
    <2>1. agent' = [agent EXCEPT !.pc = "selected"]
      BY <1>3, <1>4 DEF Goto
    <2>2. /\ agent'.pc = "selected" /\ agent'.row = i /\ agent'.got = agent.got
      BY <1>1, <2>1 DEF AgentSet
    <2>3. row.type = "move" => row.uid \in Uids(server[row.box], w)
      <3>1. Stands(row.box, row.uid, row.epoch, w) /\ row.epoch = epoch[row.box]
        BY <1>2, <1>3, <1>4 DEF IInv, QueueGood, RowGood, Verified
      <3> QED
        BY <1>3, <1>4, <3>1 DEF Stands, Names, Entry, Uids
    <2>4. UNCHANGED <<place, queue, wish, doubt, server, epoch, offers>>
      BY <1>1, <1>3, <1>4
    <2>5. Held'
      BY <1>2, <2>2, <2>3, <2>4 DEF Held
    <2> HIDE DEF w, row, i
    <2> QED
      BY <2>2, <2>4, <2>5, RowsKept, StillStep DEF FInv, Once
  <1>5. CASE found = "failed"
    <2>1. Settle("failed") /\ doubt \subseteq doubt'
      BY <1>1, <1>3, <1>5
    <2> QED
      BY <1>1, <2>1, FailedF
  <1>6. CASE found \in {"done", "stale"}
    <2>1. Settle(found) /\ doubt \subseteq doubt'
      BY <1>1, <1>3, <1>6
    <2>2. ASSUME Files(row), w \notin doubt'
          PROVE  Lone(server, w) /\ (found = "done" => OnlyIn(server, w, row.to))
      <3>1. /\ i \in Working(w) /\ row.box \in Box
            /\ row.type = "move" => row.to \in Box /\ row.to # row.box
        BY <1>1, <2>2, HeldWorks
      <3>2. Clear(w)
        BY <1>2, <2>1, <2>2 DEF FInv
      <3>3. Working(w) = {i}
        BY <1>2, <3>1, <3>2, Alone DEF Clear
      <3>4. CASE Verified(row)
        <4>1. Entry(row.box, row.uid) = {} /\ row.epoch = epoch[row.box]
          BY <1>3, <1>6, <3>4 DEF Verified
        <4>2. ~Copied(server, epoch, row)
          <5> SUFFICES ASSUME Uids(server[row.box], w) = {row.uid} PROVE FALSE
            BY <4>1 DEF Copied
          <5> QED
            BY <4>1 DEF Entry, Uids
        <4>3. Lone(server, w)
          BY <3>2, <3>3, <4>2 DEF Clear, OneCopyThere
        <4>4. found = "done" => Uids(server[row.to], w) # {} /\ row.type = "move"
          BY <1>3 DEF Landed, Copies, Uids
        <4> QED
          BY <3>1, <4>3, <4>4, LoneOnly
      <3>5. CASE ~Verified(row)
        <4>1. ~HalfMade(w) /\ found # "done"
          BY <1>1, <1>3, <2>2, <3>5
        <4>2. CASE row.type = "move"
          BY <1>2, <3>1, <3>2, <4>1, <4>2, StillHome
        <4>3. CASE row.type # "move"
          BY <3>2, <3>3, <4>1, <4>3 DEF Clear, OneCopyThere, Copied
        <4> QED
          BY <4>1, <4>2, <4>3
      <3> QED
        BY <3>4, <3>5
    <2> HIDE DEF w, row, i
    <2> QED
      BY <1>1, <1>6, <2>1, <2>2, SettledF DEF w, row, i
  <1> QED
    BY <1>3, <1>4, <1>5, <1>6

-----------------------------------------------------------------------------
(* Commands to the server.                                                 *)

\* A command of the row the agent holds touches its message alone.
LEMMA CommandStep ==
  ASSUME IInv, FInv, agent.pc \in Holding, \A b \in Box : UidsOnce(server'[b]), Held',
         UNCHANGED <<epoch, offers, place, queue, wish>>, agent'.got = agent.got,
         doubt \subseteq doubt', NEW w, w = queue[agent.row].msg,
         \A m \in Msg \ doubt' : m # w => \A b \in Box : Uids(server'[b], m) = Uids(server[b], m),
         w \in Msg \ doubt' => Clear(w)'
  PROVE  FInv'
  <1>1. Once'
    BY DEF FInv, Once
  <1>2. ASSUME NEW m \in Msg \ doubt', m # w
        PROVE  wish'[m] = wish[m] /\ RowsSame(m) /\ UidsSame(m) /\ PlaceSame(m)
    BY <1>2, RowsKept, PlaceKept DEF UidsSame
  <1>3. wish' \in [Msg -> Box \cup {"none"}]
    BY DEF FInv
  <1> QED
    BY <1>1, <1>2, <1>3, OwnStep

LEMMA RemoveF == ASSUME IInv, FInv, RemoveSource PROVE FInv'
  <1>0. PICK i \in DOMAIN queue : i = agent.row /\ queue[i].status = "leased"
    BY DEF IInv, AgentOK, FInv, Held, RemoveSource, Holding
  <1>a. PICK w \in Msg : w = queue[i].msg
    BY RowIs
  <1> DEFINE row == queue[i]
  <1>1. /\ agent.pc = "copied" /\ agent.pc \in Holding /\ agent \in AgentSet
        /\ UNCHANGED <<epoch, offers, place, queue, wish, doubt>>
        /\ server' = [server EXCEPT ![row.box] = @ \ Entry(row.box, row.uid)]
        /\ agent' = [agent EXCEPT !.pc = "applied"]
    BY <1>0 DEF RemoveSource, Holding, IInv, AgentOK, db, history, Without, Goto
  <1>2. agent'.pc = "applied" /\ agent'.row = i /\ agent'.got = agent.got
    BY <1>0, <1>1 DEF AgentSet
  <1>3. row.type = "move" /\ Files(row)
    BY <1>0, <1>1 DEF FInv, Held, Files
  <1>4. /\ row.box \in Box /\ row.to \in Box /\ row.to # row.box /\ i \in Working(w)
        /\ row.epoch = epoch[row.box] /\ \A e \in Entry(row.box, row.uid) : e.msg = w
    BY <1>0, <1>a, <1>1, <1>3, HeldWorks
  <1>5. /\ server'[row.box] = server[row.box] \ Entry(row.box, row.uid)
        /\ \A b \in Box \ {row.box} : server'[b] = server[b]
    BY <1>1, <1>4 DEF IInv, ServerOK
  <1>6. \A b \in Box : UidsOnce(server'[b])
    BY <1>4, <1>5 DEF FInv, Once, UidsOnce
  <1>7. ASSUME NEW m \in Msg, m # w, NEW b \in Box PROVE Uids(server'[b], m) = Uids(server[b], m)
    BY <1>4, <1>5, <1>7 DEF Uids
  <1>8. ASSUME w \notin doubt PROVE Lone(server', w) /\ OnlyIn(server', w, row.to) /\ Clear(w)
    <2>1. Clear(w)
      BY <1>8 DEF FInv
    <2>2. Working(w) = {i}
      BY <1>4, <2>1, Alone DEF Clear
    <2>3. Uids(server[row.to], w) # {} /\ row.msg = w
      BY <1>0, <1>a, <1>1, <1>3, <1>8 DEF FInv, Held
    <2>4. /\ Uids(server'[row.box], w) = Uids(server[row.box], w) \ {row.uid}
          /\ \A b \in Box \ {row.box} : Uids(server'[b], w) = Uids(server[b], w)
      BY <1>4, <1>5 DEF Uids, Entry
    <2>5. CASE Lone(server, w)
      <3>1. OnlyIn(server, w, row.to)
        BY <1>4, <2>3, <2>5, LoneOnly
      <3>2. \A b \in Box : Uids(server'[b], w) \subseteq Uids(server[b], w)
        BY <2>4
      <3>3. Lone(server', w)
        BY <2>5, <3>2 DEF Lone
      <3>4. OnlyIn(server', w, row.to)
        BY <1>4, <2>4, <3>1 DEF OnlyIn
      <3> QED
        BY <2>1, <3>3, <3>4
    <2>6. CASE Copied(server, epoch, row)
      <3>1. /\ Uids(server[row.box], w) = {row.uid}
            /\ \E v : Uids(server[row.to], w) = {v}
            /\ \A b \in Box \ {row.box, row.to} : Uids(server[b], w) = {}
        BY <1>4, <2>3, <2>6 DEF Copied
      <3>2. /\ Uids(server'[row.box], w) = {}
            /\ \E v : Uids(server'[row.to], w) = {v}
            /\ \A b \in Box \ {row.to} : Uids(server'[b], w) = {}
        BY <1>4, <2>4, <3>1
      <3> HIDE DEF row
      <3> QED
        BY <1>4, <2>1, <3>2 DEF Lone, OnlyIn
    <2> QED
      BY <2>1, <2>2, <2>5, <2>6 DEF Clear, OneCopyThere
  <1>9. Held'
    BY <1>0, <1>a, <1>1, <1>2, <1>8 DEF Held
  <1>10. ASSUME w \notin doubt PROVE Clear(w)'
    <2>1. \A b \in Box \ {row.box} : Uids(server'[b], w) = Uids(server[b], w)
      BY <1>5 DEF Uids
    <2> HIDE DEF row
    <2> QED
      BY <1>1, <1>4, <1>8, <1>10, <2>1, ServerClear DEF row
  <1> QED
    BY <1>0, <1>a, <1>1, <1>2, <1>6, <1>7, <1>9, <1>10, CommandStep

\* A COPY puts the message into its target under a UID not given out yet.
LEMMA CopyMade ==
  ASSUME IInv, FInv, NEW row, row.box \in Box, row.to \in Box, row.to # row.box,
         \A e \in Entry(row.box, row.uid) : e.msg = row.msg,
         NEW move \in BOOLEAN,
         NEW sv, sv = WithCopy(IF move THEN Without(row.box, row.uid) ELSE server, row)
  PROVE  /\ \A b \in Box : UidsOnce(sv[b])
         /\ \A m : m # row.msg => \A b \in Box : Uids(sv[b], m) = Uids(server[b], m)
         /\ \A b \in Box \ {row.box, row.to} : Uids(sv[b], row.msg) = Uids(server[b], row.msg)
         /\ Uids(sv[row.box], row.msg) =
              IF move THEN Uids(server[row.box], row.msg) \ {row.uid}
              ELSE Uids(server[row.box], row.msg)
         /\ row.uid \in Uids(server[row.box], row.msg) =>
              Uids(sv[row.to], row.msg) = Uids(server[row.to], row.msg) \cup {uidnext[row.to]}
  <1> DEFINE n == uidnext[row.to]
             new == {[uid |-> n, msg |-> e.msg, seen |-> e.seen] : e \in Entry(row.box, row.uid)}
  <1>1. /\ server = [b \in Box |-> server[b]] /\ n \in Nat
        /\ \A d \in server[row.to] : d.uid < n /\ d.uid \in Nat
    BY DEF IInv, ServerOK, FolderOK, EntrySet
  <1>2. \A d \in new : d.uid = n /\ d.msg = row.msg
    OBVIOUS
  <1>3. \A d, e \in new : d = e
    BY DEF FInv, Once, UidsOnce, Entry
  <1>4. new # {} <=> Entry(row.box, row.uid) # {}
    OBVIOUS
  <1>5. CASE ~move
    <2> HIDE DEF n
    <2>1. sv[row.to] = server[row.to] \cup new /\ \A b \in Box \ {row.to} : sv[b] = server[b]
      BY <1>1, <1>5 DEF WithCopy, n
    <2> HIDE DEF new
    <2>2. UidsOnce(sv[row.to]) /\ \A b \in Box \ {row.to} : UidsOnce(sv[b])
      BY <1>1, <1>2, <1>3, <2>1 DEF FInv, Once, UidsOnce
    <2>3. \A m : m # row.msg => \A b \in Box : Uids(sv[b], m) = Uids(server[b], m)
      BY <1>2, <2>1 DEF Uids
    <2>4. \A b \in Box \ {row.to} : Uids(sv[b], row.msg) = Uids(server[b], row.msg)
      BY <2>1
    <2>5. row.uid \in Uids(server[row.box], row.msg) =>
            Uids(sv[row.to], row.msg) = Uids(server[row.to], row.msg) \cup {n}
      BY <1>2, <1>4, <2>1 DEF Uids, Entry
    <2> QED
      BY <1>5, <2>2, <2>3, <2>4, <2>5 DEF n
  <1>6. CASE move
    <2> HIDE DEF n
    <2>1. /\ sv[row.to] = server[row.to] \cup new
          /\ sv[row.box] = server[row.box] \ Entry(row.box, row.uid)
          /\ \A b \in Box \ {row.box, row.to} : sv[b] = server[b]
      BY <1>1, <1>6 DEF WithCopy, Without, n
    <2> HIDE DEF new
    <2>2. \A b \in Box : UidsOnce(sv[b])
      <3>1. UidsOnce(sv[row.to])
        BY <1>1, <1>2, <1>3, <2>1 DEF FInv, Once, UidsOnce
      <3>2. UidsOnce(sv[row.box])
        BY <2>1 DEF FInv, Once, UidsOnce
      <3> QED
        BY <2>1, <3>1, <3>2 DEF FInv, Once
    <2>3. ASSUME NEW m, m # row.msg, NEW b \in Box PROVE Uids(sv[b], m) = Uids(server[b], m)
      <3>1. CASE b = row.to
        BY <1>2, <2>1, <2>3, <3>1 DEF Uids
      <3>2. CASE b = row.box
        BY <2>1, <2>3, <3>2 DEF Uids
      <3> QED
        BY <2>1, <3>1, <3>2
    <2>4. \A b \in Box \ {row.box, row.to} : Uids(sv[b], row.msg) = Uids(server[b], row.msg)
      BY <2>1
    <2>5. Uids(sv[row.box], row.msg) = Uids(server[row.box], row.msg) \ {row.uid}
      BY <2>1 DEF Uids, Entry
    <2>6. row.uid \in Uids(server[row.box], row.msg) =>
            Uids(sv[row.to], row.msg) = Uids(server[row.to], row.msg) \cup {n}
      BY <1>2, <1>4, <2>1 DEF Uids, Entry
    <2> QED
      BY <1>6, <2>2, <2>3, <2>4, <2>5, <2>6 DEF n
  <1> QED
    BY <1>5, <1>6

\* STORE renames nothing.
LEMMA FlagF ==
  ASSUME IInv, FInv, Apply, queue[agent.row].type = "setflags" PROVE FInv'
  <1> DEFINE row == queue[agent.row]
  <1>1. /\ UNCHANGED <<epoch, offers, place, queue, wish>> /\ doubt \subseteq doubt'
        /\ server' = [server EXCEPT ![row.box] =
                        {IF e.uid = row.uid THEN [e EXCEPT !.seen = row.seen] ELSE e : e \in @}]
        /\ agent' = [agent EXCEPT !.pc = "applied"] /\ agent.pc = "selected"
    BY DEF Apply, db, Goto
  <1>2. /\ agent'.pc = "applied" /\ agent'.row = agent.row /\ agent'.got = agent.got
        /\ agent.pc \in Holding
    BY <1>1 DEF IInv, AgentOK, AgentSet, Holding
  <1>3. agent.row \in DOMAIN queue /\ row.box \in Box /\ row.msg \in Msg
    BY <1>2, RowIs DEF IInv, AgentOK
  <1> DEFINE g(e) == IF e.uid = row.uid THEN [e EXCEPT !.seen = row.seen] ELSE e
  <1>4. /\ server'[row.box] = {g(e) : e \in server[row.box]}
        /\ \A b \in Box \ {row.box} : server'[b] = server[b]
    BY <1>1, <1>3 DEF IInv, ServerOK
  <1>5. \A e \in server[row.box] : g(e).uid = e.uid /\ g(e).msg = e.msg
    BY <1>3 DEF IInv, ServerOK, FolderOK, EntrySet
  <1> HIDE DEF g
  <1>6. \A b \in Box : UidsOnce(server'[b])
    <2>1. UidsOnce(server'[row.box])
      BY <1>3, <1>4, <1>5 DEF FInv, Once, UidsOnce
    <2> QED
      BY <1>4, <2>1 DEF FInv, Once
  <1>7. ASSUME NEW m \in Msg, NEW b \in Box PROVE Uids(server'[b], m) = Uids(server[b], m)
    <2>1. CASE b = row.box
      <3>1. \A u : u \in Uids(server'[b], m) <=> u \in Uids(server[b], m)
        BY <1>4, <1>5, <2>1 DEF Uids
      <3> QED
        BY <3>1 DEF Uids
    <2> QED
      BY <1>4, <2>1
  <1>8. Held'
    BY <1>1, <1>2 DEF FInv, Held
  <1>9. Once' /\ \A m \in Msg : UidsSame(m)
    BY <1>1, <1>2, <1>6, <1>7 DEF FInv, Once, UidsSame
  <1> QED
    BY <1>1, <1>8, <1>9, RowsKept, PlaceKept, QuietStep

LEMMA ExpungedF ==
  ASSUME IInv, FInv, Apply, queue[agent.row].type = "delete" PROVE FInv'
  <1>0. PICK i \in DOMAIN queue : i = agent.row /\ queue[i].status = "leased"
    BY DEF IInv, AgentOK, FInv, Held, Apply, Holding
  <1>a. PICK w \in Msg : w = queue[i].msg
    BY RowIs
  <1> DEFINE row == queue[i]
  <1>1. /\ UNCHANGED <<epoch, offers, place, queue, wish>> /\ doubt \subseteq doubt'
        /\ server' = [server EXCEPT ![row.box] = @ \ Entry(row.box, row.uid)]
        /\ agent' = [agent EXCEPT !.pc = "applied"] /\ agent.pc = "selected" /\ agent.pc \in Holding
    BY <1>0 DEF Apply, db, Goto, Without, Holding
  <1>2. agent'.pc = "applied" /\ agent'.row = agent.row /\ agent'.got = agent.got
    BY <1>1 DEF IInv, AgentOK, AgentSet
  <1>3. /\ row.box \in Box /\ i \in Working(w)
        /\ \A e \in Entry(row.box, row.uid) : e.msg = w
    BY <1>0, <1>a, <1>1, HeldWorks DEF Files
  <1>4. /\ server'[row.box] = server[row.box] \ Entry(row.box, row.uid)
        /\ \A b \in Box \ {row.box} : server'[b] = server[b]
    BY <1>1, <1>3 DEF IInv, ServerOK
  <1>5. \A b \in Box : UidsOnce(server'[b])
    BY <1>3, <1>4 DEF FInv, Once, UidsOnce
  <1>6. ASSUME NEW m \in Msg, m # w, NEW b \in Box PROVE Uids(server'[b], m) = Uids(server[b], m)
    BY <1>3, <1>4, <1>6 DEF Uids
  <1>7. Held'
    BY <1>0, <1>1, <1>2 DEF FInv, Held
  <1>8. ASSUME w \notin doubt' PROVE Clear(w)'
    <2>1. Clear(w) /\ Working(w) = {i}
      BY <1>1, <1>3, <1>8, Alone DEF FInv, Clear
    <2>2. Lone(server, w)
      BY <1>0, <2>1 DEF Clear, OneCopyThere, Copied
    <2>3. /\ \A b \in Box : Uids(server'[b], w) \subseteq Uids(server[b], w)
          /\ \A b \in Box \ {row.box} : Uids(server'[b], w) = Uids(server[b], w)
      BY <1>3, <1>4 DEF Uids
    <2>4. Lone(server', w)
      BY <2>2, <2>3 DEF Lone
    <2> HIDE DEF row
    <2> QED
      BY <1>1, <1>3, <2>1, <2>3, <2>4, ServerClear DEF row
  <1> QED
    BY <1>0, <1>a, <1>1, <1>2, <1>5, <1>6, <1>7, <1>8, CommandStep

\* MOVE, and the COPY of a move by hand.
LEMMA MovedF ==
  ASSUME IInv, FInv, Apply, queue[agent.row].type = "move" PROVE FInv'
  <1>0. PICK i \in DOMAIN queue : i = agent.row /\ queue[i].status = "leased"
    BY DEF IInv, AgentOK, FInv, Held, Apply, Holding
  <1>a. PICK w \in Msg : w = queue[i].msg
    BY RowIs
  <1> DEFINE row == queue[i]
             n == uidnext[row.to]
  <1>1. /\ UNCHANGED <<epoch, offers, place, queue, wish>>
        /\ doubt' = IF Repeats(row) THEN doubt \cup {w} ELSE doubt
        /\ <<row.box, row.to>> \notin Refused
        /\ \/ /\ offers.move /\ agent' = [agent EXCEPT !.pc = "applied"]
              /\ server' = WithCopy(Without(row.box, row.uid), row)
           \/ /\ ~offers.move /\ agent' = [agent EXCEPT !.pc = "copied"]
              /\ server' = IF Landed(row) THEN server ELSE WithCopy(server, row)
        /\ agent.pc = "selected" /\ agent.pc \in Holding /\ row.type = "move"
    BY <1>0, <1>a DEF Apply, db, Goto, Holding
  <1>2. /\ agent'.row = agent.row /\ agent'.got = agent.got
        /\ agent'.pc = IF offers.move THEN "applied" ELSE "copied"
    BY <1>1 DEF IInv, AgentOK, AgentSet
  <1>3. /\ row.box \in Box /\ row.to \in Box /\ row.to # row.box /\ i \in Working(w)
        /\ row.msg = w /\ row.epoch = epoch[row.box]
        /\ \A e \in Entry(row.box, row.uid) : e.msg = w
    BY <1>0, <1>a, <1>1, HeldWorks DEF Files
  <1>4. \/ /\ ~offers.move /\ server' = server /\ Landed(row)
        \/ /\ \A b \in Box : UidsOnce(server'[b])
           /\ \A m : m # w => \A b \in Box : Uids(server'[b], m) = Uids(server[b], m)
           /\ \A b \in Box \ {row.box, row.to} : Uids(server'[b], w) = Uids(server[b], w)
           /\ Uids(server'[row.box], w) =
                IF offers.move THEN Uids(server[row.box], w) \ {row.uid} ELSE Uids(server[row.box], w)
           /\ row.uid \in Uids(server[row.box], w) =>
                Uids(server'[row.to], w) = Uids(server[row.to], w) \cup {n}
           /\ ~offers.move => ~Landed(row)
    <2> DEFINE move == offers.move = TRUE
    <2>1. move \in BOOLEAN
      OBVIOUS
    <2>2. \/ ~offers.move /\ server' = server /\ Landed(row)
          \/ /\ server' = WithCopy(IF move THEN Without(row.box, row.uid) ELSE server, row)
             /\ ~offers.move => ~Landed(row)
      BY <1>1
    <2> HIDE DEF move
    <2>3. CASE server' = WithCopy(IF move THEN Without(row.box, row.uid) ELSE server, row)
      <3> HIDE DEF row
      <3>1. /\ \A b \in Box : UidsOnce(server'[b])
            /\ \A m : m # w => \A b \in Box : Uids(server'[b], m) = Uids(server[b], m)
            /\ \A b \in Box \ {row.box, row.to} : Uids(server'[b], w) = Uids(server[b], w)
            /\ Uids(server'[row.box], w) =
                 IF move THEN Uids(server[row.box], w) \ {row.uid} ELSE Uids(server[row.box], w)
            /\ row.uid \in Uids(server[row.box], w) =>
                 Uids(server'[row.to], w) = Uids(server[row.to], w) \cup {n}
        BY <1>3, <2>1, <2>3, CopyMade
      <3> QED
        BY <2>2, <3>1 DEF move
    <2> QED
      BY <2>2, <2>3
  <1> HIDE DEF n
  <1>5. \A b \in Box : UidsOnce(server'[b])
    BY <1>4 DEF FInv, Once
  <1>6. \A m \in Msg : m # w => \A b \in Box : Uids(server'[b], m) = Uids(server[b], m)
    BY <1>4
  <1>7. ASSUME w \notin doubt'
        PROVE  /\ Clear(w) /\ row.uid \in Uids(server[row.box], w)
               /\ Lone(server, w) \/ Copied(server, epoch, row)
    <2>1. Clear(w) /\ Working(w) = {i}
      BY <1>1, <1>3, <1>7, Alone DEF FInv, Clear
    <2>2. row.uid \in Uids(server[row.box], w)
      BY <1>0, <1>1, <1>3, <1>7 DEF FInv, Held
    <2> QED
      BY <2>1, <2>2 DEF Clear, OneCopyThere
  <1>8. ASSUME w \notin doubt', offers.move
        PROVE  Lone(server', w) /\ OnlyIn(server', w, row.to)
    <2>1. Lone(server, w)
      BY <1>7, <1>8 DEF Copied
    <2>2. Uids(server[row.box], w) = {row.uid} /\ \A b \in Box \ {row.box} : Uids(server[b], w) = {}
      BY <1>3, <1>7, <1>8, <2>1 DEF Lone
    <2>3. Uids(server'[row.to], w) = {n} /\ \A b \in Box \ {row.to} : Uids(server'[b], w) = {}
      BY <1>3, <1>4, <1>8, <2>2
    <2> HIDE DEF row
    <2> QED
      BY <1>3, <2>3 DEF Lone, OnlyIn
  <1>9. ASSUME w \notin doubt', ~offers.move
        PROVE  /\ Lone(server', w) \/ Copied(server', epoch, row)
               /\ Uids(server'[row.to], w) # {}
               /\ \A b \in Box : Uids(server[b], w) # {} => Uids(server'[b], w) # {}
    <2>1. CASE server' = server /\ Landed(row)
      <3>1. Uids(server'[row.to], w) # {}
        BY <1>3, <2>1 DEF Landed, Copies, Uids
      <3> QED
        BY <1>7, <1>9, <2>1, <3>1
    <2>2. CASE ~Landed(row)
      <3>1. ~Repeats(row)
        BY <1>1, <1>7, <1>9
      <3>2. Copies(row.to, w) = {}
        BY <1>1, <1>3, <1>9, <2>2, <3>1 DEF Repeats, Landed
      <3>3. Uids(server[row.to], w) = {}
        BY <3>2 DEF Copies, Uids
      <3>4. Lone(server, w)
        BY <1>3, <1>7, <1>9, <3>3 DEF Copied
      <3>5. Uids(server[row.box], w) = {row.uid} /\ \A b \in Box \ {row.box} : Uids(server[b], w) = {}
        BY <1>3, <1>7, <1>9, <3>4 DEF Lone
      <3>6. server' # server \/ ~Landed(row)
        BY <2>2
      <3>7. /\ Uids(server'[row.box], w) = {row.uid} /\ Uids(server'[row.to], w) = {n}
            /\ \A b \in Box \ {row.box, row.to} : Uids(server'[b], w) = {}
        BY <1>3, <1>4, <1>9, <2>2, <3>3, <3>5
      <3>8. Copied(server', epoch, row)
        BY <1>1, <1>3, <1>9, <3>7 DEF Copied
      <3> QED
        BY <3>5, <3>7, <3>8
    <2> QED
      BY <1>4, <1>9, <2>1, <2>2
  <1>10. Held'
    <2>1. agent'.pc = "applied" => offers.move
      BY <1>2
    <2>2. agent'.pc = "copied" => ~offers.move
      BY <1>2
    <2> QED
      BY <1>0, <1>1, <1>2, <1>3, <1>8, <1>9 DEF Held
  <1>11. ASSUME w \notin doubt' PROVE Clear(w)'
    <2>1. Lone(server', w) \/ Copied(server', epoch, row)
      BY <1>8, <1>9, <1>11
    <2>2. \A b \in Box \ {row.box} : Uids(server[b], w) # {} => Uids(server'[b], w) # {}
      <3>1. CASE offers.move
        <4>1. ASSUME NEW b \in Box \ {row.box}, Uids(server[b], w) # {} PROVE Uids(server'[b], w) # {}
          <5>1. Lone(server, w) /\ row.uid \in Uids(server[row.box], w)
            BY <1>7, <1>11, <3>1 DEF Copied
          <5> QED
            BY <1>3, <4>1, <5>1 DEF Lone
        <4> QED
          BY <4>1
      <3> QED
        BY <1>9, <1>11, <3>1
    <2> HIDE DEF row
    <2> QED
      BY <1>1, <1>3, <1>7, <1>11, <2>1, <2>2, ServerClear DEF row
  <1> QED
    BY <1>0, <1>a, <1>1, <1>2, <1>5, <1>6, <1>10, <1>11, CommandStep

LEMMA ApplyF == ASSUME IInv, FInv, Apply PROVE FInv'
  <1>1. queue[agent.row].type \in {"setflags", "delete", "move"}
    BY DEF Apply
  <1> QED
    BY <1>1, FlagF, ExpungedF, MovedF

-----------------------------------------------------------------------------
(* Transactions of users.                                                  *)

\* place_pending writes no place twice, and ahead of the server it stands alone.
LEMMA PendingPlaces ==
  ASSUME NEW ps, PlacedOnce(ps), NEW m, NEW b, NEW seen
  PROVE  LET qs == WithPending(ps, m, b, seen) IN
         /\ PlacedOnce(qs)
         /\ \A p \in qs : p \in ps \/ (p.msg = m /\ p.box = b /\ is_pending(p))
         /\ (\A p, q \in ps : p.msg = m /\ q.msg = m /\ p.box = q.box /\ is_pending(p) => is_pending(q))
            => \A p, q \in qs : p.msg = m /\ q.msg = m /\ p.box = q.box /\ is_pending(p) => is_pending(q)
  <1> DEFINE there == {p \in ps : p.msg = m /\ p.box = b}
             ahead == {p \in there : is_pending(p)}
             new == At(m, b, Ahead, seen, 0)
             qs == WithPending(ps, m, b, seen)
  <1>1. new.msg = m /\ new.box = b /\ new.uid = 0 /\ is_pending(new)
    BY DEF At, Ahead, is_pending
  <1> HIDE DEF new
  <1>2. CASE there \ ahead # {} /\ ahead = {}
    <2>1. qs = ps
      BY <1>2 DEF WithPending
    <2> HIDE DEF qs
    <2> QED
      BY <2>1 DEF qs
  <1>3. CASE ~(there \ ahead # {} /\ ahead = {})
    <2>1. qs = (ps \ ahead) \cup {new}
      BY <1>3 DEF WithPending, new
    <2> HIDE DEF qs
    <2>2. \A p \in ps : is_pending(p) /\ p.msg = m /\ p.box = b => p \in ahead
      OBVIOUS
    <2>3. ASSUME NEW p \in ps \ ahead, p.box = b, p.uid = 0, p.msg = m PROVE FALSE
      BY <2>2, <2>3 DEF is_pending, Ahead
    <2>4. PlacedOnce(qs)
      <3> SUFFICES ASSUME NEW p \in qs, NEW q \in qs, p.box = q.box, p.uid = q.uid,
                          is_pending(p) => p.msg = q.msg
                   PROVE  p = q
        BY DEF PlacedOnce
      <3>1. CASE p = new
        BY <1>1, <2>1, <2>3, <3>1
      <3>2. CASE q = new /\ p # new
        BY <1>1, <2>1, <2>3, <3>2 DEF is_pending, Ahead
      <3>3. CASE p # new /\ q # new
        BY <2>1, <3>3 DEF PlacedOnce
      <3> QED
        BY <3>1, <3>2, <3>3
    <2>5. \A p \in qs : p \in ps \/ (p.msg = m /\ p.box = b /\ is_pending(p))
      BY <1>1, <2>1
    <2>6. ASSUME \A p, q \in ps : p.msg = m /\ q.msg = m /\ p.box = q.box /\ is_pending(p) => is_pending(q),
                 NEW p \in qs, NEW q \in qs, p.msg = m, q.msg = m, p.box = q.box, is_pending(p)
          PROVE  is_pending(q)
      <3>1. CASE p.box = b
        <4>1. q = new \/ (q \in there /\ q \notin ahead)
          BY <2>1, <2>6, <3>1
        <4>2. ASSUME q \in there, q \notin ahead PROVE FALSE
          <5>1. ahead # {}
            BY <1>3, <4>2
          <5>2. PICK x \in ps : x.msg = m /\ x.box = b /\ is_pending(x)
            BY <5>1
          <5> QED
            BY <2>6, <3>1, <4>2, <5>2
        <4> QED
          BY <1>1, <4>1, <4>2
      <3>2. CASE p.box # b
        BY <1>1, <2>1, <2>6, <3>2
      <3> QED
        BY <3>1, <3>2
    <2> QED
      BY <2>4, <2>5, <2>6 DEF qs
  <1> QED
    BY <1>2, <1>3

\* A transaction that writes of one message, and rewrites no row the agent holds.
LEMMA DeskStep ==
  ASSUME IInv, FInv, NEW w \in Msg, PlacedOnce(place'), \A p \in place' : p \in place \/ p.msg = w,
         DOMAIN queue \subseteq DOMAIN queue',
         \A i \in DOMAIN queue :
            /\ queue'[i].msg = queue[i].msg
            /\ queue[i].msg # w \/ queue[i].status = "leased" => queue'[i] = queue[i],
         \A i \in DOMAIN queue' \ DOMAIN queue : queue'[i].msg = w,
         UNCHANGED <<server, epoch, offers, agent>>, doubt \subseteq doubt',
         wish' = wish \/ (\E b \in Box \cup {"none"} : wish' = [wish EXCEPT ![w] = b]),
         w \notin doubt' => Clear(w)'
  PROVE  FInv'
  <1>1. wish \in [Msg -> Box \cup {"none"}]
    BY DEF FInv
  <1>2. wish' \in [Msg -> Box \cup {"none"}] /\ \A m \in Msg : m # w => wish'[m] = wish[m]
    BY <1>1
  <1>3. Once'
    BY DEF FInv, Once
  <1>4. Held'
    <2>1. agent.pc \in Holding => agent.row \in DOMAIN queue /\ queue[agent.row].status = "leased"
      BY DEF IInv, AgentOK, FInv, Held
    <2>2. agent.pc \in Holding => queue'[agent.row] = queue[agent.row]
      BY <2>1
    <2> QED
      BY <2>2, HeldKept DEF FInv
  <1>5. ASSUME NEW m \in Msg \ doubt', m # w
        PROVE  wish'[m] = wish[m] /\ RowsSame(m) /\ UidsSame(m) /\ PlaceSame(m)
    <2>1. \A i \in DOMAIN queue : queue[i].msg = m => RowSame(i)
      BY <1>5 DEF RowSame
    <2>2. RowsSame(m)
      BY <1>5, <2>1, RowsApart
    <2>3. PlaceSame(m)
      BY <1>5 DEF PlaceSame, Locations
    <2> QED
      BY <1>2, <1>5, <2>2, <2>3, UidsKept
  <1> QED
    BY <1>2, <1>3, <1>4, <1>5, OwnStep

\* Nothing competes with a row: no other that files the message is at work.
LEMMA Unrivalled ==
  ASSUME IInv, NEW m, NEW i, ~Rivalled(m, i) PROVE Working(m) \subseteq {i}
BY DEF Rivalled, Working, Mine, AtWork, RowsOf, Live

\* A message at rest is taken out of a folder by a row of its own.
LEMMA AppendedClear ==
  ASSUME IInv, NEW m \in Msg, Clear(m), Working(m) = {}, PlacedOnce(place),
         NEW loc \in Locations(m), ~is_pending(loc), NEW r,
         r.msg = m, Files(r), r.status = "pending", r.box = loc.box, r.uid = loc.uid,
         r.epoch = loc.era, r.type = "move" => r.to \in Box /\ r.to # loc.box,
         r.type = "delete" => r.to \notin Box,
         NEW k, k = Len(queue) + 1, DOMAIN queue' = DOMAIN queue \cup {k}, queue'[k] = r,
         \A j \in DOMAIN queue : SaysSame(j),
         UNCHANGED <<server, epoch, offers>>,
         \A p \in Locations(m)' :
            p \in Locations(m) \ {loc} \/ (r.type = "move" /\ p.box = r.to /\ is_pending(p)),
         Apart(m)',
         wish'[m] = "none" \/ (r.type = "move" /\ wish'[m] = r.to)
  PROVE  Clear(m)'
  <1>1. /\ queue \in Seq(RowSet) /\ Len(queue) \in Nat /\ DOMAIN queue = 1..Len(queue)
    BY DEF IInv, QueueGood
  <1>2. k \notin DOMAIN queue /\ \A j \in DOMAIN queue : j <= k /\ j \in Nat
    BY <1>1
  <1>3. Mine(m)' = Mine(m) \cup {k}
    BY <1>2 DEF Mine, Files, SaysSame
  <1>4. Working(m)' = {k}
    <2>1. \A j \in Mine(m) : j \in DOMAIN queue /\ ~AtWork(queue[j])
      BY DEF Working, Mine
    <2>2. \A j \in Mine(m) : ~AtWork(queue'[j])
      BY <2>1 DEF AtWork, Files, SaysSame
    <2>3. AtWork(queue'[k])
      BY DEF AtWork, Live
    <2> QED
      BY <1>3, <2>2, <2>3 DEF Working
  <1>5. LastWorks(m)'
    BY <1>1, <1>2, <1>3, <1>4 DEF LastWorks, Mine
  <1>6. StaysFiled(m)'
    <2> SUFFICES ASSUME NEW p \in Locations(m)', p.box = loc.box, p.uid = loc.uid PROVE p.era # loc.era
      BY <1>4 DEF StaysFiled, In
    <2>1. p \in Locations(m) \ {loc}
      OBVIOUS
    <2> QED
      BY <2>1 DEF PlacedOnce, Locations
  <1>7. OneCopyThere(m)'
    BY DEF Clear, OneCopyThere
  <1>8. WishHeld(m)'
    BY <1>4 DEF WishHeld
  <1>9. ShelvedHome(m)'
    <2> SUFFICES ASSUME NEW j \in Mine(m)', Shelved(queue'[j]), \A h \in Mine(m)' : h <= j PROVE FALSE
      BY DEF ShelvedHome
    <2>1. j = k
      BY <1>1, <1>2, <1>3 DEF Mine
    <2> QED
      BY <2>1 DEF Shelved
  <1>10. NoneHome(m)'
    <2> SUFFICES ASSUME NEW p \in Locations(m)', p.box = loc.box PROVE ~is_pending(p)
      BY <1>4 DEF NoneHome, In
    <2> QED
      BY DEF Clear, Apart
  <1>11. Backed(m)'
    <2> SUFFICES ASSUME NEW p \in Locations(m)', is_pending(p)
                 PROVE  r.to = p.box \/ Uids(server[p.box], m) # {}
      BY <1>4 DEF Backed
    <2> QED
      BY DEF Clear, Backed
  <1>12. Aimed(m)'
    BY <1>3 DEF Clear, Aimed, Mine, SaysSame
  <1> QED
    BY <1>5, <1>6, <1>7, <1>8, <1>9, <1>10, <1>11, <1>12 DEF Clear

\* The row at work is aimed elsewhere.
LEMMA AimedClear ==
  ASSUME IInv, NEW m \in Msg, Clear(m), ~HalfMade(m), NEW i \in Working(m), queue[i].type = "move",
         UNCHANGED <<server, epoch, offers>>,
         DOMAIN queue' = DOMAIN queue, \A j \in DOMAIN queue : j # i => SaysSame(j),
         NEW b \in Box, b # queue[i].box,
         queue'[i].msg = m, queue'[i].type = "move", queue'[i].to = b,
         queue'[i].box = queue[i].box, queue'[i].status = queue[i].status,
         queue'[i].uid = queue[i].uid, queue'[i].epoch = queue[i].epoch,
         queue'[i].attempts = queue[i].attempts,
         \A p \in Locations(m)' :
            \/ p \in Locations(m) /\ (is_pending(p) => p.box # queue[i].to)
            \/ is_pending(p) /\ p.box = b,
         Apart(m)', wish'[m] = b
  PROVE  Clear(m)'
  <1>1. /\ Working(m) = {i} /\ i \in Mine(m) /\ queue[i].status \in Live
        /\ \A j \in Mine(m) : j <= i /\ ((\A k \in Mine(m) : k <= j) => j = i)
    BY Alone DEF Clear
  <1>2. /\ i \in DOMAIN queue /\ queue[i].msg = m /\ queue[i].uid # 0
    BY <1>1, MineType
  <1>3. Mine(m)' = Mine(m)
    BY <1>1, <1>2 DEF Mine, Files, SaysSame
  <1>4. Working(m)' = {i}
    <2>1. \A j \in Mine(m) : j # i => ~AtWork(queue[j]) /\ j \in DOMAIN queue
      BY <1>1 DEF Working, Mine
    <2>2. \A j \in Mine(m) : j # i => ~AtWork(queue'[j])
      BY <2>1 DEF AtWork, Files, SaysSame
    <2>3. AtWork(queue'[i])
      BY <1>1 DEF AtWork, Files
    <2> QED
      BY <1>1, <1>3, <2>2, <2>3 DEF Working
  <1>5. LastWorks(m)'
    BY <1>1, <1>3, <1>4 DEF LastWorks
  <1>6. StaysFiled(m)'
    <2> SUFFICES ASSUME queue[i].attempts < StuckAfter, NEW p \in Locations(m)',
                        p.box = queue[i].box, p.uid = queue[i].uid
                 PROVE  p.era # queue[i].epoch
      BY <1>4 DEF StaysFiled, In
    <2>1. p \in Locations(m)
      OBVIOUS
    <2> QED
      BY <2>1 DEF Clear, StaysFiled, In
  <1>7. Lone(server, m)
    BY StillHome
  <1>8. OneCopyThere(m)'
    BY <1>7 DEF OneCopyThere
  <1>9. WishHeld(m)'
    BY <1>4 DEF WishHeld
  <1>10. ShelvedHome(m)'
    <2> SUFFICES ASSUME NEW j \in Mine(m), Shelved(queue'[j]), \A k \in Mine(m) : k <= j PROVE FALSE
      BY <1>3 DEF ShelvedHome
    <2>1. j = i
      BY <1>1
    <2> QED
      BY <1>1, <2>1 DEF Shelved, Live
  <1>11. NoneHome(m)'
    <2> SUFFICES ASSUME NEW p \in Locations(m)', p.box = queue[i].box PROVE ~is_pending(p)
      BY <1>4 DEF NoneHome, In
    <2>1. p \in Locations(m)
      OBVIOUS
    <2> QED
      BY <2>1 DEF Clear, NoneHome, In
  <1>12. Backed(m)'
    <2> SUFFICES ASSUME NEW p \in Locations(m)', is_pending(p)
                 PROVE  b = p.box \/ Uids(server[p.box], m) # {}
      BY <1>4 DEF Backed
    <2> QED
      BY <1>1 DEF Clear, Backed
  <1>13. Aimed(m)'
    BY <1>3 DEF Clear, Aimed, Mine, SaysSame
  <1> QED
    BY <1>5, <1>6, <1>8, <1>9, <1>10, <1>11, <1>12, <1>13 DEF Clear

LEMMA PurgeF ==
  ASSUME IInv, FInv, ~EarlyPress, NEW m \in Msg, NEW loc \in Locations(m), Purge(m, loc) PROVE FInv'
  <1> DEFINE r == Row("delete", loc, mailbox[Trash].epoch, "none", loc.seen)
             k == Len(queue) + 1
  <1>1. /\ loc \in place /\ loc.msg = m /\ loc.box = Trash /\ ~is_pending(loc)
        /\ loc.era = mailbox[Trash].epoch
    BY DEF Purge, In, Locations, Pressable
  <1>2. /\ place' = place \ {loc} /\ queue' = Append(queue, r)
        /\ wish' = [wish EXCEPT ![m] = "none"]
        /\ doubt' = IF Rivalled(m, 0) THEN doubt \cup {m} ELSE doubt
        /\ UNCHANGED <<server, epoch, offers, agent>>
    BY DEF Purge, imap
  <1>3. /\ r.msg = m /\ r.type = "delete" /\ r.status = "pending" /\ r.box = loc.box
        /\ r.uid = loc.uid /\ r.epoch = loc.era /\ r.to = "none"
    BY <1>1 DEF Row
  <1> HIDE DEF r
  <1>4. /\ DOMAIN queue' = DOMAIN queue \cup {k} /\ queue'[k] = r
        /\ \A j \in DOMAIN queue : queue'[j] = queue[j]
    <2>1. queue \in Seq(RowSet)
      BY DEF IInv, QueueGood
    <2> QED
      BY <1>2, <2>1
  <1>5. PlacedOnce(place) /\ wish \in [Msg -> Box \cup {"none"}]
    BY DEF FInv, Once
  <1>6. ASSUME m \notin doubt' PROVE Clear(m)'
    <2>1. Clear(m) /\ ~Rivalled(m, 0)
      BY <1>2, <1>6 DEF FInv
    <2>2. Working(m) = {}
      <3>1. Working(m) \subseteq {0}
        BY <2>1, Unrivalled
      <3>2. 0 \notin DOMAIN queue
        BY DEF IInv, QueueGood
      <3> QED
        BY <3>1, <3>2 DEF Working, Mine
    <2>3. Apart(m)'
      BY <1>2, <2>1 DEF Clear, Apart, Locations
    <2>4. \A p \in Locations(m)' : p \in Locations(m) \ {loc}
      BY <1>2 DEF Locations
    <2>5. wish'[m] = "none"
      BY <1>2, <1>5
    <2>6. \A j \in DOMAIN queue : SaysSame(j)
      BY <1>4 DEF SaysSame
    <2>7. Files(r) /\ r.to \notin Box
      BY <1>3, NoneAssumption DEF Files
    <2> QED
      BY <1>1, <1>2, <1>3, <1>4, <1>5, <2>1, <2>2, <2>3, <2>4, <2>5, <2>6, <2>7, AppendedClear
  <1>7. PlacedOnce(place') /\ \A p \in place' : p \in place \/ p.msg = m
    BY <1>2, <1>5 DEF PlacedOnce
  <1>8. \E b \in Box \cup {"none"} : wish' = [wish EXCEPT ![m] = b]
    BY <1>2
  <1>9. doubt \subseteq doubt'
    BY <1>2
  <1> QED
    BY <1>2, <1>3, <1>4, <1>6, <1>7, <1>8, <1>9, DeskStep

LEMMA CancelF == ASSUME IInv, FInv, NEW i \in DOMAIN queue, CancelMove(i) PROVE FInv'
  <1>0. PICK m \in Msg : m = queue[i].msg
    BY RowIs
  <1> DEFINE row == queue[i]
             rest == WithoutPending(place, m, row.to)
             back == At(m, row.box, row.uid, row.seen, row.epoch)
             r == [row EXCEPT !.status = "undone", !.undone = TRUE]
  <1>1. /\ row \in RowSet /\ queue \in Seq(RowSet) /\ row.box \in Box /\ row.uid # 0
        /\ row.type = "move" /\ row.to \in Box /\ row.to # row.box /\ row.status \in Status
    BY RowIs DEF CancelMove, Undoable, RowSet
  <1>2. /\ row.status \in {"pending", "refused", "undone"} /\ ~row.undone
        /\ ~Taken(rest, row) /\ place' = restore(rest, row)
        /\ wish' = IF Newest(i) THEN [wish EXCEPT ![m] = row.box] ELSE wish
        /\ doubt' = IF HalfMade(m) \/ Rivalled(m, i) THEN doubt \cup {m} ELSE doubt
        /\ UNCHANGED <<server, epoch, offers, agent>>
    BY <1>0, <1>1 DEF CancelMove, Undoable, imap, Status
  <1>3. queue' = [queue EXCEPT ![i] = r]
    BY <1>1 DEF CancelMove, Undone, RowSet
  <1>4. /\ r.msg = m /\ r.box = row.box /\ r.uid = row.uid /\ r.epoch = row.epoch
        /\ r.type = row.type /\ r.to = row.to /\ r.status = "undone" /\ ~Shelved(r)
    BY <1>0, <1>1 DEF RowSet, Shelved
  <1> HIDE DEF r
  <1>5. /\ DOMAIN queue' = DOMAIN queue /\ queue'[i] = r
        /\ \A j \in DOMAIN queue : j # i => queue'[j] = queue[j]
    BY <1>3
  <1>6. back.msg = m /\ back.box = row.box /\ back.uid = row.uid /\ ~is_pending(back)
    BY <1>1 DEF At, is_pending, Ahead
  <1>7. /\ \A p \in rest : p \in place /\ ~(p.msg = m /\ p.box = row.to /\ is_pending(p))
        /\ \/ place' = rest
           \/ place' = rest \cup {back} /\ \A p \in rest : ~(p.msg = m /\ p.box = row.box)
    BY <1>0, <1>2 DEF restore, WithoutPending
  <1>8. \A p \in rest : ~(p.box = row.box /\ p.uid = row.uid /\ p.msg # m)
    BY <1>0, <1>2 DEF Taken
  <1> HIDE DEF rest, back
  <1>9. PlacedOnce(place) /\ wish \in [Msg -> Box \cup {"none"}]
    BY DEF FInv, Once
  <1>10. PlacedOnce(place')
    <2> SUFFICES ASSUME NEW p \in place', NEW q \in place', p.box = q.box, p.uid = q.uid,
                        is_pending(p) => p.msg = q.msg
                 PROVE  p = q
      BY DEF PlacedOnce
    <2>1. CASE p \in rest /\ q \in rest
      BY <1>7, <1>9, <2>1 DEF PlacedOnce
    <2>2. CASE p = back /\ q \in rest /\ place' # rest
      BY <1>6, <1>7, <1>8, <2>2
    <2>3. CASE q = back /\ p \in rest /\ place' # rest
      BY <1>6, <1>7, <1>8, <2>3
    <2> QED
      BY <1>7, <2>1, <2>2, <2>3
  <1>11. \A p \in place' : p \in place \/ p.msg = m
    BY <1>6, <1>7
  <1>12. ASSUME m \notin doubt' PROVE Clear(m)'
    <2>1. Clear(m) /\ ~HalfMade(m) /\ Working(m) \subseteq {i}
      BY <1>2, <1>12, Unrivalled DEF FInv
    <2>2. i \in Mine(m)
      BY <1>0, <1>1 DEF Mine, Files
    <2>3. Apart(m)'
      <3> SUFFICES ASSUME NEW p \in Locations(m)', NEW q \in Locations(m)', p.box = q.box, is_pending(p)
                   PROVE  is_pending(q)
        BY DEF Apart
      <3>1. p \in rest
        BY <1>6, <1>7 DEF Locations
      <3>2. q \in rest
        BY <1>6, <1>7, <3>1 DEF Locations
      <3> QED
        BY <1>7, <2>1, <3>1, <3>2 DEF Clear, Apart, Locations
    <2>4. \A p \in Locations(m)' : is_pending(p) => p \in Locations(m) /\ p.box # row.to
      BY <1>6, <1>7 DEF Locations
    <2>5. CASE i \in Working(m)
      <3>1. OnlyIn(server, m, row.box) /\ Lone(server, m)
        BY <1>1, <2>1, <2>5, StillHome
      <3>2. Newest(i)
        BY <1>0, <2>1, <2>5 DEF Clear, LastWorks, Newest, Mine
      <3>3. wish'[m] = row.box
        BY <1>2, <1>9, <3>2
      <3>4. \A j \in DOMAIN queue : j # i => SaysSame(j)
        BY <1>5 DEF SaysSame
      <3> HIDE DEF row
      <3> QED
        BY <1>2, <1>4, <1>5, <2>1, <2>3, <2>4, <2>5, <3>1, <3>3, <3>4, SettledClear DEF row, Live
    <2>6. CASE i \notin Working(m)
      <3>1. Working(m) = {} /\ Shelved(row)
        BY <1>1, <1>2, <2>1, <2>2, <2>6 DEF Working, AtWork, Shelved, Files, Live
      <3>2. Mine(m)' = Mine(m)
        BY <1>0, <1>4, <1>5 DEF Mine, Files
      <3>3. Working(m)' = {}
        <4>1. \A j \in Mine(m) : j \in DOMAIN queue /\ ~AtWork(queue[j])
          BY <3>1 DEF Working, Mine
        <4>2. ~AtWork(r)
          BY <1>4 DEF AtWork, Live
        <4>3. \A j \in Mine(m) : ~AtWork(queue'[j])
          BY <1>5, <4>1, <4>2
        <4> QED
          BY <3>2, <4>3 DEF Working
      <3>4. (LastWorks(m) /\ StaysFiled(m) /\ NoneHome(m))'
        BY <3>3 DEF LastWorks, StaysFiled, NoneHome
      <3>5. OneCopyThere(m)'
        BY <1>2, <2>1, <3>1 DEF Clear, OneCopyThere
      <3>6. WishHeld(m)'
        <4>1. CASE Newest(i)
          <5>1. \A j \in Mine(m) : j <= i
            BY <1>0, <4>1 DEF Newest, Mine
          <5>2. OnlyIn(server, m, row.box)
            BY <1>1, <2>1, <2>2, <3>1, <5>1 DEF Clear, ShelvedHome
          <5> QED
            BY <1>2, <1>9, <3>3, <4>1, <5>2 DEF WishHeld
        <4>2. CASE ~Newest(i)
          BY <1>2, <2>1, <3>1, <3>3, <4>2 DEF Clear, WishHeld
        <4> QED
          BY <4>1, <4>2
      <3>7. ShelvedHome(m)'
        <4> SUFFICES ASSUME NEW j \in Mine(m), Shelved(queue'[j]), queue'[j].type = "move",
                            \A k \in Mine(m) : k <= j
                     PROVE  OnlyIn(server, m, queue'[j].box)
          BY <1>2, <3>2 DEF ShelvedHome
        <4>1. j # i /\ queue'[j] = queue[j]
          BY <1>4, <1>5 DEF Mine
        <4> QED
          BY <2>1, <4>1 DEF Clear, ShelvedHome
      <3>8. Backed(m)'
        BY <1>2, <2>1, <2>4, <3>1, <3>3 DEF Clear, Backed
      <3>9. Aimed(m)'
        BY <1>4, <1>5, <2>1, <3>2 DEF Clear, Aimed, Mine
      <3> QED
        BY <2>3, <3>4, <3>5, <3>6, <3>7, <3>8, <3>9 DEF Clear
    <2> QED
      BY <2>5, <2>6
  <1>13. \A j \in DOMAIN queue :
           /\ queue'[j].msg = queue[j].msg
           /\ queue[j].msg # m \/ queue[j].status = "leased" => queue'[j] = queue[j]
    BY <1>0, <1>2, <1>4, <1>5
  <1>14. doubt \subseteq doubt' /\ (wish' = wish \/ \E b \in Box \cup {"none"} : wish' = [wish EXCEPT ![m] = b])
    BY <1>1, <1>2
  <1> HIDE DEF row
  <1> QED
    BY <1>2, <1>5, <1>10, <1>11, <1>12, <1>13, <1>14, DeskStep

\* What a move comes to.
Outcome(m, loc, b, i, filed, rows, back, out) ==
    \/ /\ ~is_pending(loc) /\ out.place = filed
       /\ out.queue = rows
    \/ /\ is_pending(loc) /\ Queued(m) = {}
       /\ out.place = filed /\ out.queue = queue
    \/ /\ is_pending(loc) /\ i \in Queued(m) /\ b # queue[i].box
       /\ out.place = filed /\ out.queue = [queue EXCEPT ![i].to = b, ![i].type = "move"]
    \/ /\ is_pending(loc) /\ i \in Queued(m) /\ b = queue[i].box
       /\ out.queue = [queue EXCEPT ![i].status = "gone"]
       /\ \/ out.place = filed
          \/ /\ out.place = (place \ {loc}) \cup {back}
             /\ ~\E p \in place \ {loc} : p.box = b /\ p.uid = queue[i].uid

LEMMA MoveToCases ==
  ASSUME IInv, NEW m \in Msg, NEW loc \in Locations(m), NEW b, NEW out, out = move_to(m, loc, b), out.ok,
         NEW filed, filed = WithPending(place \ {loc}, m, b, loc.seen), NEW i, i = Max(Queued(m)),
         NEW rows, rows = Append(queue, Row("move", loc, mailbox[loc.box].epoch, b, loc.seen)),
         NEW back, back = At(m, b, queue[i].uid, loc.seen, queue[i].epoch)
  PROVE  Outcome(m, loc, b, i, filed, rows, back, out)
  <1> DEFINE rest  == place \ {loc}
             gone  == [queue EXCEPT ![i].status = "gone"]
             aimed == [queue EXCEPT ![i].to = b, ![i].type = "move"]
  <1>1. \A ps, qs, k : Kept(ps, qs, k).place = ps /\ Kept(ps, qs, k).queue = qs
    BY DEF Kept
  <1>2. ~Nothing.ok
    BY DEF Nothing
  <1>3. Queued(m) # {} => i \in Queued(m)
    BY QueueFinite, MaxIn DEF Queued, RowsOf, IInv
  <1>4. CASE ~is_pending(loc)
    <2>1. out = [ok |-> TRUE, place |-> filed, queue |-> rows, top |-> Len(queue) + 1]
      BY <1>4 DEF move_to, Kept
    <2>2. out.place = filed
      BY <2>1
    <2>3. out.queue = rows
      BY <2>1
    <2> QED
      BY <1>4, <2>2, <2>3 DEF Outcome
  <1>5. CASE is_pending(loc) /\ Queued(m) = {}
    <2>1. out = Kept(filed, queue, 0)
      BY <1>2, <1>5 DEF move_to
    <2>2. out.place = filed /\ out.queue = queue
      BY <1>1, <2>1
    <2> QED
      BY <1>5, <2>2 DEF Outcome
  <1>6. CASE is_pending(loc) /\ Queued(m) # {} /\ b # queue[i].box
    <2>1. out = Kept(filed, aimed, i)
      BY <1>6 DEF move_to, Retarget
    <2>2. out.place = filed /\ out.queue = aimed
      BY <1>1, <2>1
    <2> QED
      BY <1>3, <1>6, <2>2 DEF Outcome
  <1>7. CASE is_pending(loc) /\ Queued(m) # {} /\ b = queue[i].box
    <2>1. out = Home(m, loc, i)
      BY <1>7 DEF move_to, Retarget
    <2>2. \/ out = Kept(filed, gone, 0)
          \/ /\ out = Kept(rest \cup {back}, gone, 0)
             /\ ~\E p \in rest : p.box = b /\ p.uid = queue[i].uid
      BY <1>2, <1>7, <2>1 DEF Home
    <2>3. /\ out.queue = gone
          /\ \/ out.place = filed
             \/ out.place = rest \cup {back} /\ ~\E p \in rest : p.box = b /\ p.uid = queue[i].uid
      BY <1>1, <2>2
    <2> QED
      BY <1>3, <1>7, <2>3 DEF Outcome
  <1> QED
    BY <1>4, <1>5, <1>6, <1>7

\* The rows as the move leaves them, but for the row at u, the undo's own if it
\* is one.
Rewritten(out, u, m) ==
    /\ DOMAIN queue' = DOMAIN out.queue
    /\ \A j \in DOMAIN out.queue : j # u => queue'[j] = out.queue[j]
    /\ \/ u = 0
       \/ /\ u \in DOMAIN queue /\ queue[u].status = "done" /\ queue[u].msg = m
          /\ queue'[u].msg = out.queue[u].msg /\ queue'[u].type = out.queue[u].type
          /\ queue'[u].status = out.queue[u].status /\ queue'[u].to = out.queue[u].to

LEMMA MoveToF ==
  ASSUME IInv, FInv, ~EarlyPress, NEW m \in Msg, NEW loc \in Locations(m), Pressable(loc),
         NEW b \in Box, b # loc.box, NEW out, out = move_to(m, loc, b), out.ok,
         place' = out.place, NEW u, Rewritten(out, u, m),
         wish' = [wish EXCEPT ![m] = b],
         doubt' = IF Misled(m, loc) THEN doubt \cup {m} ELSE doubt,
         UNCHANGED <<server, epoch, offers, agent>>
  PROVE  FInv'
  <1> USE DEF Rewritten
  <1> DEFINE k     == Len(queue) + 1
             r     == Row("move", loc, mailbox[loc.box].epoch, b, loc.seen)
  <1>a. PICK filed : filed = WithPending(place \ {loc}, m, b, loc.seen)
    OBVIOUS
  <1>b. PICK i : i = Max(Queued(m))
    OBVIOUS
  <1>c. PICK back : back = At(m, b, queue[i].uid, loc.seen, queue[i].epoch)
    OBVIOUS
  <1>d. PICK rows : rows = Append(queue, r)
    OBVIOUS
  <1>1. /\ queue \in Seq(RowSet) /\ Len(queue) \in Nat /\ DOMAIN queue = 1..Len(queue)
    BY DEF IInv, QueueGood
  <1>2. /\ PlacedOnce(place) /\ wish \in [Msg -> Box \cup {"none"}]
        /\ loc \in place /\ loc.msg = m /\ loc.box \in Box
    BY DEF FInv, Once, Locations, IInv, PlaceGood, PlaceSet
  <1>3. wish'[m] = b /\ doubt \subseteq doubt'
    BY <1>2
  <1>4. \A j \in DOMAIN queue : queue[j].status = "pending" \/ queue[j].msg # m => j # u
    BY <1>1
  <1>5. PlacedOnce(place \ {loc})
    BY <1>2 DEF PlacedOnce
  <1>6. /\ PlacedOnce(filed)
        /\ \A p \in filed : p \in place \ {loc} \/ (p.msg = m /\ p.box = b /\ is_pending(p))
        /\ Apart(m) => \A p, q \in filed :
             p.msg = m /\ q.msg = m /\ p.box = q.box /\ is_pending(p) => is_pending(q)
    <2>1. Apart(m) => \A p, q \in place \ {loc} :
            p.msg = m /\ q.msg = m /\ p.box = q.box /\ is_pending(p) => is_pending(q)
      BY DEF Apart, Locations
    <2> DEFINE rest == place \ {loc}
    <2> HIDE DEF rest
    <2>2. PlacedOnce(rest) /\ (Apart(m) => \A p, q \in rest :
            p.msg = m /\ q.msg = m /\ p.box = q.box /\ is_pending(p) => is_pending(q))
      BY <1>5, <2>1 DEF rest
    <2>3. filed = WithPending(rest, m, b, loc.seen)
      BY <1>a DEF rest
    <2>4. /\ PlacedOnce(filed)
          /\ \A p \in filed : p \in rest \/ (p.msg = m /\ p.box = b /\ is_pending(p))
          /\ Apart(m) => \A p, q \in filed :
               p.msg = m /\ q.msg = m /\ p.box = q.box /\ is_pending(p) => is_pending(q)
      BY <2>2, <2>3, PendingPlaces
    <2> QED
      BY <2>4 DEF rest
  <1>7. Outcome(m, loc, b, i, filed, rows, back, out)
    BY <1>a, <1>b, <1>c, <1>d, MoveToCases
  <1>8. CASE ~is_pending(loc) /\ out.place = filed /\ out.queue = rows
    <2>1. /\ r.msg = m /\ r.type = "move" /\ r.status = "pending" /\ r.box = loc.box /\ r.uid = loc.uid
          /\ r.epoch = loc.era /\ r.to = b /\ Files(r)
      BY <1>2, <1>8 DEF Row, Pressable, Files
    <2> HIDE DEF r
    <2>2. /\ DOMAIN out.queue = DOMAIN queue \cup {k} /\ out.queue[k] = r /\ k \notin DOMAIN queue /\ k # 0
          /\ \A j \in DOMAIN queue : out.queue[j] = queue[j]
      BY <1>1, <1>8, <1>d
    <2> HIDE DEF k
    <2>a. /\ DOMAIN queue' = DOMAIN queue \cup {k} /\ queue'[k] = r
          /\ \A j \in DOMAIN queue : j # u => queue'[j] = queue[j]
      <3>1. k # u
        BY <2>2
      <3> QED
        BY <2>2, <3>1
    <2>b. ASSUME NEW j \in DOMAIN queue PROVE SaysSame(j)
      <3>1. CASE j = u
        BY <1>1, <2>2, <3>1 DEF SaysSame
      <3>2. CASE j # u
        BY <2>a, <3>2 DEF SaysSame
      <3> QED
        BY <3>1, <3>2
    <2>3. /\ DOMAIN queue' = DOMAIN queue \cup {k} /\ queue'[k] = r
          /\ \A j \in DOMAIN queue : SaysSame(j) /\ (j # u => queue'[j] = queue[j])
      BY <2>a, <2>b
    <2>4. ASSUME m \notin doubt' PROVE Clear(m)'
      <3>1. Clear(m) /\ ~Rivalled(m, 0)
        BY <1>8, <2>4 DEF FInv, Misled
      <3>2. Working(m) = {}
        <4>1. Working(m) \subseteq {0}
          BY <3>1, Unrivalled
        <4> QED
          BY <1>1, <4>1 DEF Working, Mine
      <3>3. \A p \in Locations(m)' :
              p \in Locations(m) \ {loc} \/ (r.type = "move" /\ p.box = r.to /\ is_pending(p))
        BY <1>6, <1>8, <2>1 DEF Locations
      <3>4. Apart(m)'
        BY <1>6, <1>8, <3>1 DEF Clear, Apart, Locations
      <3> QED
        BY <1>2, <1>3, <1>8, <2>1, <2>2, <2>3, <3>1, <3>2, <3>3, <3>4, AppendedClear DEF k
    <2>5. \A p \in place' : p \in place \/ p.msg = m
      BY <1>6, <1>8
    <2>6. \A j \in DOMAIN queue :
            /\ queue'[j].msg = queue[j].msg
            /\ queue[j].msg # m \/ queue[j].status = "leased" => queue'[j] = queue[j]
      BY <1>1, <2>3 DEF SaysSame
    <2> QED
      BY <1>3, <1>6, <1>8, <2>1, <2>3, <2>4, <2>5, <2>6, DeskStep
  <1>9. CASE is_pending(loc) /\ Queued(m) = {} /\ out.place = filed /\ out.queue = queue
    <2>1. m \in doubt'
      BY <1>9 DEF Misled
    <2>2. \A p \in place' : p \in place \/ p.msg = m
      BY <1>6, <1>9
    <2>3. \A j \in DOMAIN queue :
            /\ queue'[j].msg = queue[j].msg
            /\ queue[j].msg # m \/ queue[j].status = "leased" => queue'[j] = queue[j]
      BY <1>1, <1>9
    <2> QED
      BY <1>3, <1>6, <1>9, <2>1, <2>2, <2>3, DeskStep
  <1>10. ASSUME is_pending(loc), i \in Queued(m)
         PROVE  /\ i \in DOMAIN queue /\ i # u /\ queue[i] \in RowSet /\ queue[i].msg = m
                /\ queue[i].status = "pending" /\ i \in Mine(m) /\ i \in Working(m)
                /\ m \notin doubt' =>
                     /\ Clear(m) /\ ~HalfMade(m) /\ queue[i].type = "move"
                     /\ \A p \in Locations(m) \ {loc} : is_pending(p) => p.box # queue[i].to
    <2>1. i \in DOMAIN queue /\ queue[i].msg = m /\ Files(queue[i]) /\ queue[i].status = "pending"
      BY <1>10 DEF Queued, RowsOf
    <2>2. queue[i] \in RowSet /\ i # u /\ i \in Mine(m) /\ i \in Working(m)
      BY <1>1, <1>4, <2>1 DEF Mine, Working, AtWork, Live
    <2>3. ASSUME m \notin doubt'
          PROVE  /\ Clear(m) /\ ~HalfMade(m) /\ queue[i].type = "move"
                 /\ \A p \in Locations(m) \ {loc} : is_pending(p) => p.box # queue[i].to
      <3>1. Clear(m) /\ ~HalfMade(m) /\ queue[i].to = loc.box
        BY <1>10, <1>b, <2>3 DEF FInv, Misled
      <3>2. queue[i].type = "move"
        BY <1>2, <2>1, <2>2, <3>1 DEF Clear, Aimed, Files
      <3>3. ASSUME NEW p \in Locations(m) \ {loc}, is_pending(p), p.box = queue[i].to PROVE FALSE
        BY <1>2, <1>10, <3>1, <3>3 DEF PlacedOnce, Locations, is_pending
      <3> QED
        BY <3>1, <3>2, <3>3
    <2> QED
      BY <2>1, <2>2, <2>3
  <1>11. CASE /\ is_pending(loc) /\ i \in Queued(m) /\ b # queue[i].box
              /\ out.place = filed /\ out.queue = [queue EXCEPT ![i].to = b, ![i].type = "move"]
    <2> DEFINE s == [queue[i] EXCEPT !.to = b, !.type = "move"]
    <2>1. /\ i \in DOMAIN queue /\ i # u /\ queue[i] \in RowSet /\ queue[i].msg = m
          /\ queue[i].status = "pending"
      BY <1>10, <1>11
    <2>2. /\ s.msg = m /\ s.type = "move" /\ s.to = b /\ s.box = queue[i].box
          /\ s.status = queue[i].status /\ s.uid = queue[i].uid /\ s.epoch = queue[i].epoch
          /\ s.attempts = queue[i].attempts
      BY <2>1 DEF RowSet
    <2>3. out.queue = [queue EXCEPT ![i] = s]
      BY <1>1, <1>11, <2>1
    <2> HIDE DEF s
    <2>a. /\ DOMAIN out.queue = DOMAIN queue /\ out.queue[i] = s
          /\ \A j \in DOMAIN queue : j # i => out.queue[j] = queue[j]
      BY <1>1, <2>1, <2>3
    <2>b. /\ DOMAIN queue' = DOMAIN queue /\ queue'[i] = s
          /\ \A j \in DOMAIN queue : j # i /\ j # u => queue'[j] = queue[j]
      BY <2>1, <2>a
    <2>c. ASSUME NEW j \in DOMAIN queue, j # i PROVE SaysSame(j)
      <3>1. CASE j = u
        BY <1>1, <2>a, <2>c, <3>1 DEF SaysSame
      <3>2. CASE j # u
        BY <2>b, <2>c, <3>2 DEF SaysSame
      <3> QED
        BY <3>1, <3>2
    <2>4. /\ DOMAIN queue' = DOMAIN queue /\ queue'[i] = s
          /\ \A j \in DOMAIN queue : j # i => SaysSame(j) /\ (j # u => queue'[j] = queue[j])
      BY <2>b, <2>c
    <2>5. ASSUME m \notin doubt' PROVE Clear(m)'
      <3>1. /\ Clear(m) /\ ~HalfMade(m) /\ queue[i].type = "move" /\ i \in Working(m)
            /\ \A p \in Locations(m) \ {loc} : is_pending(p) => p.box # queue[i].to
        BY <1>10, <1>11, <2>5
      <3>2. \A p \in Locations(m)' :
              \/ p \in Locations(m) /\ (is_pending(p) => p.box # queue[i].to)
              \/ is_pending(p) /\ p.box = b
        BY <1>6, <1>11, <3>1 DEF Locations
      <3>3. Apart(m)'
        BY <1>6, <1>11, <3>1 DEF Clear, Apart, Locations
      <3>4. PICK h : h = i
        OBVIOUS
      <3> QED
        BY <1>3, <1>11, <2>1, <2>2, <2>4, <3>1, <3>2, <3>3, <3>4, AimedClear
    <2>6. \A p \in place' : p \in place \/ p.msg = m
      BY <1>6, <1>11
    <2>7. \A j \in DOMAIN queue :
            /\ queue'[j].msg = queue[j].msg
            /\ queue[j].msg # m \/ queue[j].status = "leased" => queue'[j] = queue[j]
      BY <1>1, <2>1, <2>2, <2>4 DEF SaysSame
    <2> QED
      BY <1>3, <1>6, <1>11, <2>4, <2>5, <2>6, <2>7, DeskStep
  <1>12. CASE /\ is_pending(loc) /\ i \in Queued(m) /\ b = queue[i].box
              /\ out.queue = [queue EXCEPT ![i].status = "gone"]
              /\ \/ out.place = filed
                 \/ /\ out.place = (place \ {loc}) \cup {back}
                    /\ ~\E p \in place \ {loc} : p.box = b /\ p.uid = queue[i].uid
    <2> DEFINE s == [queue[i] EXCEPT !.status = "gone"]
    <2>1. /\ i \in DOMAIN queue /\ i # u /\ queue[i] \in RowSet /\ queue[i].msg = m
          /\ queue[i].status = "pending" /\ queue[i].uid # 0
      BY <1>10, <1>12 DEF RowSet
    <2>2. /\ s.msg = m /\ s.type = queue[i].type /\ s.to = queue[i].to /\ s.box = queue[i].box
          /\ s.status = "gone" /\ ~Shelved(s) /\ s.status \notin Live
      BY <2>1 DEF RowSet, Shelved, Live
    <2>3. out.queue = [queue EXCEPT ![i] = s]
      BY <1>1, <1>12, <2>1
    <2> HIDE DEF s
    <2>a. /\ DOMAIN out.queue = DOMAIN queue /\ out.queue[i] = s
          /\ \A j \in DOMAIN queue : j # i => out.queue[j] = queue[j]
      BY <1>1, <2>1, <2>3
    <2>b. /\ DOMAIN queue' = DOMAIN queue /\ queue'[i] = s
          /\ \A j \in DOMAIN queue : j # i /\ j # u => queue'[j] = queue[j]
      BY <2>1, <2>a
    <2>c. ASSUME NEW j \in DOMAIN queue, j # i PROVE SaysSame(j)
      <3>1. CASE j = u
        BY <1>1, <2>a, <2>c, <3>1 DEF SaysSame
      <3>2. CASE j # u
        BY <2>b, <2>c, <3>2 DEF SaysSame
      <3> QED
        BY <3>1, <3>2
    <2>4. /\ DOMAIN queue' = DOMAIN queue /\ queue'[i] = s
          /\ \A j \in DOMAIN queue : j # i => SaysSame(j) /\ (j # u => queue'[j] = queue[j])
      BY <2>b, <2>c
    <2>5. back.msg = m /\ back.box = b /\ back.uid = queue[i].uid /\ ~is_pending(back)
      BY <1>c, <1>12, <2>1 DEF At, is_pending, Ahead
    <2>6. PlacedOnce(place') /\ \A p \in place' :
            p \in place \ {loc} \/ (p.msg = m /\ p.box = b)
      <3>1. CASE out.place = filed
        BY <1>6, <3>1
      <3>2. CASE /\ out.place = (place \ {loc}) \cup {back}
                 /\ ~\E p \in place \ {loc} : p.box = b /\ p.uid = queue[i].uid
        <4>1. PlacedOnce(place')
          <5> SUFFICES ASSUME NEW p \in place', NEW q \in place', p.box = q.box, p.uid = q.uid,
                              is_pending(p) => p.msg = q.msg
                       PROVE  p = q
            BY DEF PlacedOnce
          <5>1. CASE p # back /\ q # back
            BY <1>5, <3>2, <5>1 DEF PlacedOnce
          <5> QED
            BY <2>5, <3>2, <5>1
        <4> QED
          BY <2>5, <3>2, <4>1
      <3> QED
        BY <1>12, <3>1, <3>2
    <2>7. ASSUME m \notin doubt' PROVE Clear(m)'
      <3>1. /\ Clear(m) /\ ~HalfMade(m) /\ queue[i].type = "move" /\ i \in Working(m)
            /\ \A p \in Locations(m) \ {loc} : is_pending(p) => p.box # queue[i].to
        BY <1>10, <1>12, <2>7
      <3>2. OnlyIn(server, m, b) /\ Lone(server, m)
        BY <1>12, <3>1, StillHome
      <3>3. \A p \in Locations(m)' : is_pending(p) =>
              (p \in Locations(m) /\ p.box # queue[i].to) \/ Uids(server[p.box], m) # {}
        BY <2>6, <3>1, <3>2 DEF Locations, OnlyIn
      <3>4. Apart(m)'
        <4>1. CASE out.place = filed
          BY <1>6, <3>1, <4>1 DEF Clear, Apart, Locations
        <4>2. CASE out.place = (place \ {loc}) \cup {back}
          <5> SUFFICES ASSUME NEW p \in Locations(m)', NEW q \in Locations(m)', p.box = q.box, is_pending(p)
                       PROVE  is_pending(q)
            BY DEF Apart
          <5>1. p \in Locations(m)
            BY <2>5, <4>2 DEF Locations
          <5>2. p.box # b
            BY <1>12, <3>1, <5>1 DEF Clear, NoneHome, In
          <5>3. q \in Locations(m)
            BY <2>5, <4>2, <5>2 DEF Locations
          <5> QED
            BY <3>1, <5>1, <5>3 DEF Clear, Apart
        <4> QED
          BY <1>12, <4>1, <4>2
      <3> QED
        BY <1>3, <1>12, <2>1, <2>2, <2>4, <3>1, <3>2, <3>3, <3>4, SettledClear
    <2>8. \A j \in DOMAIN queue :
            /\ queue'[j].msg = queue[j].msg
            /\ queue[j].msg # m \/ queue[j].status = "leased" => queue'[j] = queue[j]
      BY <1>1, <2>1, <2>2, <2>4 DEF SaysSame
    <2> QED
      BY <1>3, <2>4, <2>6, <2>7, <2>8, DeskStep
  <1> QED
    BY <1>7, <1>8, <1>9, <1>11, <1>12 DEF Outcome

LEMMA MoveF ==
  ASSUME IInv, FInv, ~EarlyPress, NEW m \in Msg, NEW loc \in Locations(m), NEW b \in Box, Move(m, loc, b)
  PROVE  FInv'
  <1>1. PICK out : out = move_to(m, loc, b)
    OBVIOUS
  <1>2. /\ out.ok /\ place' = out.place /\ queue' = out.queue /\ b # loc.box /\ Pressable(loc)
        /\ wish' = [wish EXCEPT ![m] = b]
        /\ doubt' = IF Misled(m, loc) THEN doubt \cup {m} ELSE doubt
        /\ UNCHANGED <<server, epoch, offers, agent>>
    BY <1>1 DEF Move, Commit, imap
  <1>3. Rewritten(out, 0, m)
    BY <1>2 DEF Rewritten
  <1> QED
    BY <1>1, <1>2, <1>3, MoveToF

LEMMA ReverseF == ASSUME IInv, FInv, ~EarlyPress, NEW i \in DOMAIN queue, ReverseMove(i) PROVE FInv'
  <1>1. PICK m \in Msg : m = queue[i].msg
    BY RowIs
  <1>2. PICK b \in Box : b = queue[i].box
    BY RowIs
  <1>3. queue[i].type = "move" /\ queue[i].status = "done" /\ queue[i].to # b
    BY <1>2, RowIs DEF ReverseMove, Undoable
  <1>4. PICK loc \in In(m, queue[i].to) :
          /\ Pressable(loc) /\ move_to(m, loc, b).ok /\ place' = move_to(m, loc, b).place
          /\ queue' = Undone([move_to(m, loc, b).queue EXCEPT ![i].fresh = TRUE], i)
          /\ doubt' = IF Misled(m, loc) THEN doubt \cup {m} ELSE doubt
    BY <1>1, <1>2 DEF ReverseMove
  <1>5. loc \in Locations(m) /\ loc.box # b
    BY <1>3 DEF In
  <1>6. PICK out : out = move_to(m, loc, b)
    OBVIOUS
  <1>7. Sound(out)
    BY <1>4, <1>5, <1>6, MoveSound
  <1>8. i \in DOMAIN out.queue /\ out.queue \in Seq(RowSet) /\ out.queue[i] \in RowSet
    <2>1. i \in DOMAIN out.queue /\ out.queue \in Seq(RowSet)
      BY <1>7 DEF Sound, QueueGood, Keeps
    <2> QED
      BY <2>1
  <1> DEFINE s == [out.queue[i] EXCEPT !.fresh = TRUE, !.undone = TRUE]
  <1>9. queue' = [out.queue EXCEPT ![i] = s]
    BY <1>4, <1>6, <1>8 DEF Undone, RowSet
  <1>10. /\ s.msg = out.queue[i].msg /\ s.type = out.queue[i].type
         /\ s.status = out.queue[i].status /\ s.to = out.queue[i].to
    BY <1>8 DEF RowSet
  <1> HIDE DEF s
  <1>11. /\ DOMAIN queue' = DOMAIN out.queue
         /\ \A j \in DOMAIN out.queue : j # i => queue'[j] = out.queue[j]
         /\ queue'[i].msg = out.queue[i].msg /\ queue'[i].type = out.queue[i].type
         /\ queue'[i].status = out.queue[i].status /\ queue'[i].to = out.queue[i].to
    BY <1>8, <1>9, <1>10
  <1>12. wish' = [wish EXCEPT ![m] = b] /\ UNCHANGED <<server, epoch, offers, agent>>
    BY <1>1, <1>2 DEF ReverseMove, imap
  <1>13. /\ place' = out.place /\ out.ok
         /\ doubt' = IF Misled(m, loc) THEN doubt \cup {m} ELSE doubt
    BY <1>4, <1>6
  <1>14. Rewritten(out, i, m)
    BY <1>1, <1>3, <1>11 DEF Rewritten
  <1> QED
    BY <1>4, <1>5, <1>6, <1>12, <1>13, <1>14, MoveToF

LEMMA UserF == ASSUME IInv, FInv, ~EarlyPress, User PROVE FInv'
BY MoveF, PurgeF, SeenF, CancelF, ReverseF, RecheckF DEF User

-----------------------------------------------------------------------------
(* The theorems.                                                           *)

\* At first each message is in one folder, here and there, and nobody has
\* asked for anything.
LEMMA InitF == Init => FInv
  <1> SUFFICES ASSUME Init PROVE FInv
    OBVIOUS
  <1>a. PICK n \in Nat : n = Cardinality(Msg)
    BY StartAssumption, FS_CardinalityType
  <1>1. PICK s \in [1..n -> Msg] :
          /\ IsInjective(s)
          /\ server = [b \in Box |-> {[uid |-> i, msg |-> s[i], seen |-> FALSE] :
                                       i \in {i \in 1..n : Start[s[i]] = b}}]
    <2>1. SetToSeq(Msg) \in [1..n -> Msg] /\ IsInjective(SetToSeq(Msg))
      BY <1>a, StartAssumption, SetToSeqType
    <2> QED
      BY <1>a, <2>1 DEF Init
  <1>2. ASSUME NEW b \in Box, NEW e \in server[b]
        PROVE  e.uid \in 1..n /\ e = [uid |-> e.uid, msg |-> s[e.uid], seen |-> FALSE] /\ b = Start[e.msg]
    BY <1>1
  <1>3. \A p \in place : \E b \in Box : \E e \in server[b] : p = At(e.msg, b, e.uid, e.seen, 1)
    BY DEF Init
  <1>4. ASSUME NEW p \in place
        PROVE  ~is_pending(p) /\ p = At(s[p.uid], p.box, p.uid, FALSE, 1)
    <2>1. PICK b \in Box : \E e \in server[b] : p = At(e.msg, b, e.uid, e.seen, 1)
      BY <1>3
    <2>2. PICK e \in server[b] : p = At(e.msg, b, e.uid, e.seen, 1)
      BY <2>1
    <2>3. e.uid # 0 /\ e.msg = s[e.uid] /\ e.seen = FALSE
      <3>1. e.uid \in 1..n /\ e = [uid |-> e.uid, msg |-> s[e.uid], seen |-> FALSE]
        BY <1>2
      <3> QED
        BY <3>1
    <2>4. p.uid = e.uid /\ p.box = b
      BY <2>2 DEF At
    <2> QED
      BY <2>2, <2>3, <2>4 DEF is_pending, Ahead
  <1>5. /\ queue = <<>> /\ agent = Idle /\ wish = [m \in Msg |-> "none"] /\ doubt = {}
    BY DEF Init
  <1>6. Once
    <2>1. \A b \in Box : UidsOnce(server[b])
      BY <1>2 DEF UidsOnce
    <2>2. UidsOnce(agent.got)
      BY <1>5 DEF UidsOnce, Idle
    <2>3. PlacedOnce(place)
      BY <1>4 DEF PlacedOnce
    <2> QED
      BY <2>1, <2>2, <2>3 DEF Once
  <1>7. Held
    BY <1>5 DEF Held, Holding, Idle
  <1>8. wish \in [Msg -> Box \cup {"none"}]
    BY <1>5
  <1>9. ASSUME NEW m \in Msg PROVE Clear(m)
    <2>1. Mine(m) = {} /\ Working(m) = {}
      BY <1>5 DEF Mine, Working
    <2>2. Lone(server, m)
      <3> SUFFICES ASSUME NEW b \in Box, NEW c \in Box, NEW u \in Uids(server[b], m), NEW v \in Uids(server[c], m)
                   PROVE  b = c /\ u = v
        BY DEF Lone
      <3>1. u \in 1..n /\ s[u] = m /\ b = Start[m]
        BY <1>2 DEF Uids
      <3>2. v \in 1..n /\ s[v] = m /\ c = Start[m]
        BY <1>2 DEF Uids
      <3> QED
        BY <1>1, <3>1, <3>2 DEF IsInjective
    <2>3. \A p \in Locations(m) : ~is_pending(p)
      BY <1>4 DEF Locations
    <2>4. LastWorks(m) /\ StaysFiled(m) /\ NoneHome(m) /\ ShelvedHome(m) /\ Aimed(m)
      BY <2>1 DEF LastWorks, StaysFiled, NoneHome, ShelvedHome, Aimed
    <2>5. OneCopyThere(m) /\ Apart(m) /\ Backed(m)
      BY <2>2, <2>3 DEF OneCopyThere, Apart, Backed
    <2>6. WishHeld(m)
      BY <1>5 DEF WishHeld
    <2> QED
      BY <2>4, <2>5, <2>6 DEF Clear
  <1> QED
    BY <1>6, <1>7, <1>8, <1>9 DEF FInv

LEMMA NextF == ASSUME ~EarlyPress PROVE IInv /\ FInv /\ [Next]_vars => FInv'
  <1> SUFFICES ASSUME IInv, FInv, [Next]_vars PROVE FInv'
    OBVIOUS
  <1>1. CASE User
    BY <1>1, UserF
  <1>2. CASE \E full \in BOOLEAN : Begin(full)
    BY <1>2, BeginF
  <1>3. CASE Drain
    BY <1>3, ReloadF, LeaseF, SelectF, ApplyF, RefusalF, RemoveF, AppliedF, DrainedF DEF Drain
  <1>4. CASE Walk
    BY <1>4, RegisterF, FetchF, StoreF, SweepF, EndF DEF Walk
  <1>5. CASE World
    BY <1>5, RebuildF, ExpungeF, ElsewhereF, GraceF, FailF, CrashF DEF World
  <1>6. CASE UNCHANGED vars
    <2>1. UNCHANGED <<server, epoch, offers, place, queue, agent, wish, doubt>>
      BY <1>6 DEF vars, imap, db, history
    <2>2. Held'
      BY <2>1, HeldKept DEF FInv
    <2> QED
      BY <2>1, <2>2, RowsKept, StillStep DEF FInv, Once
  <1> QED
    BY <1>1, <1>2, <1>3, <1>4, <1>5, <1>6 DEF Next

\* A message filed here, and that nothing interfered with, has one row at work
\* at most, the last; that row leads where its user wants it; and the server has
\* it once, but while a COPY waits for its source to go.  A row that _lease takes
\* though it was taken back since it was read counts as interference: the copy it
\* judges is older than the undo, and all four theorems are silent from there on.
THEOREM FilingStands == ASSUME ~EarlyPress PROVE Spec => [](IInv /\ FInv)
  <1>1. Init => IInv /\ FInv
    BY InitInv, InitF
  <1>2. IInv /\ FInv /\ [Next]_vars => (IInv /\ FInv)'
    BY NextInv, NextF
  <1> QED
    BY <1>1, <1>2, PTL DEF Spec

LEMMA FiledNow == ASSUME IInv, FInv PROVE FiledStaysFiled
  <1> SUFFICES ASSUME NEW m \in Msg \ doubt, NEW i \in RowsOf(m), Files(queue[i]),
                      queue[i].status \in Live, queue[i].attempts < StuckAfter,
                      NEW p \in In(m, queue[i].box), p.uid = queue[i].uid
               PROVE  p.era # queue[i].epoch
    BY DEF FiledStaysFiled
  <1>1. i \in Working(m)
    BY DEF RowsOf, Working, Mine, AtWork
  <1> QED
    BY <1>1 DEF FInv, Clear, StaysFiled

\* No walk and no sweep puts a message back where a key press took it from,
\* while a row that takes it away is still believed (_restore_unplaced, LeftAlone),
\* unless that row was taken back and leased all the same (_lease).
THEOREM FiledStays == ASSUME ~EarlyPress PROVE Spec => []FiledStaysFiled
  <1>1. IInv /\ FInv => FiledStaysFiled
    BY FiledNow
  <1> QED
    BY <1>1, FilingStands, PTL

\* A folder has a message when it has it under some UID.
LEMMA UidsCopies == ASSUME NEW m, NEW b PROVE Copies(b, m) = {} <=> Uids(server[b], m) = {}
BY DEF Copies, Uids

LEMMA WishNow == ASSUME IInv, FInv PROVE LastWishWins
  <1> SUFFICES ASSUME NEW m \in Msg \ doubt, AtRest(m), wish[m] # "none"
               PROVE  {b \in Box : Copies(b, m) # {}} = {wish[m]}
    BY DEF LastWishWins
  <1>1. Working(m) = {}
    BY DEF AtRest, RowsOf, Working, Mine, AtWork, Live
  <1>2. wish[m] \in Box
    BY DEF FInv
  <1>3. OnlyIn(server, m, wish[m])
    BY <1>1 DEF FInv, Clear, WishHeld
  <1> QED
    BY <1>2, <1>3, UidsCopies DEF OnlyIn

\* Once nothing is queued for it, the server has a message where its user last
\* put it and nowhere else, whatever was retried, undone or cut short (move_to,
\* _cancel, _reverse, _copy_then_remove); but for an undo committed between the
\* agent's read of the row and its lock, which _lease overwrites.
THEOREM WishWins == ASSUME ~EarlyPress PROVE Spec => []LastWishWins
  <1>1. IInv /\ FInv => LastWishWins
    BY WishNow
  <1> QED
    BY <1>1, FilingStands, PTL

LEMMA GhostNow == ASSUME IInv, FInv PROVE NoGhost
  <1> SUFFICES ASSUME NEW p \in place, is_pending(p), p.msg \notin doubt
               PROVE  \/ \E i \in RowsOf(p.msg) : queue[i].status \in Live /\ queue[i].to = p.box
                      \/ \E e \in Copies(p.box, p.msg) : ~\E q \in Ours(place, p.box, e) : q.msg = p.msg
    BY DEF NoGhost
  <1>1. p.msg \in Msg \ doubt /\ p \in Locations(p.msg)
    BY DEF IInv, PlaceGood, PlaceSet, Locations
  <1>2. Apart(p.msg) /\ Backed(p.msg)
    BY <1>1 DEF FInv, Clear
  <1>3. CASE \E i \in Working(p.msg) : queue[i].to = p.box
    <2>1. PICK i \in Working(p.msg) : queue[i].to = p.box
      BY <1>3
    <2>2. i \in RowsOf(p.msg) /\ queue[i].status \in Live
      BY DEF Working, Mine, AtWork, RowsOf, Live
    <2> QED
      BY <2>1, <2>2
  <1>4. CASE Uids(server[p.box], p.msg) # {}
    <2>1. PICK e \in Copies(p.box, p.msg) : TRUE
      BY <1>4, UidsCopies
    <2>2. p.box \in Box /\ e.uid # 0
      BY DEF Copies, IInv, PlaceGood, PlaceSet, ServerOK, FolderOK, EntrySet
    <2>3. ~\E q \in Ours(place, p.box, e) : q.msg = p.msg
      BY <1>1, <1>2, <2>2 DEF Ours, Apart, Locations, is_pending, Ahead
    <2> QED
      BY <2>3
  <1> QED
    BY <1>1, <1>2, <1>3, <1>4 DEF Backed

\* A placement written ahead of the server never outlives its reason: a row
\* still leads there, or the next walk brings the copy in (drop_pending_placement).
THEOREM GhostsBacked == ASSUME ~EarlyPress PROVE Spec => []NoGhost
  <1>1. IInv /\ FInv => NoGhost
    BY GhostNow
  <1> QED
    BY <1>1, FilingStands, PTL
=============================================================================
