---------------------------- MODULE FoldersProofs ----------------------------
(* What holds of Folders for every tree of folders, and every bound. *)
EXTENDS Folders, SequenceTheorems, TLAPS

MoveStatus == {"pending", "stuck", "stale", "refused"}
LocSet  == [mail : Mail, box : Folder, uid : Nat]
MoveSet == [mail : Mail, from : Folder, uid : Nat, to : Folder,
            status : MoveStatus, age : Int]
RowSet  == [there : BOOLEAN, local : BOOLEAN, missing : -1..MissingGrace,
            last_uid : 0..MaxUid, refused : BOOLEAN]
PassSet == [pc : {"idle", "drain", "walk"}, listed : SUBSET Folder, todo : SUBSET Folder,
            sweep : BOOLEAN]

\* The server's side: mail is in folders that exist.
HeldOK(es, hs) ==
    /\ es \subseteq Folder /\ hs \in [Folder -> Seq(Mail \cup {None})]
    /\ \A f \in Folder : Len(hs[f]) <= MaxUid /\ (f \notin es => hs[f] = <<>>)

\* The foreign keys: what is placed is stored, and in a folder that has a row.
PlaceOK(ps, rs, ss) ==
    /\ ps \subseteq LocSet /\ ss \subseteq Mail
    /\ \A l \in ps : l.mail \in ss /\ rs[l.box].there
MovesOK(as, ss) == as \subseteq MoveSet /\ \A a \in as : a.mail \in ss /\ a.from # a.to

\* No folder is marked missing for longer than LIST has left it out.
MarksOK(rs, un) ==
    rs \in [Folder -> RowSet] /\ un \in [Folder -> Nat] /\ \A f \in Folder : rs[f].missing <= un[f]

\* An imported account has no agent.
AgentOK == imported \in BOOLEAN /\ pass \in PassSet /\ (imported => pass = NoPass)

FInv ==
    /\ HeldOK(exists, held) /\ PlaceOK(place, row, stored) /\ MovesOK(moves, stored)
    /\ MarksOK(row, unlisted) /\ AgentOK /\ NothingUnfiled

-----------------------------------------------------------------------------
LEMMA NoRowType ==
  NoRow \in RowSet /\ ~NoRow.there /\ NoRow.missing = -1 /\ NoRow.last_uid = 0
  <1>1. -1 \in -1..MissingGrace /\ 0 \in 0..MaxUid
    BY UidAssumption, ClockAssumption
  <1> QED
    BY <1>1 DEF NoRow, RowSet

LEMMA MakeRowType ==
  ASSUME NEW f, NEW local \in BOOLEAN
  PROVE  /\ MakeRow(f, local) \in RowSet /\ MakeRow(f, local).there
         /\ MakeRow(f, local).missing = -1 /\ MakeRow(f, local).last_uid = 0
  BY NoRowType DEF MakeRow, RowSet

LEMMA LocalRowType ==
  \A f : /\ MakeRow(f, TRUE) \in RowSet /\ MakeRow(f, TRUE).there
         /\ MakeRow(f, TRUE).missing = -1 /\ MakeRow(f, TRUE).last_uid = 0
  BY MakeRowType

LEMMA NoPassType == NoPass \in PassSet /\ NoPass.pc = "idle" /\ NoPass.todo = {}
  BY DEF NoPass, PassSet

LEMMA LocType ==
  ASSUME NEW m, NEW f, NEW u
  PROVE  Loc(m, f, u).mail = m /\ Loc(m, f, u).box = f /\ Loc(m, f, u).uid = u
         /\ (m \in Mail /\ f \in Folder /\ u \in Nat => Loc(m, f, u) \in LocSet)
  BY DEF Loc, LocSet

LEMMA InitInv == Init => FInv
  <1> SUFFICES ASSUME Init PROVE FInv
    OBVIOUS
  <1>1. HeldOK(exists, held)
    <2>1. exists \subseteq Folder /\ \A f \in Folder : held[f] # <<>> => f \in exists
      BY DEF Init
    <2>2. ASSUME NEW f \in Folder PROVE held[f] \in Seq(Mail \cup {None}) /\ Len(held[f]) <= MaxUid
      <3>1. held[f] = <<>> \/ \E m \in Mail : held[f] = <<m>>
        <4> DEFINE S == {<<>>} \cup {<<m>> : m \in Mail}
        <4>1. held \in [Folder -> S]
          BY DEF Init
        <4>2. held[f] \in S
          <5> HIDE DEF S
          <5> QED
            BY <4>1
        <4> QED
          BY <4>2
      <3>2. CASE held[f] = <<>>
        BY <3>2, UidAssumption
      <3>3. ASSUME NEW m \in Mail, held[f] = <<m>>
            PROVE  held[f] \in Seq(Mail \cup {None}) /\ Len(held[f]) <= MaxUid
        BY <3>3, UidAssumption
      <3> QED
        BY <3>1, <3>2, <3>3
    <2>3. held \in [Folder -> Seq(Mail \cup {None})]
      <3>1. held = [f \in Folder |-> held[f]]
        BY DEF Init
      <3> QED
        BY <2>2, <3>1
    <2> QED
      BY <2>1, <2>2, <2>3 DEF HeldOK
  <1>2. PlaceOK(place, row, stored) /\ MovesOK(moves, stored) /\ NothingUnfiled
    BY DEF Init, PlaceOK, MovesOK, NothingUnfiled
  <1>3. MarksOK(row, unlisted)
    BY NoRowType DEF Init, MarksOK
  <1>4. AgentOK
    BY NoPassType DEF Init, AgentOK
  <1> QED
    BY <1>1, <1>2, <1>3, <1>4 DEF FInv

\* Folders made here: rows are added, and none is lost.
LEMMA FolderMade ==
  ASSUME MarksOK(row, unlisted), NEW f \in Folder
  PROVE  LET rs == ensure_local_folder(row, f) IN
         /\ MarksOK(rs, unlisted) /\ rs[f].there
         /\ \A g \in Folder : row[g].there => rs[g] = row[g]
         /\ rs[f].last_uid = IF row[f].there THEN row[f].last_uid ELSE 0
  <1> DEFINE rs == ensure_local_folder(row, f)
  <1>1. \A g \in Folder : rs[g] = row[g] \/ (~row[g].there /\ rs[g] = MakeRow(g, TRUE))
    BY DEF ensure_local_folder
  <1>2. rs \in [Folder -> RowSet]
    <2>1. rs = [g \in Folder |-> rs[g]]
      BY DEF ensure_local_folder
    <2>2. \A g \in Folder : MakeRow(g, TRUE) \in RowSet /\ row[g] \in RowSet
      BY LocalRowType DEF MarksOK
    <2> HIDE DEF rs
    <2> QED
      BY <1>1, <2>1, <2>2
  <1>3. rs[f].there /\ rs[f].last_uid = IF row[f].there THEN row[f].last_uid ELSE 0
    <2>1. rs[f] = IF ~row[f].there THEN MakeRow(f, TRUE) ELSE row[f]
      BY DEF ensure_local_folder, Upward
    <2> HIDE DEF rs
    <2> QED
      BY <2>1, LocalRowType
  <1>4. \A g \in Folder : rs[g].missing <= unlisted[g]
    <2>1. ASSUME NEW g \in Folder PROVE rs[g].missing <= unlisted[g]
      <3>1. row[g].missing <= unlisted[g] /\ -1 <= unlisted[g]
        BY DEF MarksOK
      <3>2. rs[g].missing = row[g].missing \/ rs[g].missing = -1
        BY <1>1, LocalRowType
      <3> HIDE DEF rs
      <3> QED
        BY <3>1, <3>2
    <2> QED
      BY <2>1
  <1>5. MarksOK(rs, unlisted)
    BY <1>2, <1>4 DEF MarksOK
  <1>6. \A g \in Folder : row[g].there => rs[g] = row[g]
    BY <1>1
  <1> QED
    BY <1>3, <1>5, <1>6

\* Mail taken out with the last of its placements takes its moves along, and leaves
\* no mail behind that is nowhere.
LEMMA GoneWith ==
  ASSUME NEW ps, NEW locs, NEW ss, NEW as, NEW rs, NEW gone,
         PlaceOK(ps, rs, ss), MovesOK(as, ss),
         gone \cap {l.mail : l \in ps \ locs} = {}
  PROVE  /\ PlaceOK(ps \ locs, rs, ss \ gone)
         /\ MovesOK({a \in as : a.mail \notin gone}, ss \ gone)
  BY DEF PlaceOK, MovesOK

\* What the server does, and what others do there, is the server's.
LEMMA ServerInv ==
  ASSUME FInv, HeldOK(exists', held'), UNCHANGED <<place, row, stored, moves, unlisted, imported>>,
         pass' \in PassSet, pass' = pass \/ ~imported
  PROVE  FInv'
  <1>1. PlaceOK(place, row, stored)' /\ MovesOK(moves, stored)' /\ MarksOK(row, unlisted)'
    BY DEF FInv, PlaceOK, MovesOK, MarksOK
  <1>2. NothingUnfiled'
    BY DEF FInv, NothingUnfiled, In
  <1>3. AgentOK'
    BY DEF FInv, AgentOK
  <1>4. HeldOK(exists, held)'
    BY DEF HeldOK
  <1> QED
    BY <1>1, <1>2, <1>3, <1>4 DEF FInv

\* One folder's list, changed where the folder is there.
LEMMA ListChanged ==
  ASSUME HeldOK(exists, held), NEW f \in exists, NEW s \in Seq(Mail \cup {None}), Len(s) <= MaxUid
  PROVE  HeldOK(exists, [held EXCEPT ![f] = s])
  BY DEF HeldOK

LEMMA MailGone ==
  ASSUME HeldOK(exists, held), NEW f \in exists, NEW u \in DOMAIN held[f]
  PROVE  [held[f] EXCEPT ![u] = None] \in Seq(Mail \cup {None})
         /\ Len([held[f] EXCEPT ![u] = None]) <= MaxUid
  <1>1. f \in Folder /\ held[f] \in Seq(Mail \cup {None}) /\ Len(held[f]) <= MaxUid
    BY DEF HeldOK
  <1>2. u \in 1..Len(held[f])
    BY <1>1
  <1> DEFINE s == held[f]
  <1> HIDE DEF s
  <1>3. [s EXCEPT ![u] = None] \in Seq(Mail \cup {None}) /\ Len([s EXCEPT ![u] = None]) = Len(s)
    BY <1>1, <1>2, ExceptSeq DEF s
  <1> QED
    BY <1>1, <1>3 DEF s

LEMMA MailAdded ==
  ASSUME HeldOK(exists, held), NEW f \in exists, NEW m \in Mail \cup {None}, Len(held[f]) < MaxUid
  PROVE  Append(held[f], m) \in Seq(Mail \cup {None}) /\ Len(Append(held[f], m)) <= MaxUid
  <1>1. f \in Folder /\ held[f] \in Seq(Mail \cup {None})
    BY DEF HeldOK
  <1> DEFINE s == held[f]
  <1> HIDE DEF s
  <1>2. Append(s, m) \in Seq(Mail \cup {None}) /\ Len(Append(s, m)) = Len(s) + 1 /\ Len(s) \in Nat
    BY <1>1, AppendProperties DEF s
  <1> QED
    BY <1>2, UidAssumption DEF s

LEMMA WorldHeld == ASSUME HeldOK(exists, held), World PROVE HeldOK(exists', held')
  <1>0. exists \subseteq Folder /\ held \in [Folder -> Seq(Mail \cup {None})]
    BY DEF HeldOK
  <1>1. CASE \E f \in Folder \ exists : exists' = exists \cup {f} /\ UNCHANGED held
    BY <1>1 DEF HeldOK
  <1>2. ASSUME NEW f \in exists, exists' = {g \in exists : f \notin Upward(g)},
               held' = [g \in Folder |-> IF f \in Upward(g) THEN <<>> ELSE held[g]]
        PROVE  HeldOK(exists', held')
    <2>1. <<>> \in Seq(Mail \cup {None}) /\ Len(<<>>) <= MaxUid
      BY UidAssumption
    <2> QED
      BY <1>2, <2>1 DEF HeldOK
  <1>3. ASSUME NEW f \in exists, NEW m \in Mail, Len(held[f]) < MaxUid,
               held' = [held EXCEPT ![f] = Add(f, m)], UNCHANGED exists
        PROVE  HeldOK(exists', held')
    <2>1. Add(f, m) \in Seq(Mail \cup {None}) /\ Len(Add(f, m)) <= MaxUid
      BY <1>3, MailAdded DEF Add
    <2> QED
      BY <1>3, <2>1, ListChanged
  <1>4. ASSUME NEW f \in exists, NEW u \in Listed(f), held' = [held EXCEPT ![f][u] = None],
               UNCHANGED exists
        PROVE  HeldOK(exists', held')
    <2> DEFINE s == [held[f] EXCEPT ![u] = None]
    <2>1. u \in DOMAIN held[f] /\ held' = [held EXCEPT ![f] = s]
      BY <1>4 DEF Listed
    <2>2. s \in Seq(Mail \cup {None}) /\ Len(s) <= MaxUid
      BY <2>1, MailGone
    <2> HIDE DEF s
    <2> QED
      BY <1>4, <2>1, <2>2, ListChanged
  <1>5. ASSUME NEW f \in exists, NEW g \in exists, NEW u \in Listed(f), f # g, Len(held[g]) < MaxUid,
               held' = [held EXCEPT ![g] = Add(g, held[f][u]), ![f][u] = None], UNCHANGED exists
        PROVE  HeldOK(exists', held')
    <2> DEFINE s == [held[f] EXCEPT ![u] = None]
               t == Add(g, held[f][u])
               h == [held EXCEPT ![g] = t]
    <2>1. u \in DOMAIN held[f] /\ held[f][u] \in Mail \cup {None}
      <3>1. u \in DOMAIN held[f] /\ held[f] \in Seq(Mail \cup {None})
        BY <1>0, <1>5 DEF Listed
      <3> QED
        BY <3>1
    <2>2. s \in Seq(Mail \cup {None}) /\ Len(s) <= MaxUid
      BY <2>1, MailGone
    <2>3. t \in Seq(Mail \cup {None}) /\ Len(t) <= MaxUid
      BY <1>5, <2>1, MailAdded DEF Add
    <2>4. held' = [[held EXCEPT ![g] = t] EXCEPT ![f] = s]
      <3>1. held' = [[held EXCEPT ![g] = t] EXCEPT ![f] = [h[f] EXCEPT ![u] = None]]
        BY <1>5
      <3>2. h[f] = held[f]
        BY <1>0, <1>5
      <3> QED
        BY <3>1, <3>2
    <2> HIDE DEF s, t
    <2> QED
      BY <1>5, <2>2, <2>3, <2>4 DEF HeldOK
  <1> QED
    BY <1>1, <1>2, <1>3, <1>4, <1>5 DEF World

\* Rows that are added, with all that hangs on them, on an account of either kind.
LEMMA CreateInv == ASSUME FInv, NEW f \in Folder, create_mailbox(f) PROVE FInv'
  <1>0. UNCHANGED <<exists, held, imported, place, stored, moves, pass, unlisted>>
    BY DEF create_mailbox, server, past
  <1>1. CASE row' = row
    <2>1. pass \in PassSet /\ HeldOK(exists', held')
      BY <1>0 DEF FInv, AgentOK, HeldOK
    <2> QED
      BY <1>0, <1>1, <2>1, ServerInv
  <1>2. CASE row' = ensure_local_folder(row, f)
    <2>1. MarksOK(row, unlisted)
      BY DEF FInv
    <2>2. MarksOK(row', unlisted) /\ \A g \in Folder : row[g].there => row'[g] = row[g]
      BY <1>2, <2>1, FolderMade
    <2>3. PlaceOK(place, row', stored)
      BY <2>2 DEF FInv, PlaceOK, LocSet
    <2>4. HeldOK(exists, held)' /\ MovesOK(moves, stored)' /\ AgentOK' /\ NothingUnfiled'
      BY <1>0 DEF FInv, HeldOK, MovesOK, AgentOK, NothingUnfiled, In
    <2> QED
      BY <1>0, <2>2, <2>3, <2>4 DEF FInv
  <1> QED
    BY <1>1, <1>2 DEF create_mailbox

\* The next UID of a folder made here is given out.
LEMMA UidGiven ==
  ASSUME MarksOK(row, unlisted), NEW f \in Folder,
         (IF row[f].there THEN row[f].last_uid ELSE 0) < MaxUid
  PROVE  LET rs == ensure_local_folder(row, f)
             new == [rs EXCEPT ![f].last_uid = @ + 1] IN
         /\ MarksOK(new, unlisted) /\ new[f].there
         /\ \A g \in Folder : row[g].there => new[g].there
         /\ rs[f].last_uid + 1 \in Nat
  <1> DEFINE rs  == ensure_local_folder(row, f)
             x   == [rs[f] EXCEPT !.last_uid = @ + 1]
             new == [rs EXCEPT ![f].last_uid = @ + 1]
  <1>1. MarksOK(rs, unlisted) /\ rs[f].there /\ (\A g \in Folder : row[g].there => rs[g] = row[g])
        /\ rs[f].last_uid = IF row[f].there THEN row[f].last_uid ELSE 0
    BY FolderMade
  <1> HIDE DEF rs
  <1>2. rs[f] \in RowSet /\ rs \in [Folder -> RowSet] /\ rs[f].last_uid + 1 \in 0..MaxUid
    BY <1>1, UidAssumption DEF MarksOK, RowSet
  <1>3. x \in RowSet /\ x.there /\ x.missing = rs[f].missing
    BY <1>1, <1>2 DEF RowSet
  <1>4. new = [rs EXCEPT ![f] = x]
    BY <1>2 DEF RowSet
  <1> HIDE DEF x
  <1>5. MarksOK(new, unlisted) /\ new[f].there /\ \A g \in Folder : row[g].there => new[g].there
    BY <1>1, <1>2, <1>3, <1>4 DEF MarksOK
  <1> QED
    BY <1>2, <1>5 DEF rs

LEMMA ImportInv == ASSUME FInv, NEW f \in Folder, NEW m \in Mail, import(m, f) PROVE FInv'
  <1> DEFINE rs == ensure_local_folder(row, f)
             u  == rs[f].last_uid + 1
  <1>1. /\ row' = [rs EXCEPT ![f].last_uid = @ + 1] /\ place' = place \cup {Loc(m, f, u)}
        /\ stored' = stored \cup {m} /\ imported
        /\ UNCHANGED <<exists, held, imported, moves, pass, unlisted>>
    BY DEF import, server, past
  <1>2. MarksOK(row, unlisted) /\ row[f].last_uid < MaxUid
    BY DEF FInv, import
  <1>3. (IF row[f].there THEN row[f].last_uid ELSE 0) < MaxUid
    BY <1>2, UidAssumption
  <1>4. MarksOK(row', unlisted) /\ row'[f].there /\ (\A g \in Folder : row[g].there => row'[g].there)
        /\ u \in Nat
    BY <1>1, <1>2, <1>3, UidGiven
  <1> HIDE DEF u
  <1> DEFINE l == Loc(m, f, u)
  <1>5. l \in LocSet /\ l.mail = m /\ l.box = f
    BY <1>4, LocType
  <1>6. place' = place \cup {l}
    BY <1>1
  <1> HIDE DEF l
  <1>7. PlaceOK(place', row', stored')
    BY <1>1, <1>4, <1>5, <1>6 DEF FInv, PlaceOK, LocSet
  <1>8. NothingUnfiled'
    <2>1. ASSUME NEW n \in stored' PROVE \E p \in place' : p.mail = n
      <3>1. CASE n = m
        BY <1>5, <1>6, <3>1
      <3>2. CASE n \in stored
        BY <1>1, <1>6, <3>2 DEF FInv, NothingUnfiled, In
      <3> QED
        BY <1>1, <3>1, <3>2
    <2> QED
      BY <2>1 DEF NothingUnfiled, In
  <1>9. HeldOK(exists, held)' /\ MovesOK(moves, stored)' /\ AgentOK'
    BY <1>1 DEF FInv, HeldOK, MovesOK, AgentOK
  <1> QED
    BY <1>1, <1>4, <1>7, <1>8, <1>9 DEF FInv

\* A folder is deleted with what is nested in it, and its mail with it.
LEMMA DeleteInv == ASSUME FInv, NEW f \in Folder, delete_mailbox(f) PROVE FInv'
  <1> DEFINE locs == {l \in place : l.box \in _subtree(f)}
             gone == {l.mail : l \in locs} \ {l.mail : l \in place \ locs}
  <1>1. /\ place' = place \ locs /\ stored' = stored \ gone
        /\ moves' = {a \in moves : a.mail \notin gone}
        /\ row' = [g \in Folder |-> IF g \in _subtree(f) THEN NoRow ELSE row[g]]
        /\ UNCHANGED <<exists, held, imported, pass, unlisted>>
    BY DEF delete_mailbox, purge, Cascade, server, past
  <1>2. gone \cap {l.mail : l \in place \ locs} = {}
    OBVIOUS
  <1>3. PlaceOK(place, row, stored) /\ MovesOK(moves, stored)
    BY DEF FInv
  <1>4. PlaceOK(place', row, stored') /\ MovesOK(moves', stored')
    <2> HIDE DEF locs, gone
    <2>1. PlaceOK(place \ locs, row, stored \ gone)
          /\ MovesOK({a \in moves : a.mail \notin gone}, stored \ gone)
      BY <1>2, <1>3, GoneWith
    <2> QED
      BY <1>1, <2>1
  <1>5. \A l \in place' : l.box \in Folder /\ row'[l.box] = row[l.box]
    BY <1>1, <1>3 DEF PlaceOK, LocSet
  <1>6. PlaceOK(place', row', stored')
    BY <1>4, <1>5 DEF PlaceOK
  <1>7. MarksOK(row', unlisted')
    <2>1. ASSUME NEW g \in Folder PROVE row'[g] \in RowSet /\ row'[g].missing <= unlisted[g]
      <3>1. row'[g] = NoRow \/ row'[g] = row[g]
        BY <1>1
      <3>2. row[g] \in RowSet /\ row[g].missing <= unlisted[g] /\ -1 <= unlisted[g]
        BY DEF FInv, MarksOK
      <3> QED
        BY <3>1, <3>2, NoRowType
    <2>2. row' = [g \in Folder |-> row'[g]]
      BY <1>1
    <2>3. row' \in [Folder -> RowSet]
      BY <2>1, <2>2
    <2> QED
      BY <1>1, <2>1, <2>3 DEF FInv, MarksOK
  <1>8. NothingUnfiled'
    <2>1. ASSUME imported, NEW m \in stored' PROVE \E l \in place' : l.mail = m
      BY <1>1, <2>1 DEF FInv, NothingUnfiled, In
    <2> QED
      BY <1>1, <2>1 DEF NothingUnfiled, In
  <1>9. HeldOK(exists, held)' /\ AgentOK'
    BY <1>1 DEF FInv, HeldOK, AgentOK
  <1> QED
    BY <1>4, <1>6, <1>7, <1>8, <1>9 DEF FInv

\* Mail filed here: a row is there for what it is filed in.
LEMMA FileInv == ASSUME FInv, NEW l \in place, File(l) PROVE FInv'
  <1>0. PlaceOK(place, row, stored) /\ MovesOK(moves, stored) /\ MarksOK(row, unlisted)
        /\ l \in LocSet /\ l.mail \in stored /\ row[l.box].there
    BY DEF FInv, PlaceOK
  <1>1. PICK to \in archive_mailbox \cup trash_mailbox : move_to(l, to)
    BY DEF File
  <1>2. UNCHANGED <<exists, held, imported, stored, pass, unlisted>>
    BY DEF File, server, past
  <1>3. to \in Folder /\ (~imported => row[to].there)
    BY <1>1 DEF archive_mailbox, trash_mailbox, role_mailbox, Rows
  <1>4. HeldOK(exists, held)' /\ AgentOK'
    BY <1>2 DEF FInv, HeldOK, AgentOK
  <1>5. CASE imported
    <2> DEFINE rs == ensure_local_folder(row, to)
               u  == rs[to].last_uid + 1
    <2>1. /\ rs[to].last_uid < MaxUid /\ row' = [rs EXCEPT ![to].last_uid = @ + 1]
          /\ place' = (place \ {l}) \cup {Loc(l.mail, to, u)} /\ UNCHANGED moves
      BY <1>1, <1>5 DEF move_to
    <2>2. (IF row[to].there THEN row[to].last_uid ELSE 0) < MaxUid
      BY <1>0, <1>3, <2>1, FolderMade
    <2>3. MarksOK(row', unlisted) /\ row'[to].there /\ (\A g \in Folder : row[g].there => row'[g].there)
          /\ u \in Nat
      BY <1>0, <1>3, <2>1, <2>2, UidGiven
    <2> HIDE DEF u, rs
    <2> DEFINE k == Loc(l.mail, to, u)
    <2>4. k \in LocSet /\ k.mail = l.mail /\ k.box = to
      BY <1>0, <1>3, <2>3, LocType DEF LocSet
    <2>5. place' = (place \ {l}) \cup {k}
      BY <2>1
    <2> HIDE DEF k
    <2>6. PlaceOK(place', row', stored')
      BY <1>0, <1>2, <2>3, <2>4, <2>5 DEF PlaceOK, LocSet
    <2>7. NothingUnfiled'
      <3>1. ASSUME NEW n \in stored PROVE \E p \in place' : p.mail = n
        <4>1. PICK p \in place : p.mail = n
          BY <1>5 DEF FInv, NothingUnfiled, In
        <4> QED
          BY <2>4, <2>5, <4>1
      <3> QED
        BY <1>2, <3>1 DEF NothingUnfiled, In
    <2> QED
      BY <1>0, <1>2, <1>4, <2>1, <2>3, <2>6, <2>7 DEF FInv
  <1>6. CASE ~imported
    <2> DEFINE k == Ahead(l.mail, to)
               a == [mail |-> l.mail, from |-> l.box, uid |-> l.uid, to |-> to,
                     status |-> "pending", age |-> 0]
    <2>1. place' = (place \ {l}) \cup {k} /\ moves' = moves \cup {a} /\ UNCHANGED row /\ to # l.box
      BY <1>1, <1>6 DEF move_to
    <2>2. k \in LocSet /\ k.mail = l.mail /\ k.box = to
      BY <1>0, <1>3, LocType DEF Ahead, LocSet
    <2>3. a \in MoveSet /\ a.mail = l.mail /\ a.from # a.to
      <3>1. "pending" \in MoveStatus /\ 0 \in Int
        BY DEF MoveStatus
      <3> QED
        BY <1>0, <1>3, <2>1, <3>1 DEF MoveSet, LocSet
    <2> HIDE DEF k, a
    <2>4. PlaceOK(place', row', stored')
      BY <1>0, <1>2, <1>3, <1>6, <2>1, <2>2 DEF PlaceOK, LocSet
    <2>5. MovesOK(moves', stored')
      BY <1>0, <1>2, <2>1, <2>3 DEF MovesOK
    <2>6. NothingUnfiled' /\ MarksOK(row', unlisted')
      BY <1>0, <1>2, <1>6, <2>1 DEF NothingUnfiled, MarksOK
    <2> QED
      BY <1>4, <2>4, <2>5, <2>6 DEF FInv
  <1> QED
    BY <1>5, <1>6

\* Time passes for marks and for their evidence alike.
LEMMA OlderKeeps ==
  ASSUME NEW n \in Int, NEW u \in Nat, n <= u, n >= -1, n <= MissingGrace
  PROVE  /\ Older(n, MissingGrace) \in -1..MissingGrace /\ Older(u, MissingGrace) \in Nat
         /\ Older(n, MissingGrace) <= Older(u, MissingGrace)
  BY ClockAssumption DEF Older

LEMMA TickInv == ASSUME FInv, Tick PROVE FInv'
  <1>0. /\ row' = [f \in Folder |-> [row[f] EXCEPT !.missing = Older(@, MissingGrace)]]
        /\ moves' = {[a EXCEPT !.age = Older(@, OrphanGrace)] : a \in moves}
        /\ unlisted' = [f \in Folder |-> Older(unlisted[f], MissingGrace)]
        /\ UNCHANGED <<exists, held, imported, place, stored, pass>>
    BY DEF Tick, server
  <1>1. PlaceOK(place, row, stored) /\ MovesOK(moves, stored) /\ MarksOK(row, unlisted)
    BY DEF FInv
  <1>2. ASSUME NEW f \in Folder
        PROVE  /\ row'[f] \in RowSet /\ row'[f].there = row[f].there
               /\ unlisted'[f] \in Nat /\ row'[f].missing <= unlisted'[f]
    <2> DEFINE n == row[f].missing
               o == Older(n, MissingGrace)
    <2>1. row[f] \in RowSet /\ unlisted[f] \in Nat /\ n <= unlisted[f]
      BY <1>1 DEF MarksOK
    <2>2. n \in Int /\ n >= -1 /\ n <= MissingGrace
      BY <2>1, ClockAssumption DEF RowSet
    <2>3. o \in -1..MissingGrace /\ Older(unlisted[f], MissingGrace) \in Nat
          /\ o <= Older(unlisted[f], MissingGrace)
      <3> HIDE DEF n
      <3> QED
        BY <2>1, <2>2, OlderKeeps
    <2>4. row'[f] = [row[f] EXCEPT !.missing = o]
      BY <1>0
    <2> HIDE DEF o
    <2> QED
      BY <1>0, <2>1, <2>3, <2>4 DEF RowSet
  <1>3. MarksOK(row', unlisted')
    <2>1. row' = [f \in Folder |-> row'[f]] /\ unlisted' = [f \in Folder |-> unlisted'[f]]
      BY <1>0
    <2>2. row' \in [Folder -> RowSet] /\ unlisted' \in [Folder -> Nat]
      BY <1>2, <2>1
    <2> QED
      BY <1>2, <2>2 DEF MarksOK
  <1>4. PlaceOK(place', row', stored')
    BY <1>0, <1>1, <1>2 DEF PlaceOK, LocSet
  <1>5. MovesOK(moves', stored')
    <2>1. ASSUME NEW a \in moves
          PROVE  LET b == [a EXCEPT !.age = Older(@, OrphanGrace)] IN
                 b \in MoveSet /\ b.mail = a.mail /\ b.from = a.from /\ b.to = a.to
      <3>1. a \in MoveSet /\ Older(a.age, OrphanGrace) \in Int
        BY <1>1, ClockAssumption DEF MovesOK, MoveSet, Older
      <3> QED
        BY <3>1 DEF MoveSet
    <2>2. ASSUME NEW b \in moves' PROVE b \in MoveSet /\ b.mail \in stored /\ b.from # b.to
      <3>1. PICK a \in moves : b = [a EXCEPT !.age = Older(@, OrphanGrace)]
        BY <1>0
      <3>2. a.mail \in stored /\ a.from # a.to
        BY <1>1 DEF MovesOK
      <3> QED
        BY <2>1, <3>1, <3>2
    <2> QED
      BY <1>0, <2>2 DEF MovesOK
  <1>6. HeldOK(exists, held)' /\ AgentOK' /\ NothingUnfiled'
    BY <1>0 DEF FInv, HeldOK, AgentOK, NothingUnfiled, In
  <1> QED
    BY <1>3, <1>4, <1>5, <1>6 DEF FInv

\* While the agent is at work the account is its own.
LEMMA NotImported == ASSUME FInv, pass # NoPass PROVE ~imported
  BY DEF FInv, AgentOK

LEMMA StartInv == ASSUME FInv, StartPass PROVE FInv'
  <1>1. AgentOK'
    BY DEF StartPass, FInv, AgentOK, NoPass, PassSet
  <1>2. HeldOK(exists, held)' /\ PlaceOK(place, row, stored)' /\ MovesOK(moves, stored)'
        /\ MarksOK(row, unlisted)' /\ NothingUnfiled'
    BY DEF StartPass, FInv, HeldOK, PlaceOK, MovesOK, MarksOK, NothingUnfiled, server, past
  <1> QED
    BY <1>1, <1>2 DEF FInv

\* Steps of the agent that touch the server, or its own place in the pass, alone.
LEMMA CreateFolderInv == ASSUME FInv, NEW f \in Folder, create_folder(f) PROVE FInv'
  <1>1. UNCHANGED <<held, imported, place, row, stored, moves, unlisted, pass>>
    BY DEF create_folder, past
  <1>2. exists' \subseteq Folder /\ exists \subseteq exists'
    BY TreeAssumption DEF create_folder, Upward, FInv, HeldOK
  <1>3. HeldOK(exists', held') /\ pass' \in PassSet
    BY <1>1, <1>2 DEF FInv, HeldOK, AgentOK
  <1> QED
    BY <1>1, <1>3, ServerInv

LEMMA ListInv == ASSUME FInv, list_folders \/ dies PROVE FInv'
  <1>1. UNCHANGED <<exists, held, imported, place, row, stored, moves, unlisted>> /\ pass # NoPass
    BY NoPassType DEF list_folders, dies, server, db, past
  <1>2. pass' \in PassSet
    <2>1. CASE list_folders
      <3>1. PICK answer \in SUBSET exists, sweep \in BOOLEAN :
               pass' = [pc |-> "walk", listed |-> answer, todo |-> answer, sweep |-> sweep]
        BY <2>1 DEF list_folders
      <3> QED
        BY <3>1 DEF FInv, HeldOK, PassSet
    <2>2. CASE dies
      BY <2>2, NoPassType DEF dies
    <2> QED
      BY <2>1, <2>2
  <1>3. HeldOK(exists', held')
    BY <1>1 DEF FInv, HeldOK
  <1> QED
    BY <1>1, <1>2, <1>3, NotImported, ServerInv

\* What a move leaves of the queue.
LEMMA SettledOK ==
  ASSUME MovesOK(moves, stored), NEW a \in moves, NEW status \in {"stuck", "stale", "refused"},
         Settled(a, status)
  PROVE  MovesOK(moves', stored)
  <1> DEFINE b == [a EXCEPT !.status = status, !.age = 0]
  <1>1. a \in MoveSet /\ a.mail \in stored /\ a.from # a.to
    BY DEF MovesOK
  <1>2. b \in MoveSet /\ b.mail = a.mail /\ b.from = a.from /\ b.to = a.to
    <2> DEFINE c == [a EXCEPT !.status = status]
    <2>1. status \in MoveStatus
      BY DEF MoveStatus
    <2>a. c \in MoveSet
      BY <1>1, <2>1 DEF MoveSet
    <2>b. b = [c EXCEPT !.age = 0]
      OBVIOUS
    <2>2. b \in MoveSet
      <3> HIDE DEF b, c
      <3> QED
        BY <2>a, <2>b DEF MoveSet
    <2>3. b.mail = a.mail
      BY <1>1 DEF MoveSet
    <2>4. b.from = a.from /\ b.to = a.to
      BY <1>1 DEF MoveSet
    <2> QED
      BY <2>2, <2>3, <2>4
  <1>3. moves' = (moves \ {a}) \cup {b}
    BY DEF Settled
  <1> HIDE DEF b
  <1> QED
    BY <1>1, <1>2, <1>3 DEF MovesOK

LEMMA ApplyInv == ASSUME FInv, NEW a \in moves, apply_move(a) PROVE FInv'
  <1>0. UNCHANGED <<exists, imported, stored, pass, unlisted>> /\ ~imported
    BY NotImported, NoPassType DEF apply_move
  <1>1. PlaceOK(place, row, stored) /\ MovesOK(moves, stored) /\ MarksOK(row, unlisted)
        /\ HeldOK(exists, held) /\ a \in MoveSet /\ a.from # a.to
    BY DEF FInv, MovesOK
  <1>2. MovesOK(moves', stored)
    <2>1. CASE \E status \in {"stuck", "stale", "refused"} : Settled(a, status)
      BY <1>1, <2>1, SettledOK
    <2>2. CASE moves' = moves \ {a}
      BY <1>1, <2>2 DEF MovesOK
    <2> QED
      BY <2>1, <2>2 DEF apply_move
  <1>3. place' \subseteq place
    BY DEF apply_move, Undone
  <1>4. MarksOK(row', unlisted) /\ \A f \in Folder : row'[f].there = row[f].there
    <2>1. CASE row' = row
      BY <1>1, <2>1
    <2>2. CASE row' = [row EXCEPT ![a.to].refused = TRUE]
      <3> DEFINE x == [row[a.to] EXCEPT !.refused = TRUE]
      <3>1. a.to \in Folder /\ row[a.to] \in RowSet
        BY <1>1 DEF MoveSet, MarksOK
      <3>2. x \in RowSet /\ x.there = row[a.to].there /\ x.missing = row[a.to].missing
        BY <3>1 DEF RowSet
      <3>3. row' = [row EXCEPT ![a.to] = x]
        BY <2>2
      <3> HIDE DEF x
      <3> QED
        BY <1>1, <3>1, <3>2, <3>3 DEF MarksOK
    <2> QED
      BY <2>1, <2>2 DEF apply_move
  <1>5. HeldOK(exists, held')
    <2>1. CASE held' = held
      BY <1>1, <2>1
    <2>2. CASE a.uid \in Listed(a.from) /\ a.to \in exists /\ Len(held[a.to]) < MaxUid /\ Moved(a)
      <3> DEFINE m == held[a.from][a.uid]
                 t == Append(held[a.to], m)
                 g == [held EXCEPT ![a.to] = t]
                 s == IF Role(a.from) = "all" THEN held[a.from]
                      ELSE [held[a.from] EXCEPT ![a.uid] = None]
      <3>1. a.from \in exists /\ a.uid \in DOMAIN held[a.from]
        BY <2>2 DEF Listed
      <3>2. a.from \in Folder /\ a.to \in Folder /\ held \in [Folder -> Seq(Mail \cup {None})]
            /\ Len(held[a.from]) <= MaxUid
        BY <1>1, <2>2, <3>1 DEF HeldOK
      <3>3. m \in Mail \cup {None}
        <4>1. held[a.from] \in Seq(Mail \cup {None})
          BY <3>2
        <4> QED
          BY <3>1, <4>1
      <3>4. t \in Seq(Mail \cup {None}) /\ Len(t) <= MaxUid
        <4> HIDE DEF m
        <4> QED
          BY <1>1, <2>2, <3>3, MailAdded
      <3>5. s \in Seq(Mail \cup {None}) /\ Len(s) <= MaxUid
        BY <1>1, <3>1, <3>2, MailGone
      <3>6. g[a.from] = held[a.from]
        BY <1>1, <3>2
      <3>7. held' = [g EXCEPT ![a.from] = s]
        BY <1>1, <2>2, <3>2 DEF Moved
      <3> HIDE DEF m, t, s
      <3> QED
        BY <1>1, <2>2, <3>1, <3>4, <3>5, <3>7 DEF HeldOK
    <2> QED
      BY <2>1, <2>2 DEF apply_move
  <1>6. PlaceOK(place', row', stored')
    BY <1>0, <1>1, <1>3, <1>4 DEF PlaceOK, LocSet
  <1>7. AgentOK' /\ NothingUnfiled'
    BY <1>0 DEF FInv, AgentOK, NothingUnfiled
  <1> QED
    BY <1>0, <1>2, <1>4, <1>5, <1>6, <1>7 DEF FInv

\* A folder walked: what it brings in is stored and placed there.
LEMMA WalkInv == ASSUME FInv, NEW f \in Folder, walk(f) PROVE FInv'
  <1> DEFINE new  == wanted(f)
             now  == (place \ Replaced(f, new)) \cup Arrivals(f, new)
             away == {l \in now : pass.sweep /\ l.box = f /\ l.uid # 0 /\ l.uid \notin Listed(f)}
             gone == {l.mail : l \in away} \ {l.mail : l \in now \ away}
             here == {held[f][u] : u \in new}
             x    == [register_folder(f) EXCEPT !.last_uid = IF Len(held[f]) > @ THEN Len(held[f]) ELSE @]
  <1>0. /\ row' = [row EXCEPT ![f] = x] /\ place' = now \ away
        /\ stored' = (stored \cup here) \ gone /\ moves' = {a \in moves : a.mail \notin gone}
        /\ UNCHANGED <<exists, held, imported, unlisted>> /\ f \in exists
        /\ pass' = [pass EXCEPT !.todo = @ \ {f}]
    BY DEF walk, Cascade, server
  <1>1. PlaceOK(place, row, stored) /\ MovesOK(moves, stored) /\ MarksOK(row, unlisted)
        /\ HeldOK(exists, held) /\ pass \in PassSet
    BY DEF FInv, AgentOK
  <1>2. ~imported
    BY NotImported, NoPassType DEF walk
  <1>3. ASSUME NEW u \in new PROVE u \in Nat /\ held[f][u] \in Mail
    <2>1. u \in DOMAIN held[f] /\ held[f][u] # None
      BY <1>0, <1>3 DEF wanted, new_only, Listed
    <2>2. held[f] \in Seq(Mail \cup {None})
      BY <1>1 DEF HeldOK
    <2>3. u \in 1..Len(held[f]) /\ Len(held[f]) \in Nat
      BY <2>1, <2>2
    <2> QED
      BY <2>1, <2>2, <2>3
  <1>4. x \in RowSet /\ x.there /\ x.missing <= unlisted[f]
    <2> DEFINE r == register_folder(f)
               n == Len(held[f])
               k == IF n > r.last_uid THEN n ELSE r.last_uid
    <2>1. r \in RowSet /\ r.there /\ r.missing <= unlisted[f]
      <3>1. imported \in BOOLEAN /\ unlisted[f] \in Nat /\ row[f] \in RowSet
            /\ row[f].missing <= unlisted[f]
        BY <1>1 DEF MarksOK, FInv, AgentOK
      <3>2. CASE row[f].there
        BY <3>1, <3>2 DEF register_folder
      <3>3. CASE ~row[f].there
        <4>1. r = MakeRow(f, imported)
          BY <3>3 DEF register_folder
        <4>2. r \in RowSet /\ r.there /\ r.missing = -1
          <5> HIDE DEF r
          <5> QED
            BY <3>1, <4>1, MakeRowType
        <4> HIDE DEF r
        <4> QED
          BY <3>1, <4>2
      <3> QED
        BY <3>2, <3>3
    <2>2. n \in Nat /\ n <= MaxUid
      BY <1>1 DEF HeldOK
    <2> HIDE DEF r, n
    <2>3. k \in 0..MaxUid
      BY <2>1, <2>2, UidAssumption DEF RowSet
    <2>4. x = [r EXCEPT !.last_uid = k]
      BY DEF r, n
    <2> HIDE DEF k, x
    <2> QED
      BY <2>1, <2>3, <2>4 DEF RowSet
  <1> HIDE DEF x
  <1>5. MarksOK(row', unlisted')
    BY <1>0, <1>1, <1>4 DEF MarksOK
  <1>6. row'[f].there /\ \A g \in Folder : row[g].there => row'[g].there
    BY <1>0, <1>1, <1>4 DEF MarksOK
  <1>7. here \subseteq Mail
    <2> HIDE DEF new
    <2> QED
      BY <1>3
  <1>8. PlaceOK(now, row', stored \cup here)
    <2>1. ASSUME NEW l \in Arrivals(f, new)
          PROVE  l \in LocSet /\ l.mail \in here /\ l.box = f
      <3>1. PICK u \in new : l = Loc(held[f][u], f, u)
        BY <2>1 DEF Arrivals
      <3>2. u \in Nat /\ held[f][u] \in Mail
        BY <1>3
      <3> HIDE DEF new
      <3> QED
        BY <3>1, <3>2, LocType
    <2>2. ASSUME NEW l \in place PROVE l \in LocSet /\ l.mail \in stored /\ row'[l.box].there
      BY <1>1, <1>6 DEF PlaceOK, LocSet
    <2> HIDE DEF here, new
    <2> QED
      BY <1>1, <1>6, <1>7, <2>1, <2>2 DEF PlaceOK
  <1>9. MovesOK(moves, stored \cup here)
    BY <1>1 DEF MovesOK
  <1>10. gone \cap {l.mail : l \in now \ away} = {}
    OBVIOUS
  <1>11. PlaceOK(place', row', stored') /\ MovesOK(moves', stored')
    <2> HIDE DEF now, away, gone, here
    <2>1. PlaceOK(now \ away, row', (stored \cup here) \ gone)
          /\ MovesOK({a \in moves : a.mail \notin gone}, (stored \cup here) \ gone)
      BY <1>8, <1>9, <1>10, GoneWith
    <2> QED
      BY <1>0, <2>1
  <1>12. HeldOK(exists, held)' /\ AgentOK' /\ NothingUnfiled'
    <2>1. HeldOK(exists, held)' /\ NothingUnfiled'
      BY <1>0, <1>1, <1>2 DEF HeldOK, NothingUnfiled
    <2>2. pass' \in PassSet
      BY <1>0, <1>1 DEF PassSet
    <2> QED
      BY <1>0, <1>2, <2>1, <2>2 DEF FInv, AgentOK
  <1> QED
    BY <1>0, <1>5, <1>11, <1>12 DEF FInv

\* The end of a pass: what is overdue goes, and what is in no folder.
LEMMA PruneInv == ASSUME FInv, prune PROVE FInv'
  <1> DEFINE out  == IF pass.listed = {} THEN {} ELSE overdue
             locs == {l \in place : l.box \in out}
             kept == place \ locs
             lost == {l.mail : l \in locs} \ {l.mail : l \in kept}
             gone == lost \cup unplaced(kept, stored \ lost)
  <1>0. /\ row' = [f \in Folder |->
                     IF f \in out \/ ~row[f].there THEN NoRow
                     ELSE IF pass.listed = {} THEN row[f] ELSE [row[f] EXCEPT !.missing = mark(f)]]
        /\ place' = kept /\ stored' = stored \ gone /\ moves' = {a \in moves : a.mail \notin gone}
        /\ unlisted' = [f \in Folder |-> IF f \in pass.listed THEN 0 ELSE unlisted[f]]
        /\ pass' = NoPass /\ UNCHANGED <<exists, held, imported>>
    BY DEF prune, Cascade, server
  <1>1. PlaceOK(place, row, stored) /\ MovesOK(moves, stored) /\ MarksOK(row, unlisted)
    BY DEF FInv
  <1>2. ~imported
    BY NotImported, NoPassType DEF prune
  <1>3. ASSUME NEW f \in Folder
        PROVE  /\ row'[f] \in RowSet /\ unlisted'[f] \in Nat /\ row'[f].missing <= unlisted'[f]
               /\ row[f].there /\ f \notin out => row'[f].there
    <2>1. row[f] \in RowSet /\ unlisted[f] \in Nat /\ row[f].missing <= unlisted[f]
      BY <1>1 DEF MarksOK
    <2>2. unlisted'[f] \in Nat /\ (f \in pass.listed => unlisted'[f] = 0)
          /\ (f \notin pass.listed => unlisted'[f] = unlisted[f])
      BY <1>0, <2>1
    <2>3. CASE f \in out \/ ~row[f].there
      <3>1. row'[f] = NoRow
        BY <1>0, <2>3
      <3> QED
        BY <2>2, <2>3, <3>1, NoRowType
    <2>4. CASE ~(f \in out \/ ~row[f].there) /\ pass.listed = {}
      <3>1. row'[f] = row[f]
        BY <1>0, <2>4
      <3> QED
        BY <2>1, <2>2, <2>4, <3>1
    <2>5. CASE ~(f \in out \/ ~row[f].there) /\ pass.listed # {}
      <3> DEFINE n == mark(f)
      <3>1. row'[f] = [row[f] EXCEPT !.missing = n]
        BY <1>0, <2>5
      <3>2. n = -1 \/ (f \notin pass.listed /\ (n = row[f].missing \/ n = 0))
        BY DEF mark
      <3>3. n \in -1..MissingGrace /\ n <= unlisted'[f]
        <4>1. row[f].missing \in -1..MissingGrace
          BY <2>1 DEF RowSet
        <4> HIDE DEF n
        <4> QED
          BY <2>1, <2>2, <3>2, <4>1, ClockAssumption
      <3> HIDE DEF n
      <3> QED
        BY <2>1, <2>2, <2>5, <3>1, <3>3 DEF RowSet
    <2> QED
      BY <2>3, <2>4, <2>5
  <1> HIDE DEF out
  <1>4. MarksOK(row', unlisted')
    <2>1. row' = [f \in Folder |-> row'[f]] /\ unlisted' = [f \in Folder |-> unlisted'[f]]
      BY <1>0
    <2>2. row' \in [Folder -> RowSet] /\ unlisted' \in [Folder -> Nat]
      BY <1>3, <2>1
    <2> QED
      BY <1>3, <2>2 DEF MarksOK
  <1>5. gone \cap {l.mail : l \in place \ locs} = {}
    BY DEF unplaced
  <1>6. PlaceOK(place', row, stored') /\ MovesOK(moves', stored')
    <2> HIDE DEF locs, gone
    <2>1. PlaceOK(place \ locs, row, stored \ gone)
          /\ MovesOK({a \in moves : a.mail \notin gone}, stored \ gone)
      BY <1>1, <1>5, GoneWith
    <2> QED
      BY <1>0, <2>1
  <1>7. PlaceOK(place', row', stored')
    <2>1. \A l \in place' : l.box \in Folder /\ l.box \notin out
      BY <1>0, <1>1 DEF PlaceOK, LocSet
    <2> QED
      BY <1>3, <1>6, <2>1 DEF PlaceOK
  <1>8. HeldOK(exists, held)' /\ AgentOK' /\ NothingUnfiled'
    <2>1. HeldOK(exists, held)' /\ NothingUnfiled'
      BY <1>0, <1>2 DEF FInv, HeldOK, NothingUnfiled
    <2> QED
      BY <1>0, <1>2, <2>1, NoPassType DEF FInv, AgentOK
  <1> QED
    BY <1>4, <1>6, <1>7, <1>8 DEF FInv

LEMMA OutsideInv == ASSUME FInv, Elsewhere \/ Restarts \/ Loaded PROVE FInv'
  <1>1. UNCHANGED <<imported, place, row, stored, moves, unlisted, pass>>
    BY DEF Elsewhere, Restarts, Loaded, db, past
  <1>2. HeldOK(exists, held) /\ pass' \in PassSet
    BY <1>1 DEF FInv, AgentOK
  <1>3. HeldOK(exists', held')
    <2>1. CASE Elsewhere
      BY <1>2, <2>1, WorldHeld DEF Elsewhere
    <2>2. CASE Restarts \/ Loaded
      BY <1>2, <2>2 DEF Restarts, Loaded, HeldOK
    <2> QED
      BY <2>1, <2>2
  <1> QED
    BY <1>1, <1>2, <1>3, ServerInv

LEMMA NextInv == FInv /\ [Next]_vars => FInv'
  <1> SUFFICES ASSUME FInv, [Next]_vars PROVE FInv'
    OBVIOUS
  <1>1. CASE UNCHANGED vars
    BY <1>1 DEF FInv, HeldOK, PlaceOK, MovesOK, MarksOK, AgentOK, NothingUnfiled, In, vars, server,
                db, past
  <1>2. CASE StartPass \/ prune
    BY <1>2, StartInv, PruneInv
  <1>3. CASE list_folders \/ dies
    BY <1>3, ListInv
  <1>4. ASSUME NEW f \in Folder, create_folder(f) \/ walk(f) PROVE FInv'
    BY <1>4, CreateFolderInv, WalkInv
  <1>5. ASSUME NEW a \in moves, apply_move(a) PROVE FInv'
    BY <1>5, ApplyInv
  <1>6. CASE Elsewhere \/ Restarts \/ Loaded
    BY <1>6, OutsideInv
  <1>7. CASE Tick
    BY <1>7, TickInv
  <1>8. ASSUME NEW f \in Folder, create_mailbox(f) \/ delete_mailbox(f) PROVE FInv'
    BY <1>8, CreateInv, DeleteInv
  <1>9. ASSUME NEW f \in Folder, NEW m \in Mail, import(m, f) PROVE FInv'
    BY <1>9, ImportInv
  <1>10. ASSUME NEW l \in place, File(l) PROVE FInv'
    BY <1>10, FileInv
  <1> QED
    BY <1>1, <1>2, <1>3, <1>4, <1>5, <1>6, <1>7, <1>8, <1>9, <1>10 DEF Next, Agent

-----------------------------------------------------------------------------
\* Every placement is of stored mail in a folder that has a row, every queued move is
\* of stored mail, and no folder is marked missing for longer than LIST has left it out:
\* imports, deletions, walks, prunes, an agent that takes the account over.
THEOREM TreeStands == Spec => []FInv
  <1>1. Init => FInv
    BY InitInv
  <1>2. FInv /\ [Next]_vars => FInv'
    BY NextInv
  <1> QED
    BY <1>1, <1>2, PTL DEF Spec

\* What is written to the tables fits them, and what a row refers to is there: the
\* foreign keys hold without the database having to refuse anything.
THEOREM TypesStand == Spec => []TypeOK
  <1>1. FInv => TypeOK
    BY DEF FInv, HeldOK, PlaceOK, MovesOK, MarksOK, RowSet, TypeOK
  <1> QED
    BY <1>1, TreeStands, PTL

\* On an account no agent syncs every message is filed somewhere (delete_mailbox, purge).
THEOREM MailIsFiled == Spec => []NothingUnfiled
  <1>1. FInv => NothingUnfiled
    BY DEF FInv
  <1> QED
    BY <1>1, TreeStands, PTL

\* A row is lost by deletion on an account no agent syncs, or as overdue.
LEMMA StepEvident == FInv /\ [Next]_vars => [Evident]_vars
  <1> SUFFICES ASSUME FInv, [Next]_vars, NEW f \in Folder, row[f].there, ~row'[f].there, ~imported
               PROVE  ~row[f].local /\ unlisted[f] >= MissingGrace
    BY DEF Evident
  <1>1. MarksOK(row, unlisted) /\ imported \in BOOLEAN
    BY DEF FInv, AgentOK
  <1>2. CASE prune
    <2>1. f \in overdue
      <3>1. row'[f] = IF f \in (IF pass.listed = {} THEN {} ELSE overdue) \/ ~row[f].there THEN NoRow
                      ELSE IF pass.listed = {} THEN row[f] ELSE [row[f] EXCEPT !.missing = mark(f)]
        BY <1>2 DEF prune
      <3>2. [row[f] EXCEPT !.missing = mark(f)].there = row[f].there
        BY <1>1 DEF MarksOK, RowSet
      <3> QED
        BY <3>1, <3>2
    <2>2. ~row[f].local /\ row[f].missing >= MissingGrace
      BY <2>1 DEF overdue
    <2>3. row[f].missing <= unlisted[f] /\ row[f].missing \in Int /\ unlisted[f] \in Nat
      BY <1>1, ClockAssumption DEF MarksOK, RowSet
    <2> QED
      BY <2>2, <2>3, ClockAssumption
  <1>3. ~prune => row'[f].there
    <2> SUFFICES ASSUME ~prune PROVE row'[f].there
      OBVIOUS
    <2>1. CASE row' = row
      BY <2>1
    <2>2. CASE Tick
      BY <1>1, <2>2 DEF Tick, MarksOK, RowSet
    <2>3. ASSUME NEW g \in Folder, row' = ensure_local_folder(row, g) PROVE row'[f].there
      BY <2>3 DEF ensure_local_folder
    <2>4. ASSUME NEW g \in Folder, walk(g) PROVE row'[f].there
      <3> DEFINE x == [register_folder(g) EXCEPT !.last_uid = IF Len(held[g]) > @ THEN Len(held[g]) ELSE @]
      <3>1. row' = [row EXCEPT ![g] = x]
        BY <2>4 DEF walk
      <3>2. CASE f = g
        <4>1. register_folder(g) = row[g]
          BY <3>2 DEF register_folder
        <4>2. x.there = row[g].there
          BY <1>1, <4>1 DEF MarksOK, RowSet
        <4> HIDE DEF x
        <4> QED
          BY <1>1, <3>1, <3>2, <4>2 DEF MarksOK
      <3>3. CASE f # g
        BY <3>1, <3>3
      <3> QED
        BY <3>2, <3>3
    <2>5. ASSUME NEW a \in moves, row' = [row EXCEPT ![a.to].refused = TRUE] PROVE row'[f].there
      BY <1>1, <2>5 DEF MarksOK, RowSet
    <2>6. ASSUME NEW l \in place, File(l) PROVE row'[f].there
      BY <2>1, <2>6 DEF File, move_to
    <2> QED
      BY <2>1, <2>2, <2>3, <2>4, <2>5, <2>6 DEF Next, Agent, vars, db, server, StartPass,
         list_folders, dies, create_folder, apply_move, Elsewhere, Restarts, Loaded,
         create_mailbox, delete_mailbox, import
  <1> QED
    BY <1>2, <1>3

\* A folder is dropped only on the strength of LISTs that have left it out for the whole
\* of MISSING_GRACE, and never when it was made here (prune_mailboxes).
THEOREM PruneIsEvident == Spec => PrunedOnEvidence
  <1>1. FInv /\ [Next]_vars => [Evident]_vars
    BY StepEvident
  <1> QED
    BY <1>1, TreeStands, PTL DEF Spec, PrunedOnEvidence
=============================================================================
