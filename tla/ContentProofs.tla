---------------------------- MODULE ContentProofs ----------------------------
(* What holds of Content for every account, and every bound. *)
EXTENDS Content, SequenceTheorems, TLAPS

\* Where two mails wear one Message-ID, sender, subject and time tell them apart:
\* it is all the code has of a row whose content was never fetched (same_message).
HeadersTell ==
    \A m, n \in Mail : Id(m) # NoId /\ Id(m) = Id(n) /\ Headers(m) = Headers(n) => m = n

Parts    == {"head", "part", "whole"}
KeySet   == {<<>>} \cup {<<Id(m)>> : m \in Mail} \cup {<<m, p>> : m \in Mail, p \in Parts}
RowSet   == [mail : Mail \cup {0}, key : KeySet, hash : KeySet,
             status : {"full", "skipped", "pruned", "gone"}]

\* A row is one mail's: its key is the mail's Message-ID or a hash of its bytes, and
\* its hash, if it has one, is of its bytes.
RowOwn(x) ==
    x.status # "gone" =>
        /\ x.mail \in Mail
        /\ \/ x.key = <<Id(x.mail)>> /\ Id(x.mail) # NoId
           \/ \E p \in Parts : x.key = <<x.mail, p>>
        /\ \/ x.hash = <<>>
           \/ \E p \in Parts : x.hash = <<x.mail, p>>
RowsOwn(rs) == rs \in Seq(RowSet) /\ \A r \in DOMAIN rs : RowOwn(rs[r])

\* A copy is placed against a row of its mail.
PlacedOwn(ps, rs) ==
    /\ ps \in [Copy -> Nat]
    /\ \A c \in Copy : ps[c] # 0 =>
         ps[c] \in DOMAIN rs /\ rs[ps[c]].status # "gone" /\ rs[ps[c]].mail = c[2]

\* What is kept is placed, and has its content.
KeptFull(ks, ps, rs) ==
    ks \subseteq Copy /\ \A c \in ks : ps[c] # 0 /\ rs[ps[c]].status = "full"

CInv ==
    /\ copies \subseteq Copy
    /\ RowsOwn(rows) /\ PlacedOwn(place, rows) /\ KeptFull(kept, place, rows)
    /\ \A c \in kept : ~need_headers(c[2])

-----------------------------------------------------------------------------
LEMMA PartIn == \A m : Part(m) \in {"part", "whole"}
  BY DEF Part

LEMMA CopyPair == \A c \in Copy : c[2] \in Mail /\ c = <<c[1], c[2]>>
  BY DEF Copy

\* A row that ingest_raw finds for a mail is a row of that mail.
LEMMA FoundOwn ==
  ASSUME HeadersTell, RowsOwn(rows), NEW m \in Mail, NEW part \in Parts, NEW r \in found(m, part)
  PROVE  r \in DOMAIN rows /\ rows[r].status # "gone" /\ rows[r].mail = m
  <1>1. r \in DOMAIN rows /\ rows[r].status # "gone"
    BY DEF found, Held, Live, Rows
  <1>2. RowOwn(rows[r]) /\ rows[r].mail \in Mail
    BY <1>1 DEF RowsOwn, RowOwn
  <1>3. CASE r \in Held(content_key(m, part))
    <2>1. rows[r].key = <<m, part>>
      BY <1>3 DEF Held, content_key
    <2>2. <<m, part>> # <<Id(rows[r].mail)>>
      OBVIOUS
    <2>3. PICK p \in Parts : rows[r].key = <<rows[r].mail, p>>
      BY <1>1, <1>2, <2>1, <2>2 DEF RowOwn
    <2> QED
      BY <1>1, <2>1, <2>3
  <1>4. CASE r \in Held(dedup_key(m, part)) /\ ~shared_id(m, part) /\ Id(m) # NoId
    <2>1. rows[r].key = <<Id(m)>>
      BY <1>4 DEF Held, dedup_key
    <2>2. same_message(r, m, part)
      BY <1>4 DEF shared_id
    <2>3. Id(rows[r].mail) = Id(m)
      <3>1. \A p : <<Id(m)>> # <<rows[r].mail, p>>
        OBVIOUS
      <3> QED
        BY <1>1, <1>2, <2>1, <3>1 DEF RowOwn
    <2>4. CASE rows[r].hash = <<>>
      BY <1>1, <1>2, <1>4, <2>2, <2>3, <2>4 DEF HeadersTell, same_message
    <2>5. CASE rows[r].hash # <<>>
      <3>1. rows[r].hash = <<m, part>>
        BY <2>2, <2>5 DEF same_message, content_key
      <3>2. PICK p \in Parts : rows[r].hash = <<rows[r].mail, p>>
        BY <1>1, <1>2, <2>5 DEF RowOwn
      <3> QED
        BY <1>1, <3>1, <3>2
    <2> QED
      BY <2>4, <2>5
  <1>5. r \in Held(content_key(m, part)) \/ (r \in Held(dedup_key(m, part)) /\ ~shared_id(m, part))
    BY DEF found
  <1>6. Id(m) = NoId => dedup_key(m, part) = content_key(m, part)
    BY DEF dedup_key
  <1> QED
    BY <1>3, <1>4, <1>5, <1>6

\* What a row comes to hold of a body.
Filled(r, m, part) == [rows[r] EXCEPT !.hash = content_key(m, part), !.status = "full"]

\* A row of mail m in which a field or two are set to what is m's stays m's.
LEMMA FilledOwn ==
  ASSUME RowsOwn(rows), NEW r \in DOMAIN rows, NEW m \in Mail, NEW part \in Parts,
         rows[r].status # "gone", rows[r].mail = m
  PROVE  /\ Filled(r, m, part) \in RowSet /\ RowOwn(Filled(r, m, part))
         /\ Filled(r, m, part).status = "full" /\ Filled(r, m, part).mail = m
  <1>1. rows[r] \in RowSet /\ RowOwn(rows[r])
    BY DEF RowsOwn
  <1>2. <<m, part>> \in KeySet
    BY DEF KeySet
  <1> DEFINE x == Filled(r, m, part)
  <1>3. x \in RowSet
    BY <1>1, <1>2 DEF Filled, RowSet, content_key
  <1>4. x.mail = m /\ x.key = rows[r].key /\ x.hash = <<m, part>> /\ x.status = "full"
    BY <1>1 DEF Filled, RowSet, content_key
  <1>5. RowOwn(x)
    BY <1>1, <1>4 DEF RowOwn
  <1> QED
    BY <1>3, <1>4, <1>5

LEMMA FillInOwn ==
  ASSUME RowsOwn(rows), NEW r \in DOMAIN rows, NEW m \in Mail, NEW part \in Parts,
         rows[r].status # "gone", rows[r].mail = m
  PROVE  /\ fill_in(r, m, part) \in RowSet /\ RowOwn(fill_in(r, m, part))
         /\ fill_in(r, m, part).mail = m /\ fill_in(r, m, part).status # "gone"
         /\ (part # "head" \/ rows[r].status = "full") => fill_in(r, m, part).status = "full"
  <1>1. rows[r] \in RowSet /\ RowOwn(rows[r])
    BY DEF RowsOwn
  <1>2. CASE part # "head" /\ rows[r].status # "full"
    <2>1. fill_in(r, m, part) = Filled(r, m, part)
      BY <1>2 DEF fill_in, Filled
    <2> QED
      BY <2>1, FilledOwn
  <1>3. CASE ~(part # "head" /\ rows[r].status # "full")
    BY <1>1, <1>3 DEF fill_in
  <1> QED
    BY <1>2, <1>3

LEMMA CreatedOwn ==
  ASSUME NEW m \in Mail, NEW part \in Parts
  PROVE  /\ created(m, part) \in RowSet /\ RowOwn(created(m, part))
         /\ created(m, part).mail = m /\ created(m, part).status # "gone"
         /\ part # "head" => created(m, part).status = "full"
  <1> DEFINE k == IF shared_id(m, part) THEN content_key(m, part) ELSE dedup_key(m, part)
             h == IF part = "head" THEN <<>> ELSE content_key(m, part)
             s == IF part = "head" THEN "skipped" ELSE "full"
  <1>1. k = <<m, part>> \/ (k = <<Id(m)>> /\ Id(m) # NoId)
    BY DEF content_key, dedup_key
  <1>2. h = <<>> \/ h = <<m, part>>
    BY DEF content_key
  <1>a. <<>> \in KeySet /\ <<m, part>> \in KeySet /\ <<Id(m)>> \in KeySet
    BY DEF KeySet
  <1>3. k \in KeySet /\ h \in KeySet /\ s \in {"full", "skipped"}
    <2> HIDE DEF k, h
    <2> QED
      BY <1>1, <1>2, <1>a
  <1>4. created(m, part) = [mail |-> m, key |-> k, hash |-> h, status |-> s]
    BY DEF created
  <1> HIDE DEF k, h
  <1>5. created(m, part) \in RowSet
    BY <1>3, <1>4 DEF RowSet
  <1>6. RowOwn(created(m, part))
    BY <1>1, <1>2, <1>4 DEF RowOwn
  <1> QED
    BY <1>4, <1>5, <1>6

\* When rows stay their mails' and live, placements and what is kept stay as they are.
LEMMA RowsChange ==
  ASSUME CInv, NEW rs \in Seq(RowSet), DOMAIN rows \subseteq DOMAIN rs,
         \A r \in DOMAIN rs : RowOwn(rs[r]),
         \A r \in DOMAIN rows : \A c \in Copy : place[c] = r =>
             /\ rs[r].status # "gone" /\ rs[r].mail = rows[r].mail
             /\ (c \in kept /\ rows[r].status = "full") => rs[r].status = "full"
  PROVE  RowsOwn(rs) /\ PlacedOwn(place, rs) /\ KeptFull(kept, place, rs)
  <1>1. RowsOwn(rs)
    BY DEF RowsOwn
  <1>2. PlacedOwn(place, rs)
    BY DEF CInv, PlacedOwn
  <1>3. KeptFull(kept, place, rs)
    BY DEF CInv, PlacedOwn, KeptFull
  <1> QED
    BY <1>1, <1>2, <1>3

\* A copy placed against a row of its mail, with the others left where they are.
LEMMA PlaceChange ==
  ASSUME NEW rs, PlacedOwn(place, rs), KeptFull(kept, place, rs), NEW c \in Copy,
         NEW r \in DOMAIN rs, r \in Nat \ {0}, rs[r].status # "gone", rs[r].mail = c[2],
         NEW ks, ks \subseteq kept \cup {c}, c \in ks => rs[r].status = "full"
  PROVE  PlacedOwn([place EXCEPT ![c] = r], rs) /\ KeptFull(ks, [place EXCEPT ![c] = r], rs)
  BY DEF PlacedOwn, KeptFull

LEMMA InitInv == Init => CInv
  <1> SUFFICES ASSUME Init PROVE CInv
    OBVIOUS
  <1>1. copies \subseteq Copy
    BY DEF Init, Copy
  <1>2. RowsOwn(rows)
    BY DEF Init, RowsOwn
  <1>3. PlacedOwn(place, rows) /\ KeptFull(kept, place, rows) /\ \A c \in kept : ~need_headers(c[2])
    BY DEF Init, PlacedOwn, KeptFull
  <1> QED
    BY <1>1, <1>2, <1>3 DEF CInv

\* The walk: the row found is the mail's, and so is the one made.
LEMMA WalkInv == ASSUME HeadersTell, CInv, NEW c \in Copy, Walk(c) PROVE CInv'
  <1> DEFINE m    == c[2]
             part == IF need_headers(m) THEN "head" ELSE Part(m)
  <1>1. m \in Mail /\ part \in Parts /\ (part = "head" <=> need_headers(m))
    BY CopyPair, PartIn DEF Parts
  <1>2. ingest_raw(c, m, part) /\ UNCHANGED <<server, config>>
        /\ kept' = IF need_headers(m) THEN kept ELSE kept \cup {c}
    BY DEF Walk
  <1>3. RowsOwn(rows) /\ rows \in Seq(RowSet) /\ PlacedOwn(place, rows) /\ KeptFull(kept, place, rows)
    BY DEF CInv, RowsOwn
  <1>k. c \in kept => ~need_headers(m)
    BY DEF CInv
  <1>5. copies' \subseteq Copy /\ \A d \in kept' : ~need_headers(d[2])'
    BY <1>2 DEF CInv, server, need_headers
  <1> HIDE DEF m, part
  <1>6. CASE found(m, part) = {}
    <2> DEFINE n  == Len(rows) + 1
               rs == Append(rows, created(m, part))
    <2>1. rows' = rs /\ place' = [place EXCEPT ![c] = n]
      BY <1>2, <1>6 DEF ingest_raw
    <2>2. created(m, part) \in RowSet /\ RowOwn(created(m, part)) /\ created(m, part).mail = m
          /\ created(m, part).status # "gone" /\ (part # "head" => created(m, part).status = "full")
      BY <1>1, CreatedOwn
    <2>3. /\ rs \in Seq(RowSet) /\ DOMAIN rows \subseteq DOMAIN rs /\ n \in DOMAIN rs
          /\ n \in Nat \ {0} /\ rs[n] = created(m, part)
          /\ \A r \in DOMAIN rows : rs[r] = rows[r]
          /\ \A r \in DOMAIN rs : r = n \/ r \in DOMAIN rows
      <3> HIDE DEF rs
      <3>0. created(m, part) \in RowSet
        BY <2>2
      <3> DEFINE x == created(m, part)
      <3> HIDE DEF x
      <3>1. x \in RowSet /\ rs = Append(rows, x)
        BY <2>2 DEF x, rs
      <3>2. rs \in Seq(RowSet) /\ Len(rs) = n /\ DOMAIN rs = 1..n /\ rs[n] = x
            /\ \A r \in 1..Len(rows) : rs[r] = rows[r]
        BY <1>3, <3>1, AppendProperties
      <3>3. DOMAIN rows = 1..Len(rows) /\ Len(rows) \in Nat
        BY <1>3
      <3> QED
        BY <3>2, <3>3 DEF x
    <2> HIDE DEF rs, n
    <2>4. \A r \in DOMAIN rs : RowOwn(rs[r])
      BY <1>3, <2>2, <2>3 DEF RowsOwn
    <2>5. RowsOwn(rs) /\ PlacedOwn(place, rs) /\ KeptFull(kept, place, rs)
      <3>1. \A r \in DOMAIN rows : \A d \in Copy : place[d] = r => rows[r].status # "gone"
        <4>1. \A r \in DOMAIN rows : r # 0
          BY <1>3
        <4> QED
          BY <1>3, <4>1 DEF PlacedOwn
      <3> QED
        BY <2>3, <2>4, <3>1, RowsChange
    <2>6. PlacedOwn(place', rs) /\ KeptFull(kept', place', rs)
      <3>1. kept' \subseteq kept \cup {c} /\ (c \in kept' => rs[n].status = "full")
        BY <1>1, <1>2, <1>k, <2>2, <2>3
      <3>2. rs[n].status # "gone" /\ rs[n].mail = c[2]
        BY <2>2, <2>3 DEF m
      <3> QED
        BY <2>1, <2>3, <2>5, <3>1, <3>2, PlaceChange
    <2> QED
      BY <1>5, <2>1, <2>5, <2>6 DEF CInv
  <1>7. CASE found(m, part) # {}
    <2>1. PICK r \in found(m, part) : rows' = [rows EXCEPT ![r] = fill_in(r, m, part)]
                                      /\ place' = [place EXCEPT ![c] = r]
      BY <1>2, <1>7 DEF ingest_raw
    <2>2. r \in DOMAIN rows /\ rows[r].status # "gone" /\ rows[r].mail = m
      BY <1>1, <1>3, FoundOwn
    <2> DEFINE x  == fill_in(r, m, part)
               rs == [rows EXCEPT ![r] = x]
    <2>3. x \in RowSet /\ RowOwn(x) /\ x.mail = m /\ x.status # "gone"
          /\ ((part # "head" \/ rows[r].status = "full") => x.status = "full")
      BY <1>1, <1>3, <2>2, FillInOwn
    <2> HIDE DEF x
    <2>4. rs \in Seq(RowSet) /\ DOMAIN rs = DOMAIN rows /\ rs[r] = x /\ r \in Nat \ {0}
          /\ \A q \in DOMAIN rows \ {r} : rs[q] = rows[q]
      BY <1>3, <2>2, <2>3
    <2>5. rows' = rs
      BY <2>1 DEF x
    <2> HIDE DEF rs
    <2>6. \A q \in DOMAIN rs : RowOwn(rs[q])
      BY <1>3, <2>3, <2>4 DEF RowsOwn
    <2>7. RowsOwn(rs) /\ PlacedOwn(place, rs) /\ KeptFull(kept, place, rs)
      <3>1. \A q \in DOMAIN rows : \A d \in Copy : place[d] = q =>
               /\ rs[q].status # "gone" /\ rs[q].mail = rows[q].mail
               /\ rows[q].status = "full" => rs[q].status = "full"
        <4>1. \A q \in DOMAIN rows : q # 0
          BY <1>3
        <4>2. \A q \in DOMAIN rows : \A d \in Copy : place[d] = q => rows[q].status # "gone"
          BY <1>3, <4>1 DEF PlacedOwn
        <4> QED
          BY <2>2, <2>3, <2>4, <4>2
      <3> QED
        BY <2>4, <2>6, <3>1, RowsChange
    <2>8. PlacedOwn(place', rs) /\ KeptFull(kept', place', rs)
      <3>1. kept' \subseteq kept \cup {c} /\ (c \in kept' => rs[r].status = "full")
        BY <1>1, <1>2, <1>k, <2>3, <2>4
      <3>2. rs[r].status # "gone" /\ rs[r].mail = c[2]
        BY <2>3, <2>4 DEF m
      <3> QED
        BY <2>1, <2>2, <2>4, <2>7, <3>1, <3>2, PlaceChange
    <2> QED
      BY <1>5, <2>5, <2>7, <2>8 DEF CInv
  <1> QED
    BY <1>6, <1>7

\* Steps that leave rows, placements and what is kept alone.
LEMMA AsideInv ==
  ASSUME CInv, UNCHANGED <<rows, place, kept, config, old>>, copies' \subseteq Copy
  PROVE  CInv'
  <1>1. RowsOwn(rows)' /\ PlacedOwn(place, rows)' /\ KeptFull(kept, place, rows)'
    BY DEF CInv, RowsOwn, PlacedOwn, KeptFull
  <1>2. (\A c \in kept : ~need_headers(c[2]))'
    BY DEF CInv, need_headers
  <1> QED
    BY <1>1, <1>2 DEF CInv

\* The repair writes a copy's bytes into the row the copy is placed against by now.
LEMMA RefetchInv == ASSUME CInv, Refetch PROVE CInv'
  <1> DEFINE Asked(r) == {c \in DOMAIN sweep \cap copies : place[c] = r}
  <1>1. RowsOwn(rows) /\ rows \in Seq(RowSet) /\ PlacedOwn(place, rows) /\ KeptFull(kept, place, rows)
        /\ copies \subseteq Copy
    BY DEF CInv, RowsOwn
  <1>2. rows' = [r \in Rows |->
           IF \E c \in DOMAIN sweep \cap copies : place[c] = r
           THEN Filled(r, (CHOOSE c \in DOMAIN sweep \cap copies : place[c] = r)[2],
                       Part((CHOOSE c \in DOMAIN sweep \cap copies : place[c] = r)[2]))
           ELSE rows[r]]
    BY DEF Refetch, restore_content, Filled
  <1>3. UNCHANGED <<server, config, place, kept>>
    BY DEF Refetch
  <1>4. DOMAIN rows' = DOMAIN rows /\ DOMAIN rows = 1..Len(rows) /\ Len(rows) \in Nat
    BY <1>1, <1>2 DEF Rows
  <1>5. ASSUME NEW r \in DOMAIN rows
        PROVE  /\ rows'[r] \in RowSet /\ RowOwn(rows'[r]) /\ rows'[r].mail = rows[r].mail
               /\ rows[r].status # "gone" => rows'[r].status # "gone"
               /\ rows[r].status = "full" => rows'[r].status = "full"
    <2>1. CASE \E c \in DOMAIN sweep \cap copies : place[c] = r
      <3> DEFINE c == CHOOSE c \in DOMAIN sweep \cap copies : place[c] = r
      <3>1. c \in DOMAIN sweep \cap copies /\ place[c] = r
        BY <2>1
      <3>2. rows'[r] = Filled(r, c[2], Part(c[2]))
        BY <1>2, <2>1 DEF Rows
      <3> HIDE DEF c
      <3>3. c \in Copy /\ place[c] # 0 /\ c[2] \in Mail
        BY <1>1, <1>4, <3>1, CopyPair
      <3>4. rows[r].status # "gone" /\ rows[r].mail = c[2]
        BY <1>1, <3>1, <3>3 DEF PlacedOwn
      <3>5. Part(c[2]) \in Parts
        BY PartIn DEF Parts
      <3> QED
        BY <1>1, <3>2, <3>3, <3>4, <3>5, FilledOwn
    <2>2. CASE ~\E c \in DOMAIN sweep \cap copies : place[c] = r
      <3>1. rows'[r] = rows[r]
        BY <1>2, <2>2 DEF Rows
      <3> QED
        BY <1>1, <3>1 DEF RowsOwn
    <2> QED
      BY <2>1, <2>2
  <1>6. rows' \in Seq(RowSet)
    <2>1. rows' = [r \in 1..Len(rows) |-> rows'[r]]
      BY <1>2, <1>4 DEF Rows
    <2> QED
      BY <1>4, <1>5, <2>1
  <1>7. RowsOwn(rows') /\ PlacedOwn(place, rows') /\ KeptFull(kept, place, rows')
    <2> DEFINE rs == rows'
    <2>1. rs \in Seq(RowSet) /\ DOMAIN rows \subseteq DOMAIN rs /\ \A r \in DOMAIN rs : RowOwn(rs[r])
      BY <1>4, <1>5, <1>6
    <2>2. \A r \in DOMAIN rows : \A c \in Copy : place[c] = r =>
             /\ rs[r].status # "gone" /\ rs[r].mail = rows[r].mail
             /\ (c \in kept /\ rows[r].status = "full") => rs[r].status = "full"
      <3>1. \A r \in DOMAIN rows : \A c \in Copy : place[c] = r => rows[r].status # "gone"
        BY <1>1, <1>4 DEF PlacedOwn
      <3> QED
        BY <1>5, <3>1
    <2> HIDE DEF rs
    <2>3. RowsOwn(rs) /\ PlacedOwn(place, rs) /\ KeptFull(kept, place, rs)
      BY <2>1, <2>2, RowsChange
    <2> QED
      BY <2>3 DEF rs
  <1>8. copies' \subseteq Copy /\ (\A c \in kept : ~need_headers(c[2]))'
    BY <1>3 DEF CInv, server, need_headers
  <1> QED
    BY <1>3, <1>7, <1>8 DEF CInv

\* A row whose status alone changes: what prune and collect do.
LEMMA StatusInv ==
  ASSUME CInv, NEW r \in DOMAIN rows, NEW x \in RowSet, RowOwn(x),
         rows' = [rows EXCEPT ![r] = x], UNCHANGED <<copies, place, kept, config, old>>,
         \A c \in Copy : place[c] = r =>
             c \notin kept /\ x.status # "gone" /\ x.mail = rows[r].mail
  PROVE  CInv'
  <1>1. RowsOwn(rows) /\ rows \in Seq(RowSet) /\ PlacedOwn(place, rows)
    BY DEF CInv, RowsOwn
  <1>2. rows' \in Seq(RowSet) /\ DOMAIN rows' = DOMAIN rows /\ rows'[r] = x /\ 0 \notin DOMAIN rows
        /\ \A q \in DOMAIN rows \ {r} : rows'[q] = rows[q]
    BY <1>1
  <1> DEFINE rs == rows'
  <1>3. rs \in Seq(RowSet) /\ DOMAIN rows \subseteq DOMAIN rs /\ \A q \in DOMAIN rs : RowOwn(rs[q])
    BY <1>1, <1>2 DEF RowsOwn
  <1>4. \A q \in DOMAIN rows : \A c \in Copy : place[c] = q =>
             /\ rs[q].status # "gone" /\ rs[q].mail = rows[q].mail
             /\ (c \in kept /\ rows[q].status = "full") => rs[q].status = "full"
    BY <1>1, <1>2 DEF PlacedOwn
  <1> HIDE DEF rs
  <1>5. RowsOwn(rs) /\ PlacedOwn(place, rs) /\ KeptFull(kept, place, rs)
    BY <1>3, <1>4, RowsChange
  <1>6. copies' \subseteq Copy /\ (\A c \in kept : ~need_headers(c[2]))'
    BY DEF CInv, need_headers
  <1> QED
    BY <1>5, <1>6 DEF CInv, rs

LEMMA PruneInv == ASSUME CInv, NEW r \in Rows, Prune(r) PROVE CInv'
  <1> DEFINE x == [rows[r] EXCEPT !.status = "pruned"]
  <1>1. rows[r] \in RowSet /\ RowOwn(rows[r]) /\ r \in DOMAIN rows /\ PlacedOwn(place, rows)
    BY DEF CInv, RowsOwn, Rows
  <1>2. rows[r].status = "full" /\ rows[r].mail \in old /\ config.window
    BY DEF Prune
  <1>3. x \in RowSet /\ RowOwn(x) /\ x.status # "gone" /\ x.mail = rows[r].mail
    BY <1>1, <1>2 DEF RowSet, RowOwn
  <1>4. rows' = [rows EXCEPT ![r] = x] /\ UNCHANGED <<copies, place, kept, config, old>>
    BY DEF Prune, server
  <1> HIDE DEF x
  <1>5. \A c \in Copy : place[c] = r => c \notin kept
    <2>1. r # 0
      BY <1>1 DEF CInv, RowsOwn
    <2>2. \A c \in Copy : place[c] = r => rows[r].mail = c[2]
      BY <1>1, <2>1 DEF PlacedOwn
    <2> QED
      BY <1>2, <2>2 DEF CInv, need_headers
  <1> QED
    BY <1>1, <1>3, <1>4, <1>5, StatusInv

LEMMA CollectInv == ASSUME CInv, NEW r \in Rows, Collect(r) PROVE CInv'
  <1>1. Gone \in RowSet /\ RowOwn(Gone)
    BY DEF Gone, RowSet, KeySet, RowOwn
  <1>2. rows' = [rows EXCEPT ![r] = Gone] /\ UNCHANGED <<copies, place, kept, config, old>>
        /\ \A c \in Copy : place[c] # r
    BY DEF Collect, server
  <1> QED
    BY <1>1, <1>2, StatusInv DEF Rows

\* The cutoff moves past a mail, or the agent comes back with another configuration.
LEMMA WindowInv ==
  ASSUME CInv, (\E m \in Mail : Slide(m)) \/ (\E w, k \in BOOLEAN : Configure(w, k))
  PROVE  CInv'
  <1>1. UNCHANGED <<copies, rows, place>> /\ kept' \subseteq kept
    BY DEF Slide, Configure, server
  <1>2. RowsOwn(rows)' /\ PlacedOwn(place, rows)' /\ KeptFull(kept, place, rows)'
    BY <1>1 DEF CInv, RowsOwn, PlacedOwn, KeptFull
  <1>3. ASSUME NEW c \in kept' PROVE ~need_headers(c[2])'
    <2>1. CASE \E m \in Mail : Slide(m)
      BY <1>3, <2>1 DEF Slide, CInv, need_headers
    <2>2. CASE \E w, k \in BOOLEAN : Configure(w, k)
      <3>1. PICK w \in BOOLEAN, k \in BOOLEAN : Configure(w, k)
        BY <2>2
      <3>2. config'.window = w /\ (config'.cap <=> k /\ Large # {}) /\ old' = old
        BY <3>1 DEF Configure, server
      <3>3. ~(w /\ c[2] \in old) /\ ~(k /\ c[2] \in Large)
        BY <1>3, <3>1 DEF Configure
      <3> QED
        BY <3>2, <3>3 DEF need_headers
    <2> QED
      BY <2>1, <2>2
  <1> QED
    BY <1>1, <1>2, <1>3 DEF CInv

LEMMA LeaveInv == ASSUME CInv, NEW c \in Copy, Leave(c) PROVE CInv'
  <1>1. copies' \subseteq Copy /\ place' = [place EXCEPT ![c] = 0] /\ kept' = kept \ {c}
        /\ UNCHANGED <<rows, config, old>>
    BY DEF Leave, CInv
  <1>2. RowsOwn(rows)'
    BY <1>1 DEF CInv, RowsOwn
  <1>3. PlacedOwn(place, rows)'
    BY <1>1 DEF CInv, PlacedOwn
  <1>4. KeptFull(kept, place, rows)'
    BY <1>1 DEF CInv, PlacedOwn, KeptFull
  <1>5. (\A d \in kept : ~need_headers(d[2]))'
    BY <1>1 DEF CInv, need_headers
  <1> QED
    BY <1>1, <1>2, <1>3, <1>4, <1>5 DEF CInv

LEMMA NextInv == ASSUME HeadersTell PROVE CInv /\ [Next]_vars => CInv'
  <1> SUFFICES ASSUME CInv, [Next]_vars PROVE CInv'
    OBVIOUS
  <1>0. copies \subseteq Copy
    BY DEF CInv
  <1>1. CASE UNCHANGED vars
    BY <1>0, <1>1, AsideInv DEF vars, server
  <1>2. ASSUME NEW c \in Copy, Walk(c) PROVE CInv'
    BY <1>2, WalkInv
  <1>3. ASSUME NEW c \in Copy, Arrive(c) PROVE CInv'
    BY <1>0, <1>3, AsideInv DEF Arrive
  <1>4. ASSUME NEW c \in Copy, Leave(c) PROVE CInv'
    BY <1>4, LeaveInv
  <1>5. ASSUME NEW f \in Folder, FindShort(f) PROVE CInv'
    BY <1>0, <1>5, AsideInv DEF FindShort, server
  <1>6. ASSUME NEW m \in Mail, Assemble(m) PROVE CInv'
    BY <1>0, <1>6, AsideInv DEF Assemble
  <1>7. ASSUME NEW r \in Rows, Prune(r) \/ Collect(r) PROVE CInv'
    BY <1>7, PruneInv, CollectInv
  <1>8. CASE Recheck \/ RefetchFails
    BY <1>0, <1>8, AsideInv DEF Recheck, RefetchFails, server
  <1>9. CASE Refetch
    BY <1>9, RefetchInv
  <1>10. CASE (\E m \in Mail : Slide(m)) \/ (\E w, k \in BOOLEAN : Configure(w, k))
    BY <1>10, WindowInv
  <1> QED
    BY <1>1, <1>2, <1>3, <1>4, <1>5, <1>6, <1>7, <1>8, <1>9, <1>10 DEF Next

-----------------------------------------------------------------------------
\* Whatever the server shows in whatever folders, whoever wears whose Message-ID, and
\* however often mail is walked, repaired, pruned and walked again, rows and
\* placements are their own mail's (ingest_raw, restore_content, prune).
THEOREM RowsStayOwn == ASSUME HeadersTell PROVE Spec => []CInv
  <1>1. Init => CInv
    BY InitInv
  <1>2. CInv /\ [Next]_vars => CInv'
    BY NextInv
  <1> QED
    BY <1>1, <1>2, PTL DEF Spec

\* A folder shows in a mail's place that mail, with its own content (same_message).
THEOREM ContentIsOwn == ASSUME HeadersTell PROVE Spec => []OwnContent
  <1>1. CInv => OwnContent
    <2> SUFFICES ASSUME CInv, NEW c \in Copy, place[c] # 0
                 PROVE  /\ Live(place[c]) /\ rows[place[c]].mail = c[2]
                        /\ rows[place[c]].hash # <<>> => rows[place[c]].hash[1] = c[2]
      BY DEF OwnContent
    <2>1. place[c] \in DOMAIN rows /\ rows[place[c]].status # "gone" /\ rows[place[c]].mail = c[2]
      BY DEF CInv, PlacedOwn
    <2>2. RowOwn(rows[place[c]])
      BY <2>1 DEF CInv, RowsOwn
    <2> QED
      BY <2>1, <2>2 DEF Live, RowOwn
  <1> QED
    BY <1>1, RowsStayOwn, PTL

\* Mail that window and cap have kept since it was walked can be read (fill_in, prune).
THEOREM KeptIsReadable == ASSUME HeadersTell PROVE Spec => []Readable
  <1>1. CInv => Readable
    BY DEF CInv, KeptFull, Readable
  <1> QED
    BY <1>1, RowsStayOwn, PTL
=============================================================================
