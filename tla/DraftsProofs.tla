---------------------------- MODULE DraftsProofs ----------------------------
EXTENDS Drafts, WellFoundedInduction, TLAPS

IsTable(f) == f = [x \in DOMAIN f |-> f[x]]

IsDraft(d) ==
    /\ d = [id |-> d.id, rev |-> d.rev, words |-> d.words, files |-> d.files, sig |-> d.sig,
            blind |-> d.blind]
    /\ d.id \in Nat /\ d.rev \in Nat /\ d.blind \in BOOLEAN
    /\ d.sig = NoSig \/ \E w, f : d.sig = <<w, f>>
    /\ d.id = Nowhere => d.sig = NoSig

\* A pair is a signature, and none is not.
LEMMA SomeSig == ASSUME NEW w, NEW f PROVE <<w, f>> # NoSig
  BY DEF NoSig

LEMMA MadeDraft ==
  ASSUME NEW id \in Nat, NEW rev \in Nat, NEW w, NEW f
  PROVE  LET d == Draft(id, rev, w, f, NoSig) IN
         /\ IsDraft(d) /\ d.id = id /\ d.rev = rev /\ d.words = w /\ d.files = f /\ d.sig = NoSig
         /\ ~d.blind /\ Dirty(d)
  BY SomeSig DEF Draft, IsDraft, Dirty, Sig

LEMMA DetachedDraft ==
  ASSUME NEW d, IsDraft(d)
  PROVE  LET e == Detached(d) IN
         /\ IsDraft(e) /\ e.id = Nowhere /\ e.rev = 0 /\ e.words = d.words /\ e.files = d.files
         /\ e.sig = NoSig /\ e.blind = d.blind /\ Dirty(e)
  <1>1. PICK e : e = Detached(d)
    OBVIOUS
  <1>2. e = [id |-> 0, rev |-> 0, words |-> d.words, files |-> d.files, sig |-> NoSig, blind |-> d.blind]
    BY <1>1 DEF IsDraft, Detached, Nowhere
  <1> QED
    BY <1>1, <1>2, SomeSig DEF IsDraft, Dirty, Sig, Nowhere

LEMMA SavedDraft ==
  ASSUME NEW d, IsDraft(d), NEW r, r.newid \in Nat \ {0}, r.newrev \in Nat
  PROVE  LET e == Saved(d, r) IN
         /\ IsDraft(e) /\ e.id = r.newid /\ e.rev = r.newrev /\ e.words = d.words
         /\ e.files \subseteq d.files /\ e.sig = <<r.words, r.files>> /\ ~e.blind
  <1>1. PICK e : e = Saved(d, r)
    OBVIOUS
  <1>2. e = [id |-> r.newid, rev |-> r.newrev, words |-> d.words, files |-> d.files \ r.missing,
             sig |-> <<r.words, r.files>>, blind |-> FALSE]
    BY <1>1 DEF IsDraft, Saved
  <1> QED
    BY <1>1, <1>2 DEF IsDraft, Nowhere

LEMMA AdoptedDraft ==
  ASSUME NEW d, IsDraft(d), d.sig = NoSig, NEW i \in Nat, NEW x, x.draft.rev \in Nat
  PROVE  LET e == Adopted(d, i, x) IN
         /\ IsDraft(e) /\ e.id = i /\ e.rev = x.draft.rev /\ e.words = d.words /\ e.files = d.files
         /\ e.sig = NoSig /\ e.blind
  <1>1. PICK e : e = Adopted(d, i, x)
    OBVIOUS
  <1>2. e = [id |-> i, rev |-> x.draft.rev, words |-> d.words, files |-> d.files, sig |-> NoSig,
             blind |-> TRUE]
    BY <1>1 DEF IsDraft, Adopted
  <1> QED
    BY <1>1, <1>2 DEF IsDraft

LEMMA FetchedDraft ==
  ASSUME NEW i \in Nat \ {0}, NEW x, x.rev \in Nat, NEW missing
  PROVE  LET e == FromServer(i, x, missing) IN
         /\ IsDraft(e) /\ e.id = i /\ e.rev = x.rev /\ e.words = x.words
         /\ e.files = x.files \ missing /\ (e.sig # NoSig => e.sig = <<x.words, x.files>>) /\ ~e.blind
  <1>1. PICK e : e = FromServer(i, x, missing)
    OBVIOUS
  <1>2. PICK s : s = IF x.files \cap missing # {} THEN NoSig ELSE <<x.words, x.files>>
    OBVIOUS
  <1>3. e = [id |-> i, rev |-> x.rev, words |-> x.words, files |-> x.files \ missing,
             sig |-> s, blind |-> FALSE]
    BY <1>1, <1>2 DEF FromServer, Draft
  <1>4. s = NoSig \/ s = <<x.words, x.files>>
    BY <1>2
  <1> QED
    BY <1>1, <1>3, <1>4 DEF IsDraft, Nowhere

LEMMA DropTable ==
  ASSUME NEW f, NEW k
  PROVE  LET g == Drop(f, k) IN
         /\ IsTable(g) /\ DOMAIN g = DOMAIN f \ {k} /\ \A x \in DOMAIN g : g[x] = f[x]
  BY DEF Drop, Restrict, IsTable

----------------------------------------------------------------------------
\* What the parts of the state are.
IsSavedRow(x) ==
    /\ x = [rev |-> x.rev, words |-> x.words, files |-> x.files, key |-> x.key]
    /\ x.rev \in Nat \ {0}

IsReq(r) ==
    /\ r = [tab |-> r.tab, live |-> r.live, key |-> r.key, id |-> r.id, base |-> r.base,
            words |-> r.words, files |-> r.files, blind |-> r.blind, ans |-> r.ans,
            newid |-> r.newid, newrev |-> r.newrev, missing |-> r.missing]
    /\ r.tab \in Tab /\ r.live \in BOOLEAN /\ r.id \in Nat /\ r.base \in Nat /\ r.blind \in BOOLEAN
    /\ r.ans \in {"none", "saved", "404", "409", "lost"} /\ r.newid \in Nat /\ r.newrev \in Nat
    /\ r.ans = "saved" => r.newid # Nowhere

IsPost(p) ==
    /\ p = [phase |-> p.phase, key |-> p.key, words |-> p.words, files |-> p.files, id |-> p.id,
            rev |-> p.rev, ans |-> p.ans]
    /\ p.phase \in {"waits", "out", "answered"} /\ p.id \in Nat /\ p.rev \in Nat
    /\ p.phase = "waits" => p.id = Nowhere

IsCopy(e) ==
    /\ e = [owner |-> e.owner, id |-> e.id, rev |-> e.rev, words |-> e.words, files |-> e.files,
            blind |-> e.blind]
    /\ e.owner \in Tab /\ e.id \in Nat /\ e.rev \in Nat /\ e.blind \in BOOLEAN

\* An id is given out once, for a draft of one key, K[i].
Keys        == 1 .. nextkey - 1
Tagged(K, i, k) == i \in 0 .. nextid - 1 /\ (i # Nowhere => K[i] = k)
Answers(r, t, k) == r.live /\ r.tab = t /\ r.key = k

Counted(K) == nextid \in Nat \ {0} /\ nextkey \in Nat \ {0} /\ typed \in Nat /\ K \in [Nat -> Nat]

RowsTyped(K) ==
    /\ IsTable(row)
    /\ \A i \in DOMAIN row :
         i \in 1 .. nextid - 1 /\ IsSavedRow(row[i]) /\ row[i].key \in Keys /\ K[i] = row[i].key

HeldTyped(K) ==
    /\ held = [t \in Tab |-> held[t]]
    /\ \A t \in Tab : /\ IsTable(held[t])
                      /\ \A k \in DOMAIN held[t] :
                           k \in Keys /\ IsDraft(held[t][k]) /\ Tagged(K, held[t][k].id, k)

PagesTyped ==
    /\ screen \in [Tab -> Nat] /\ \A t \in Tab : screen[t] # Nowhere => screen[t] \in DOMAIN held[t]
    /\ gone = [t \in Tab |-> gone[t]]
    /\ \A t \in Tab : gone[t] \subseteq Keys /\ gone[t] \cap DOMAIN held[t] = {}
    /\ up \subseteq Tab /\ own = [t \in Tab |-> own[t]] /\ \A t \in Tab \ up : own[t] = {}
    /\ \A t \in Tab \ up : /\ DOMAIN held[t] = {} /\ gone[t] = {} /\ post[t] = NoPost
                           /\ listing[t] = NoList

ReqsTyped(K) ==
    /\ \A r \in reqs : /\ IsReq(r) /\ r.key \in Keys
                       /\ Tagged(K, r.id, r.key) /\ Tagged(K, r.newid, r.key)
                       /\ r.live => r.tab \in up /\ r.key \in DOMAIN held[r.tab] \cup gone[r.tab]
    /\ \A r, q \in reqs : r.live /\ Answers(q, r.tab, r.key) => r = q

DeletesTyped(K) ==
    \A x \in deletes : /\ x = [id |-> x.id, rev |-> x.rev, key |-> x.key] /\ x.rev \in Nat
                       /\ x.id # Nowhere /\ Tagged(K, x.id, x.key)

PostsTyped(K) ==
    /\ post = [t \in Tab |-> post[t]]
    /\ \A t \in Tab : post[t] # NoPost =>
         /\ IsPost(post[t]) /\ post[t].key \in DOMAIN held[t] /\ post[t].key = screen[t]
         /\ Tagged(K, post[t].id, post[t].key)
         /\ post[t].phase # "waits" => \A r \in reqs : ~Answers(r, t, post[t].key)

ListsTyped(K) ==
    /\ listing = [t \in Tab |-> listing[t]]
    /\ \A t \in Tab :
         /\ listing[t] = [ids |-> listing[t].ids, rows |-> listing[t].rows]
         /\ listing[t].ids \subseteq 1 .. nextid - 1
         /\ listing[t].ids \cap DOMAIN row \subseteq DOMAIN listing[t].rows
         /\ \A i \in DOMAIN listing[t].rows :
              LET x == listing[t].rows[i] IN
              /\ i \in 1 .. nextid - 1 /\ x.key \in Keys /\ K[i] = x.key
              /\ IsDraft(x.draft) /\ x.draft.id = i /\ ~x.draft.blind

LocalTyped(K) ==
    /\ IsTable(local)
    /\ \A k \in DOMAIN local : k \in Keys /\ IsCopy(local[k]) /\ Tagged(K, local[k].id, k)

Typed(K) ==
    /\ Counted(K) /\ RowsTyped(K) /\ HeldTyped(K) /\ PagesTyped /\ ReqsTyped(K)
    /\ DeletesTyped(K) /\ PostsTyped(K) /\ ListsTyped(K) /\ LocalTyped(K)

----------------------------------------------------------------------------
\* What becomes of a draft d under key k of tab t, and of what it is then, e.
Edits(t, k, d, e) ==
    /\ e.id = d.id /\ e.rev = d.rev /\ e.sig = d.sig /\ e.blind = d.blind /\ IsDraft(e)
    /\ d.words \subseteq e.words /\ (e.words # d.words => post[t] = NoPost)
    /\ \A f \in e.files \ d.files : f \in disk' /\ f[1] = k

GetsSaved(t, k, d, e) ==
    \E r \in reqs \ reqs' : Answers(r, t, k) /\ r.ans = "saved" /\ e = Saved(d, r)

GetsCut(t, k, d, e) ==
    /\ e = Detached(d)
    /\ \/ d.id # Nowhere /\ d.id \notin DOMAIN row
       \/ \E r \in reqs \ reqs' : Answers(r, t, k) /\ r.ans = "404"

GetsAdopted(t, k, d, e) ==
    /\ d.id = Nowhere
    /\ \E i \in DOMAIN listing[t].rows :
         listing[t].rows[i].key = k /\ e = Adopted(d, i, listing[t].rows[i])

GetsReplaced(t, k, d, e) ==
    /\ ~Dirty(d) /\ k # screen[t] /\ d.id \in DOMAIN listing[t].rows
    /\ listing[t].rows[d.id].key = k /\ e = listing[t].rows[d.id].draft /\ d.rev < e.rev

Stays(t, k) ==
    /\ k \in DOMAIN held'[t]
    /\ \/ Edits(t, k, held[t][k], held'[t][k])
       \/ GetsSaved(t, k, held[t][k], held'[t][k])
       \/ GetsCut(t, k, held[t][k], held'[t][k])
       \/ GetsAdopted(t, k, held[t][k], held'[t][k])
       \/ GetsReplaced(t, k, held[t][k], held'[t][k])

\* The page goes, or the draft is thrown away, sent, lost to another tab, or forks.
LeftWith(t, d) ==
    /\ t \in up /\ t \notin up' /\ post[t] = NoPost
    /\ Dirty(d) => d.words \subseteq DraftWords(local') \cup overrun'
ThrownAway(t, k, d) ==
    /\ k \in gone'[t] /\ Sending(t) # k /\ d.words \subseteq thrown'
    /\ d.id # Nowhere => [id |-> d.id, rev |-> Seen(d), key |-> k] \in deletes'
SentOff(t, k) == k \in gone'[t] /\ post[t] # NoPost /\ post[t].ans = "sent"
                 /\ post[t].phase = "answered" /\ post[t].key = k
LetGo(t, k, d) ==
    k \in gone'[t] /\ k # screen[t] /\ ~Dirty(d) /\ d.id # Nowhere /\ d.id \notin DOMAIN row
Forks(t, k, d) ==
    /\ \E r \in reqs \ reqs' : Answers(r, t, k) /\ r.ans = "409"
    /\ nextkey \in DOMAIN held'[t] /\ held'[t][nextkey] = Detached(d) /\ k \notin gone'[t]
    /\ nextkey' = nextkey + 1

Departs(t, k) ==
    /\ k \notin DOMAIN held'[t]
    /\ \/ LeftWith(t, held[t][k]) \/ ThrownAway(t, k, held[t][k]) \/ SentOff(t, k)
       \/ LetGo(t, k, held[t][k]) \/ Forks(t, k, held[t][k])

\* A draft that is new to its tab.
Begun(k, e) ==
    /\ k = nextkey /\ nextkey' = nextkey + 1
    /\ \E fs \in SUBSET {f \in disk' : f[1] = k} : e = Draft(Nowhere, 0, {typed + 1}, fs, NoSig)
Forked2(t, k, e) ==
    /\ k = nextkey /\ nextkey' = nextkey + 1 /\ e.files \subseteq shared'
    /\ \E x \in DOMAIN held[t] : e = Detached(held[t][x])
Fetched(t, k, e) ==
    \E i \in DOMAIN listing[t].rows : listing[t].rows[i].key = k /\ k \notin gone[t] /\ e = listing[t].rows[i].draft
Loaded(t, k, e) ==
    /\ t \notin up /\ t \in up'
    /\ \/ \E i \in DOMAIN row : row[i].key = k /\ e = FromServer(i, row[i], row[i].files \ disk)
       \/ k \in DOMAIN local /\ \E offline \in BOOLEAN : e = LocalDraft(k, offline)

Comes(t, k) ==
    \/ Begun(k, held'[t][k]) \/ Forked2(t, k, held'[t][k]) \/ Fetched(t, k, held'[t][k])
    \/ Loaded(t, k, held'[t][k])

HeldMoves ==
    /\ held' = [t \in Tab |-> held'[t]]
    /\ \A t \in Tab : /\ IsTable(held'[t])
                      /\ \A k \in DOMAIN held[t] : Stays(t, k) \/ Departs(t, k)
                      /\ \A k \in DOMAIN held'[t] \ DOMAIN held[t] : Comes(t, k)

LEMMA SameDraft ==
  ASSUME NEW K, HeldTyped(K), NEW t \in Tab, NEW k \in DOMAIN held[t],
         k \in DOMAIN held'[t], held'[t][k] = held[t][k]
  PROVE  Stays(t, k)
  BY DEF HeldTyped, Stays, Edits

LEMMA HeldQuiet ==
  ASSUME NEW K, HeldTyped(K), UNCHANGED held
  PROVE  HeldMoves
  BY SameDraft DEF HeldMoves, HeldTyped

\* One tab's drafts are changed.
LEMMA HeldOne ==
  ASSUME NEW K, HeldTyped(K), NEW t \in Tab, NEW hs, held' = [held EXCEPT ![t] = hs], IsTable(hs),
         \A k \in DOMAIN held[t] : Stays(t, k) \/ Departs(t, k),
         \A k \in DOMAIN hs \ DOMAIN held[t] : Comes(t, k)
  PROVE  HeldMoves
  <1>1. held' = [u \in Tab |-> held'[u]] /\ held'[t] = hs /\ \A u \in Tab \ {t} : held'[u] = held[u]
    BY DEF HeldTyped
  <1>2. ASSUME NEW u \in Tab \ {t}
        PROVE  /\ IsTable(held'[u])
               /\ \A k \in DOMAIN held[u] : Stays(u, k)
               /\ \A k \in DOMAIN held'[u] \ DOMAIN held[u] : Comes(u, k)
    BY <1>1, SameDraft DEF HeldTyped
  <1> QED
    BY <1>1, <1>2 DEF HeldMoves

----------------------------------------------------------------------------
\* Saving: a request is made of the draft as it is held, unless one is out.
Asking(t, k, d) ==
    [tab |-> t, live |-> TRUE, key |-> k, id |-> d.id, base |-> d.rev, words |-> d.words,
     files |-> d.files, blind |-> d.blind, ans |-> "none", newid |-> 0, newrev |-> 0, missing |-> {}]

LEMMA SaveMade ==
  ASSUME NEW rs, NEW t, NEW hs, NEW gs, NEW s, NEW k, NEW q \in SaveDraft(rs, t, hs, gs, s, k), q \notin rs
  PROVE  /\ q = Asking(t, k, hs[k]) /\ k \in DOMAIN hs /\ k \notin gs /\ k # s /\ Dirty(hs[k])
         /\ \A r \in rs : ~Answers(r, t, k)
  BY DEF SaveDraft, Asking, OnWire, Answers

LEMMA SaveKeeps ==
  ASSUME NEW rs, NEW t, NEW hs, NEW gs, NEW s, NEW k
  PROVE  rs \subseteq SaveDraft(rs, t, hs, gs, s, k)
  BY DEF SaveDraft

\* What becomes of localStorage.
IsPersisted(p, loc, t, hs, gs) ==
    /\ IsTable(p)
    /\ \A k \in DOMAIN hs \ gs : Dirty(hs[k]) => k \in DOMAIN p /\ p[k] = CopyOf(t, hs[k])
    /\ \A k \in DOMAIN p : ~(k \in DOMAIN hs \ gs /\ Dirty(hs[k])) =>
         k \in DOMAIN loc /\ p[k] = loc[k] /\ k \notin DOMAIN hs \cup gs
    /\ \A k \in DOMAIN loc : k \notin DOMAIN p => k \in DOMAIN hs \cup gs

LEMMA PersistedCopies ==
  ASSUME NEW loc, NEW t, NEW hs, NEW gs
  PROVE  IsPersisted(Persisted(loc, t, hs, gs), loc, t, hs, gs)
  BY DEF Persisted, IsTable, IsPersisted, CopyOf

----------------------------------------------------------------------------
\* A number is the last one that is counted to.
LEMMA Least ==
  ASSUME NEW X \in SUBSET Nat, X # {}
  PROVE  \E x \in X : \A y \in X : x <= y
  <1>1. PICK x \in X : \A y \in X : ~ (<<y, x>> \in OpToRel(<, Nat))
    BY WFMin, NatLessThanWellFounded
  <1>2. \A y \in X : ~(y < x)
    BY <1>1 DEF OpToRel
  <1> QED
    BY <1>2

LEMMA Induct ==
  ASSUME NEW X, 0 \in X, \A n \in Nat : n \in X => n + 1 \in X
  PROVE  Nat \subseteq X
  <1> SUFFICES ASSUME Nat \ X # {} PROVE FALSE
    OBVIOUS
  <1>1. PICK x \in Nat \ X : \A y \in Nat \ X : x <= y
    BY Least
  <1>2. x - 1 \in Nat /\ x - 1 \in X
    BY <1>1
  <1> QED
    BY <1>1, <1>2

\* The list of the server laid over a tab's drafts, row by row.
OneLaid(t, i, hs) ==
    IF i \in DOMAIN listing[t].rows THEN Reconciled(t, hs, i, listing[t].rows[i]) ELSE hs

IsLay(f, t, n) == f = [i \in 0..n |-> IF i = 0 THEN held[t] ELSE OneLaid(t, i, f[i-1])]

LEMMA LayDefined ==
  ASSUME NEW t, nextid \in Nat
  PROVE  \E f : IsLay(f, t, nextid) /\ Laid(t) = f[nextid]
  <1> DEFINE X == {n \in Nat : \E f : IsLay(f, t, n)}
  <1>1. 0 \in X
    <2> DEFINE f == [i \in 0..0 |-> held[t]]
    <2>1. IsLay(f, t, 0)
      BY DEF IsLay
    <2> QED
      BY <2>1
  <1>2. ASSUME NEW n \in Nat, n \in X PROVE n + 1 \in X
    <2>1. PICK f : IsLay(f, t, n)
      BY <1>2
    <2> DEFINE h == [i \in 0..(n+1) |-> IF i <= n THEN f[i] ELSE OneLaid(t, i, f[n])]
    <2>2. f = [i \in 0..n |-> IF i = 0 THEN held[t] ELSE OneLaid(t, i, f[i-1])]
      BY <2>1 DEF IsLay
    <2>3. \A i \in 0..(n+1) : h[i] = IF i = 0 THEN held[t] ELSE OneLaid(t, i, h[i-1])
      <3> TAKE i \in 0..(n+1)
      <3>1. CASE i = 0
        <4>1. f[0] = held[t] /\ h[0] = f[0]
          BY <2>2
        <4> QED
          BY <3>1, <4>1
      <3>2. CASE i # 0
        <4>1. i - 1 \in 0..n /\ h[i-1] = f[i-1]
          BY <3>2
        <4>2. CASE i = n + 1
          <5>1. h[i] = OneLaid(t, i, f[n]) /\ f[n] = h[i-1]
            BY <4>1, <4>2
          <5> HIDE DEF h
          <5> QED
            BY <3>2, <5>1
        <4>3. CASE i # n + 1
          <5>1. i \in 0..n /\ h[i] = f[i]
            BY <4>3
          <5>2. f[i] = OneLaid(t, i, f[i-1])
            BY <2>2, <3>2, <5>1
          <5> HIDE DEF h
          <5> QED
            BY <3>2, <4>1, <5>1, <5>2
        <4> QED
          BY <4>2, <4>3
      <3> QED
        BY <3>1, <3>2
    <2>4. IsLay(h, t, n + 1)
      BY <2>3 DEF IsLay
    <2> QED
      BY <2>4
  <1>3. nextid \in X
    <2> HIDE DEF X
    <2> QED
      BY <1>1, <1>2, Induct
  <1> DEFINE g == CHOOSE f : IsLay(f, t, nextid)
  <1>4. IsLay(g, t, nextid)
    BY <1>3
  <1>5. Laid(t) = g[nextid]
    BY Zenon DEF Laid, IsLay, OneLaid
  <1> QED
    BY <1>4, <1>5

\* What the list makes of one draft: it is told its row, or replaced by a newer version.
LaidOver(t, k, d, e) == e = d \/ GetsAdopted(t, k, d, e) \/ GetsReplaced(t, k, d, e)

LaidTo(t, hs, n) ==
    /\ IsTable(hs) /\ DOMAIN held[t] \subseteq DOMAIN hs
    /\ \A k \in DOMAIN held[t] :
         hs[k] = held[t][k] \/ (hs[k].id \in 1 .. n /\ LaidOver(t, k, held[t][k], hs[k]))
    /\ \A k \in DOMAIN hs \ DOMAIN held[t] : hs[k].id \in 1 .. n /\ Fetched(t, k, hs[k])

LEMMA LaidOne ==
  ASSUME NEW K, HeldTyped(K), ListsTyped(K), nextid \in Nat \ {0}, NEW t \in Tab, NEW n \in Nat, NEW hs, LaidTo(t, hs, n)
  PROVE  LaidTo(t, OneLaid(t, n + 1, hs), n + 1)
  <1> DEFINE i == n + 1
             x == listing[t].rows[i]
  <1>0. LaidTo(t, hs, i)
    BY DEF LaidTo
  <1>1. CASE i \notin DOMAIN listing[t].rows
    BY <1>0, <1>1 DEF OneLaid
  <1>2. CASE i \in DOMAIN listing[t].rows /\ x.key \in gone[t]
    BY <1>0, <1>2 DEF OneLaid, Reconciled
  <1>3. CASE i \in DOMAIN listing[t].rows /\ x.key \notin gone[t]
    <2>0. OneLaid(t, i, hs) = Reconciled(t, hs, i, x)
      BY <1>3 DEF OneLaid
    <2>1. IsDraft(x.draft) /\ x.draft.id = i /\ K[i] = x.key /\ i # Nowhere /\ x.draft.rev \in Nat
      BY <1>3 DEF ListsTyped, IsDraft, Nowhere
    <2>2. \A k \in DOMAIN hs : hs[k].id = i => k = x.key /\ k \in DOMAIN held[t] /\ hs[k] = held[t][k]
      <3> SUFFICES ASSUME NEW k \in DOMAIN hs, hs[k].id = i PROVE k = x.key /\ k \in DOMAIN held[t] /\ hs[k] = held[t][k]
        OBVIOUS
      <3>1. hs[k].id \notin 1 .. n
        OBVIOUS
      <3>2. k \in DOMAIN held[t] /\ hs[k] = held[t][k]
        BY <3>1 DEF LaidTo
      <3>3. Tagged(K, held[t][k].id, k)
        BY <3>2 DEF HeldTyped
      <3> QED
        BY <2>1, <3>2, <3>3 DEF Tagged
    <2>3. \A k \in Known(hs, i, x) : k = x.key /\ k \in DOMAIN hs
      BY <2>2 DEF Known
    <2>4. CASE Known(hs, i, x) = {}
      <3>1. x.key \notin DOMAIN hs
        BY <2>4 DEF Known
      <3>2. PICK g : g = Put(hs, x.key, x.draft)
        OBVIOUS
      <3>3. OneLaid(t, i, hs) = g
        BY <1>3, <2>0, <2>4, <3>2 DEF Reconciled
      <3>4. IsTable(g) /\ DOMAIN g = DOMAIN hs \cup {x.key} /\ g[x.key] = x.draft
            /\ \A k \in DOMAIN hs \ {x.key} : g[k] = hs[k]
        BY <3>2 DEF Put, IsTable
      <3>5. Fetched(t, x.key, x.draft)
        BY <1>3 DEF Fetched
      <3>6. x.draft.id \in 1 .. i
        BY <2>1
      <3> HIDE DEF x, i
      <3>7. LaidTo(t, g, i)
        BY <1>0, <3>1, <3>4, <3>5, <3>6 DEF LaidTo
      <3> QED
        BY <3>3, <3>7 DEF i
    <2>5. CASE Known(hs, i, x) # {}
      <3> DEFINE k == CHOOSE y \in Known(hs, i, x) : TRUE
                 d == hs[k]
      <3>1. k = x.key /\ k \in DOMAIN hs
        BY <2>3, <2>5
      <3>2. OneLaid(t, i, hs) = IF d.id = Nowhere THEN [hs EXCEPT ![k] = Adopted(d, i, x)]
                                ELSE IF Replaces(t, d, k, i, x) THEN Put(Drop(hs, k), x.key, x.draft)
                                ELSE hs
        BY <1>3, <2>0, <2>5 DEF Reconciled
      <3> HIDE DEF k
      <3>3. CASE d.id = Nowhere
        <4>1. k \in DOMAIN held[t] /\ d = held[t][k]
          BY <3>1, <3>3 DEF LaidTo, Nowhere
        <4>2. IsDraft(d) /\ d.sig = NoSig
          BY <3>3, <4>1 DEF HeldTyped, IsDraft
        <4>3. PICK e : e = Adopted(d, i, x)
          OBVIOUS
        <4>4. e.id = i
          BY <4>2, <4>3 DEF Adopted, IsDraft
        <4>5. GetsAdopted(t, k, d, e)
          BY <1>3, <3>1, <3>3, <4>3 DEF GetsAdopted
        <4>6. PICK g : g = [hs EXCEPT ![k] = e]
          OBVIOUS
        <4>7. OneLaid(t, i, hs) = g
          BY <3>2, <3>3, <4>3, <4>6
        <4>8. IsTable(g) /\ DOMAIN g = DOMAIN hs /\ g[k] = e /\ \A y \in DOMAIN hs \ {k} : g[y] = hs[y]
          BY <3>1, <4>6 DEF IsTable
        <4>9. e.id \in 1 .. i /\ LaidOver(t, k, held[t][k], e)
          BY <4>1, <4>4, <4>5 DEF LaidOver
        <4> HIDE DEF x, i
        <4>10. LaidTo(t, g, i)
          BY <1>0, <3>1, <4>1, <4>8, <4>9 DEF LaidTo
        <4> QED
          BY <4>7, <4>10 DEF i
      <3>4. CASE d.id # Nowhere /\ Replaces(t, d, k, i, x)
        <4>1. d.id = i /\ d.rev < x.draft.rev /\ ~Dirty(d) /\ k # screen[t]
          BY <3>4, HeldTyped(K), ListsTyped(K), <2>1, <2>2, <3>1 DEF Replaces, Kept, HeldTyped, IsDraft
        <4>2. k \in DOMAIN held[t] /\ d = held[t][k]
          BY <2>2, <3>1, <4>1
        <4>3. GetsReplaced(t, k, d, x.draft)
          BY <1>3, <3>1, <4>1 DEF GetsReplaced
        <4>4. PICK g0 : g0 = Drop(hs, k)
          OBVIOUS
        <4>5. PICK g : g = Put(g0, k, x.draft)
          OBVIOUS
        <4>6. OneLaid(t, i, hs) = g
          BY <3>1, <3>2, <3>4, <4>4, <4>5
        <4>7. IsTable(g) /\ DOMAIN g = DOMAIN hs /\ g[k] = x.draft /\ \A y \in DOMAIN hs \ {k} : g[y] = hs[y]
          BY <3>1, <4>4, <4>5 DEF Drop, Restrict, Put, IsTable
        <4>8. x.draft.id \in 1 .. i /\ LaidOver(t, k, held[t][k], x.draft)
          BY <2>1, <4>2, <4>3 DEF LaidOver
        <4> HIDE DEF x, i
        <4>9. LaidTo(t, g, i)
          BY <1>0, <3>1, <4>2, <4>7, <4>8 DEF LaidTo
        <4> QED
          BY <4>6, <4>9 DEF i
      <3>5. CASE d.id # Nowhere /\ ~Replaces(t, d, k, i, x)
        BY <1>0, <3>2, <3>5
      <3> QED
        BY <3>3, <3>4, <3>5
    <2> QED
      BY <2>4, <2>5
  <1> QED
    BY <1>1, <1>2, <1>3

LEMMA LaidAll ==
  ASSUME NEW K, HeldTyped(K), ListsTyped(K), nextid \in Nat \ {0}, NEW t \in Tab
  PROVE  LaidTo(t, Laid(t), nextid)
  <1>1. PICK f : IsLay(f, t, nextid) /\ Laid(t) = f[nextid]
    BY LayDefined
  <1>2. f[0] = held[t] /\ \A n \in Nat : n + 1 <= nextid => f[n+1] = OneLaid(t, n + 1, f[n])
    <2>1. f = [i \in 0..nextid |-> IF i = 0 THEN held[t] ELSE OneLaid(t, i, f[i-1])]
      BY <1>1 DEF IsLay
    <2>2. f[0] = held[t]
      BY <2>1
    <2>3. ASSUME NEW n \in Nat, n + 1 <= nextid PROVE f[n+1] = OneLaid(t, n + 1, f[n])
      <3>1. n + 1 \in 0..nextid /\ n + 1 # 0 /\ (n + 1) - 1 = n
        BY <2>3
      <3> QED
        BY <2>1, <3>1
    <2> QED
      BY <2>2, <2>3
  <1> DEFINE X == {n \in Nat : n <= nextid => LaidTo(t, f[n], n)}
  <1>3. 0 \in X
    BY <1>2 DEF LaidTo, HeldTyped
  <1>4. ASSUME NEW n \in Nat, n \in X PROVE n + 1 \in X
    <2> SUFFICES ASSUME n + 1 <= nextid PROVE LaidTo(t, f[n+1], n + 1)
      OBVIOUS
    <2>1. LaidTo(t, f[n], n)
      BY <1>4
    <2>2. LaidTo(t, OneLaid(t, n + 1, f[n]), n + 1)
      BY <2>1, LaidOne
    <2> QED
      BY <1>2, <2>2
  <1>5. nextid \in X
    <2> HIDE DEF X
    <2> QED
      BY <1>3, <1>4, Induct
  <1> QED
    BY <1>1, <1>5

----------------------------------------------------------------------------
\* What becomes of the other parts of the state in a step that is not the server's: it
\* leaves the rows alone.
RowsQuiet == UNCHANGED <<row, nextid>>

PastGrows ==
    /\ sent \subseteq sent' /\ thrown \subseteq thrown' /\ overrun \subseteq overrun'
    /\ unsure \subseteq unsure' /\ letGo \subseteq letGo' /\ shared \subseteq shared'
    /\ \A f \in disk \ disk' : \E t \in Tab : \E k \in DOMAIN held[t] :
           f \in held[t][k].files /\ <<k, f>> \in letGo'

Counts ==
    /\ nextkey' \in {nextkey, nextkey + 1}
    /\ typed' = typed \/ (typed' = typed + 1 /\ \E t \in Tab : typed' \in DraftWords(held'[t]))

OwnMoves == \A t \in Tab : own'[t] = own[t] \/ (t \notin up' /\ own'[t] = {})

GoneMoves ==
    \A t \in Tab : \/ t \notin up' /\ gone'[t] = {}
                   \/ /\ gone[t] \subseteq gone'[t]
                      /\ \A k \in gone'[t] \ gone[t] : k \in DOMAIN held[t] /\ k \notin DOMAIN held'[t]

\* A request stays, is made, goes without an answer, or outlives its page.
Lost(r, q)   == /\ r.live /\ r.ans # "lost" /\ q = [r EXCEPT !.ans = "lost"] /\ q.key \in unsure'
                /\ UNCHANGED <<held, gone>>
Strays(r, q) == r.tab \notin up' /\ r.ans = "none" /\ q = [r EXCEPT !.live = FALSE] /\ q.key \in unsure'
Asks(t, k, q) ==
    /\ t \in up' /\ k \in DOMAIN held'[t] /\ k \notin gone'[t] /\ Dirty(held'[t][k])
    /\ q = Asking(t, k, held'[t][k])
    /\ \A r \in reqs' : Answers(r, t, k) => r = q
    /\ post'[t] # NoPost => post'[t].key # k

ReqMoves ==
    \A q \in reqs' :
        \/ q \in reqs /\ (q.live => q.tab \in up')
        \/ \E r \in reqs \ reqs' : Lost(r, q) \/ Strays(r, q)
        \/ \E t \in Tab, k \in Keys' : Asks(t, k, q)

\* A request that is answered is dealt with.
Ended(r, t, k) ==
    \/ r.ans = "saved" /\ k \in gone[t] /\ Abandoned(r) \subseteq deletes'
    \/ /\ r.ans = "saved" /\ k \notin gone[t]
       /\ k \in DOMAIN held[t] => k \in DOMAIN held'[t] /\ held'[t][k] = Saved(held[t][k], r)
    \/ /\ r.ans = "404"
       /\ k \in DOMAIN held[t] => k \in DOMAIN held'[t] /\ held'[t][k] = Detached(held[t][k])
    \/ r.ans = "409" /\ k \notin DOMAIN held'[t]
    \/ r.ans = "lost"
    \/ k \in unsure' /\ \E q \in reqs' : Lost(r, q)

ReqEnds == \A r \in reqs \ reqs' : ~r.live \/ r.tab \notin up' \/ Ended(r, r.tab, r.key)

DeleteMoves ==
    /\ \A x \in deletes \ deletes' : x.key \in unsure'
    /\ \A x \in deletes' \ deletes :
         \/ \E t \in Tab : \E k \in DOMAIN held[t] :
              /\ held[t][k].id # Nowhere /\ held[t][k].words \subseteq thrown'
              /\ x = [id |-> held[t][k].id, rev |-> Seen(held[t][k]), key |-> k]
         \/ \E r \in reqs \ reqs' :
              /\ r.live /\ r.ans = "saved" /\ r.id = Nowhere /\ r.key \in gone[r.tab]
              /\ x = [id |-> r.newid, rev |-> r.newrev, key |-> r.key]

Presses(t) ==
    /\ t \in up /\ screen[t] # Nowhere /\ UNCHANGED held
    /\ post'[t] = [phase |-> "waits", key |-> screen[t], words |-> held[t][screen[t]].words,
                   files |-> held[t][screen[t]].files, id |-> Nowhere, rev |-> 0, ans |-> "none"]
GoesOut(t) ==
    /\ post[t].phase = "waits" /\ \A r \in reqs : ~Answers(r, t, post[t].key)
    /\ post'[t] = [post[t] EXCEPT !.phase = "out", !.id = held[t][post[t].key].id,
                                  !.rev = Seen(held[t][post[t].key])]
GoesMissing(t) ==
    /\ post[t].phase \in {"out", "answered"} /\ post[t].key \in unsure'
    /\ post'[t] = [post[t] EXCEPT !.phase = "answered", !.ans = "lost"]
GoesOn(t) ==
    /\ \E r \in reqs : Answers(r, t, post[t].key)
    /\ Forks(t, post[t].key, held[t][post[t].key])
    /\ post'[t] = [post[t] EXCEPT !.key = nextkey] /\ post[t].files \subseteq shared'

PostMoves ==
    /\ post' = [t \in Tab |-> post'[t]]
    /\ \A t \in Tab :
         /\ post'[t] # NoPost => post'[t].key = screen'[t]
         /\ \/ post'[t] = post[t] \/ post'[t] = NoPost
            \/ post[t] = NoPost /\ Presses(t)
            \/ post[t] # NoPost /\ (GoesOut(t) \/ GoesMissing(t) \/ GoesOn(t))

AnswerOf(t) ==
    [ids |-> {held[t][k].id : k \in DOMAIN held[t]} \ {Nowhere},
     rows |-> [i \in DOMAIN row |->
                 [draft |-> FromServer(i, row[i], row[i].files \ disk), key |-> row[i].key]]]
ListMoves ==
    /\ listing' = [t \in Tab |-> listing'[t]]
    /\ \A t \in Tab : listing'[t] = listing[t] \/ listing'[t] = NoList \/ listing'[t] = AnswerOf(t)

\* A copy in localStorage is its tab's, which may have gone.
Copied(t, k) ==
    \/ t \in up' /\ k \in DOMAIN held'[t] /\ local'[k] = CopyOf(t, held'[t][k])
    \/ t \notin up' /\ k \in DOMAIN held[t] /\ local'[k] = CopyOf(t, held[t][k])
CopyStays(k) ==
    /\ k \in DOMAIN local /\ k \in DOMAIN local' /\ local'[k] = local[k]
    /\ \/ local[k].owner \in up \/ local[k].owner \notin up'
       \/ local[k].words \subseteq DraftWords(held'[local[k].owner])
CopyGoes(k) ==
    \/ local[k].owner \in up \/ local[k].words \subseteq overrun'
    \/ \E t \in Tab : local[k].words \subseteq DraftWords(held'[t])

LocalMoves ==
    /\ IsTable(local')
    /\ \A k \in DOMAIN local' : CopyStays(k) \/ \E t \in Tab : Copied(t, k)
    /\ \A k \in DOMAIN local : CopyStays(k) \/ CopyGoes(k)

Moves ==
    /\ RowsQuiet /\ PastGrows /\ Counts /\ OwnMoves /\ GoneMoves /\ HeldMoves /\ ReqMoves /\ ReqEnds
    /\ DeleteMoves /\ PostMoves /\ ListMoves /\ LocalMoves /\ PagesTyped'

----------------------------------------------------------------------------
\* What is left alone does not move.
LEMMA ReqQuiet ==
  ASSUME NEW K, ReqsTyped(K), UNCHANGED <<reqs, up>>
  PROVE  ReqMoves /\ ReqEnds
  BY DEF ReqsTyped, ReqMoves, ReqEnds

LEMMA DeleteQuiet ==
  ASSUME UNCHANGED deletes PROVE DeleteMoves
  BY DEF DeleteMoves

LEMMA GoneQuiet ==
  ASSUME UNCHANGED gone PROVE GoneMoves
  BY DEF GoneMoves

LEMMA PostQuiet ==
  ASSUME NEW K, PostsTyped(K), UNCHANGED post, \A t \in Tab : post[t] # NoPost => screen'[t] = screen[t]
  PROVE  PostMoves
  BY DEF PostsTyped, PostMoves

LEMMA ListQuiet ==
  ASSUME NEW K, ListsTyped(K), UNCHANGED listing PROVE ListMoves
  BY DEF ListsTyped, ListMoves

LEMMA LocalQuiet ==
  ASSUME NEW K, LocalTyped(K), local' = local, up' \subseteq up PROVE LocalMoves
  BY DEF LocalTyped, LocalMoves, CopyStays, IsTable

LEMMA PastQuiet ==
  ASSUME UNCHANGED <<disk, letGo, shared, sent, thrown, unsure>>, overrun \subseteq overrun' PROVE PastGrows
  BY DEF PastGrows

LEMMA CountQuiet ==
  ASSUME UNCHANGED <<nextkey, typed>> PROVE Counts
  BY DEF Counts

LEMMA OwnQuiet ==
  ASSUME UNCHANGED own PROVE OwnMoves
  BY DEF OwnMoves

\* One draft of one tab is changed.
LEMMA HeldKey ==
  ASSUME NEW K, HeldTyped(K), NEW t \in Tab, NEW k \in DOMAIN held[t], NEW e,
         held' = [held EXCEPT ![t] = [held[t] EXCEPT ![k] = e]],
         \/ Edits(t, k, held[t][k], e) \/ GetsSaved(t, k, held[t][k], e) \/ GetsCut(t, k, held[t][k], e)
  PROVE  HeldMoves
  <1>1. PICK hs : hs = [held[t] EXCEPT ![k] = e]
    OBVIOUS
  <1>2. IsTable(hs) /\ DOMAIN hs = DOMAIN held[t] /\ hs[k] = e /\ \A x \in DOMAIN hs \ {k} : hs[x] = held[t][x]
    BY <1>1 DEF IsTable
  <1>3. held' = [held EXCEPT ![t] = hs] /\ held'[t] = hs
    BY <1>1 DEF HeldTyped
  <1>4. \A x \in DOMAIN held[t] : Stays(t, x)
    BY <1>2, <1>3, SameDraft DEF Stays
  <1> QED
    BY <1>2, <1>3, <1>4, HeldOne

\* A tab writes what it holds to localStorage.
LEMMA StoreMoves ==
  ASSUME NEW t \in up, up' \subseteq up, NEW loc, Store(t, loc), IsTable(loc), up \subseteq Tab,
         \A k \in DOMAIN loc :
             \/ k \in DOMAIN local /\ loc[k] = local[k]
             \/ t \in up' /\ k \in DOMAIN held'[t] /\ loc[k] = CopyOf(t, held'[t][k])
             \/ t \notin up' /\ k \in DOMAIN held[t] /\ loc[k] = CopyOf(t, held[t][k])
  PROVE  LocalMoves /\ overrun \subseteq overrun'
  <1>1. local' = loc /\ overrun' = overrun \cup Trampled(t, loc)
    BY DEF Store
  <1>2. ASSUME NEW k \in DOMAIN loc PROVE CopyStays(k) \/ Copied(t, k)
    BY <1>1, <1>2 DEF CopyStays, Copied
  <1>3. ASSUME NEW k \in DOMAIN local PROVE CopyStays(k) \/ CopyGoes(k)
    <2>1. CASE k \in DOMAIN loc /\ loc[k] = local[k]
      BY <1>1, <2>1 DEF CopyStays
    <2>2. CASE local[k].owner = t
      BY <2>2 DEF CopyGoes
    <2>3. CASE local[k].owner # t /\ (k \in DOMAIN loc => loc[k] # local[k])
      <3>1. k \in DOMAIN loc => loc[k].owner = t
        BY <2>3 DEF CopyOf
      <3>2. local[k].words \subseteq Trampled(t, loc)
        BY <2>3, <3>1 DEF Trampled
      <3> QED
        BY <1>1, <3>2 DEF CopyGoes
    <2> QED
      BY <2>1, <2>2, <2>3
  <1> QED
    BY <1>1, <1>2, <1>3 DEF LocalMoves

LEMMA PersistMoves ==
  ASSUME NEW t \in up, up' = up, up \subseteq Tab, NEW gs,
         Store(t, Persisted(local, t, held'[t], gs))
  PROVE  LocalMoves /\ overrun \subseteq overrun'
  <1> DEFINE loc == Persisted(local, t, held'[t], gs)
  <1>1. /\ IsTable(loc)
        /\ \A k \in DOMAIN loc :
             \/ k \in DOMAIN local /\ loc[k] = local[k]
             \/ k \in DOMAIN held'[t] /\ loc[k] = CopyOf(t, held'[t][k])
    <2>1. PICK hs : hs = held'[t]
      OBVIOUS
    <2>2. loc = Persisted(local, t, hs, gs)
      BY <2>1
    <2> HIDE DEF loc
    <2>3. IsPersisted(loc, local, t, hs, gs)
      BY <2>2, PersistedCopies
    <2> QED
      BY <2>1, <2>3 DEF IsPersisted
  <1>2. Store(t, loc)
    OBVIOUS
  <1> HIDE DEF loc
  <1> QED
    BY <1>1, <1>2, StoreMoves

LEMMA SendingKey ==
  ASSUME NEW K, PostsTyped(K), NEW t \in Tab
  PROVE  Sending(t) = IF post[t] = NoPost THEN Nowhere ELSE post[t].key
  BY DEF PostsTyped, IsPost, Sending, NoPost

\* A tab saves one of its drafts.
LEMMA AskOne ==
  ASSUME NEW rs \in SUBSET reqs, \A q \in rs : q.live => q.tab \in up', NEW t \in Tab, t \in up',
         NEW s, NEW k, k \in Keys', post'[t] # NoPost => s = post'[t].key,
         NEW hs, hs = held'[t], NEW gs, gs = gone'[t], reqs' = SaveDraft(rs, t, hs, gs, s, k)
  PROVE  ReqMoves
  <1> SUFFICES ASSUME NEW q \in reqs', q \notin rs PROVE Asks(t, k, q)
    BY DEF ReqMoves
  <1>1. /\ q = Asking(t, k, hs[k]) /\ k \in DOMAIN hs /\ k \notin gs /\ k # s /\ Dirty(hs[k])
        /\ \A r \in rs : ~Answers(r, t, k)
    BY SaveMade
  <1>2. \A r \in reqs' : Answers(r, t, k) => r = q
    BY <1>1, SaveMade
  <1> QED
    BY <1>1, <1>2 DEF Asks

----------------------------------------------------------------------------
\* The steps that are not the server's, one by one.
LEMMA AutosaveMoves ==
  ASSUME NEW K, Typed(K), NEW t \in Tab, NEW k \in DOMAIN held[t], Autosave(t, k)
  PROVE  Moves
  <1> USE DEF Typed
  <1>1. UNCHANGED <<row, nextid, disk, aged, up, held, screen, gone, nextkey, listing, deletes, post,
                    local, sent, typed, thrown, letGo, shared, own, unsure, overrun>>
    BY DEF Autosave, server, page, store, history, past
  <1>2. k \in Keys' /\ t \in up /\ reqs' = SaveDraft(reqs, t, held[t], gone[t], Sending(t), k)
    BY <1>1 DEF Autosave, HeldTyped, Keys
  <1>3. ReqMoves
    BY <1>1, <1>2, SendingKey, AskOne DEF ReqsTyped
  <1>4. ReqEnds
    BY <1>2, SaveKeeps DEF ReqEnds
  <1>5. PagesTyped'
    BY <1>1 DEF PagesTyped, Keys
  <1> QED
    BY <1>1, <1>3, <1>4, <1>5, HeldQuiet, DeleteQuiet, GoneQuiet, PostQuiet, ListQuiet, LocalQuiet,
       PastQuiet, CountQuiet, OwnQuiet DEF Moves, RowsQuiet

LEMMA PersistStepMoves ==
  ASSUME NEW K, Typed(K), NEW t \in Tab, Persist(t)
  PROVE  Moves
  <1> USE DEF Typed
  <1>1. UNCHANGED <<row, nextid, disk, aged, up, held, screen, gone, nextkey, listing, reqs, deletes, post,
                    sent, typed, thrown, letGo, shared, own, unsure>>
    BY DEF Persist, server, page, wire, past
  <1>2. LocalMoves /\ overrun \subseteq overrun'
    BY <1>1, PersistMoves DEF Persist, PagesTyped
  <1>3. PagesTyped'
    BY <1>1 DEF PagesTyped, Keys
  <1> QED
    BY <1>1, <1>2, <1>3, HeldQuiet, ReqQuiet, DeleteQuiet, GoneQuiet, PostQuiet, ListQuiet,
       PastQuiet, CountQuiet, OwnQuiet DEF Moves, RowsQuiet

LEMMA MinimizeMoves ==
  ASSUME NEW K, Typed(K), NEW t \in Tab, Minimize(t)
  PROVE  Moves
  <1> USE DEF Typed
  <1>1. UNCHANGED <<row, nextid, disk, aged, up, held, gone, nextkey, listing, deletes, post,
                    sent, typed, thrown, letGo, shared, own, unsure>>
    BY DEF Minimize, server, past
  <1>2. LocalMoves /\ overrun \subseteq overrun'
    BY <1>1, PersistMoves DEF Minimize, PagesTyped
  <1>3. screen[t] \in Keys' /\ t \in up /\ post[t] = NoPost
        /\ reqs' = SaveDraft(reqs, t, held[t], gone[t], Nowhere, screen[t])
    BY <1>1 DEF Minimize, PagesTyped, HeldTyped, Keys
  <1>4. ReqMoves
    BY <1>1, <1>3, AskOne DEF ReqsTyped
  <1>5. ReqEnds
    BY <1>3, SaveKeeps DEF ReqEnds
  <1>6. screen' = [screen EXCEPT ![t] = Nowhere]
    BY DEF Minimize
  <1>7. PagesTyped'
    BY <1>1, <1>6 DEF PagesTyped, Keys, Nowhere
  <1>8. PostMoves
    BY <1>1, <1>3, <1>6, PostQuiet DEF PagesTyped
  <1> QED
    BY <1>1, <1>2, <1>4, <1>5, <1>7, <1>8, HeldQuiet, DeleteQuiet, GoneQuiet, ListQuiet,
       PastQuiet, CountQuiet, OwnQuiet DEF Moves, RowsQuiet

LEMMA RestoreMoves ==
  ASSUME NEW K, Typed(K), NEW t \in Tab, NEW k \in DOMAIN held[t], Restore(t, k)
  PROVE  Moves
  <1> USE DEF Typed
  <1>1. UNCHANGED <<row, nextid, disk, aged, up, held, gone, nextkey, listing, reqs, deletes, post,
                    local, sent, typed, thrown, letGo, shared, own, unsure, overrun>>
    BY DEF Restore, server, wire, store, history, past
  <1>2. screen' = [screen EXCEPT ![t] = k] /\ screen[t] = Nowhere /\ k \in Nat \ {0}
    BY DEF Restore, HeldTyped, Keys, Counted
  <1>3. PagesTyped'
    BY <1>1, <1>2 DEF PagesTyped, Keys, Nowhere
  <1>4. post[t] = NoPost
    BY <1>2 DEF PostsTyped, HeldTyped, Keys, Nowhere
  <1>5. PostMoves
    BY <1>1, <1>2, <1>4, PostQuiet DEF PagesTyped
  <1> QED
    BY <1>1, <1>3, <1>5, HeldQuiet, ReqQuiet, DeleteQuiet, GoneQuiet, ListQuiet, LocalQuiet,
       PastQuiet, CountQuiet, OwnQuiet DEF Moves, RowsQuiet

LEMMA LoseSaveMoves ==
  ASSUME NEW K, Typed(K), NEW r \in reqs, LoseSave(r)
  PROVE  Moves
  <1> USE DEF Typed
  <1>1. UNCHANGED <<row, nextid, disk, aged, up, held, screen, gone, nextkey, listing, deletes, post,
                    local, sent, typed, thrown, letGo, shared, own, overrun>>
    BY DEF LoseSave, server, page, store
  <1>2. unsure' = unsure \cup {r.key} /\ r.ans # "lost"
    BY DEF LoseSave
  <1>3. PastGrows
    BY <1>1, <1>2 DEF PastGrows
  <1>4. ReqMoves /\ ReqEnds
    <2>1. CASE r.live /\ reqs' = (reqs \ {r}) \cup {[r EXCEPT !.ans = "lost"]}
      <3>1. PICK q : q = [r EXCEPT !.ans = "lost"]
        OBVIOUS
      <3>2. reqs' = (reqs \ {r}) \cup {q}
        BY <2>1, <3>1
      <3>3. q.ans = "lost" /\ q.key = r.key /\ q.live = r.live /\ q.tab = r.tab
        BY <3>1 DEF ReqsTyped, IsReq
      <3>4. Lost(r, q)
        BY <1>1, <1>2, <2>1, <3>1, <3>3 DEF Lost
      <3>8. r \in reqs \ reqs'
        BY <1>2, <3>2, <3>3
      <3>5. ReqMoves
        BY <1>1, <3>2, <3>4, <3>8 DEF ReqMoves, ReqsTyped
      <3>6. Ended(r, r.tab, r.key)
        BY <1>2, <3>2, <3>4 DEF Ended
      <3>7. ReqEnds
        BY <3>2, <3>6 DEF ReqEnds
      <3> QED
        BY <3>5, <3>7
    <2>2. CASE ~r.live /\ reqs' = reqs \ {r}
      BY <1>1, <2>2 DEF ReqMoves, ReqEnds, ReqsTyped
    <2> QED
      BY <2>1, <2>2 DEF LoseSave
  <1>5. PagesTyped'
    BY <1>1 DEF PagesTyped, Keys
  <1> QED
    BY <1>1, <1>3, <1>4, <1>5, HeldQuiet, DeleteQuiet, GoneQuiet, PostQuiet, ListQuiet, LocalQuiet,
       CountQuiet, OwnQuiet DEF Moves, RowsQuiet

LEMMA SaveFailedMoves ==
  ASSUME NEW K, Typed(K), NEW r \in reqs, SaveFailed(r)
  PROVE  Moves
  <1> USE DEF Typed
  <1>1. UNCHANGED <<row, nextid, disk, aged, up, held, screen, gone, nextkey, listing, deletes, post,
                    sent, typed, thrown, letGo, shared, own, unsure>>
    BY DEF SaveFailed, server, page, past
  <1>2. r.tab \in up
    BY DEF SaveFailed, ReqsTyped
  <1>3. LocalMoves /\ overrun \subseteq overrun'
    BY <1>1, <1>2, PersistMoves DEF SaveFailed, PagesTyped
  <1>4. ReqMoves /\ ReqEnds
    BY <1>1 DEF SaveFailed, ReqMoves, ReqEnds, Ended, ReqsTyped
  <1>5. PagesTyped'
    BY <1>1 DEF PagesTyped, Keys
  <1> QED
    BY <1>1, <1>3, <1>4, <1>5, HeldQuiet, DeleteQuiet, GoneQuiet, PostQuiet, ListQuiet,
       PastQuiet, CountQuiet, OwnQuiet DEF Moves, RowsQuiet

LEMMA SendMoves ==
  ASSUME NEW K, Typed(K), NEW t \in Tab, Send(t)
  PROVE  Moves
  <1> USE DEF Typed
  <1>1. UNCHANGED <<row, nextid, disk, aged, up, held, screen, gone, nextkey, listing, reqs, deletes,
                    local, sent, typed, thrown, letGo, shared, own, unsure, overrun>>
    BY DEF Send, server, page, store, history, past
  <1>2. t \in up /\ screen[t] # Nowhere /\ post[t] = NoPost
    BY DEF Send
  <1>3. PICK p : p = [phase |-> "waits", key |-> screen[t], words |-> held[t][screen[t]].words,
                      files |-> held[t][screen[t]].files, id |-> Nowhere, rev |-> 0, ans |-> "none"]
    OBVIOUS
  <1>4. post' = [post EXCEPT ![t] = p]
    BY <1>3 DEF Send
  <1>5. post' = [u \in Tab |-> post'[u]] /\ post'[t] = p /\ \A u \in Tab \ {t} : post'[u] = post[u]
    BY <1>4 DEF PostsTyped
  <1>6. PagesTyped'
    BY <1>1, <1>2, <1>5 DEF PagesTyped, Keys
  <1>7. Presses(t) /\ p.key = screen[t]
    BY <1>1, <1>2, <1>3, <1>5 DEF Presses
  <1>8. PostMoves
    BY <1>1, <1>2, <1>5, <1>7 DEF PostMoves, PostsTyped
  <1> QED
    BY <1>1, <1>6, <1>8, HeldQuiet, ReqQuiet, DeleteQuiet, GoneQuiet, ListQuiet, LocalQuiet,
       PastQuiet, CountQuiet, OwnQuiet DEF Moves, RowsQuiet

LEMMA PostSendMoves ==
  ASSUME NEW K, Typed(K), NEW t \in Tab, PostSend(t)
  PROVE  Moves
  <1> USE DEF Typed
  <1>1. UNCHANGED <<row, nextid, disk, aged, up, held, screen, gone, nextkey, listing, reqs, deletes,
                    local, sent, typed, thrown, letGo, shared, own, unsure, overrun>>
    BY DEF PostSend, server, page, store, history, past
  <1>2. t \in up /\ post[t].phase = "waits" /\ \A r \in reqs : ~Answers(r, t, post[t].key)
    BY DEF PostSend, OnWire, Answers
  <1>3. post[t] # NoPost
    BY <1>2 DEF NoPost
  <1>4. PICK p : p = [post[t] EXCEPT !.phase = "out", !.id = held[t][post[t].key].id,
                                     !.rev = Seen(held[t][post[t].key])]
    OBVIOUS
  <1>5. post' = [post EXCEPT ![t] = p]
    BY <1>4 DEF PostSend, PostsTyped
  <1>6. post' = [u \in Tab |-> post'[u]] /\ post'[t] = p /\ \A u \in Tab \ {t} : post'[u] = post[u]
    BY <1>5 DEF PostsTyped
  <1>7. PagesTyped'
    BY <1>1, <1>2, <1>6 DEF PagesTyped, Keys
  <1>8. GoesOut(t) /\ p.key = post[t].key
    BY <1>2, <1>3, <1>4, <1>6 DEF GoesOut, PostsTyped, IsPost
  <1>9. PostMoves
    BY <1>1, <1>3, <1>6, <1>8 DEF PostMoves, PostsTyped
  <1> QED
    BY <1>1, <1>7, <1>9, HeldQuiet, ReqQuiet, DeleteQuiet, GoneQuiet, ListQuiet, LocalQuiet,
       PastQuiet, CountQuiet, OwnQuiet DEF Moves, RowsQuiet

LEMMA LoseSendMoves ==
  ASSUME NEW K, Typed(K), NEW t \in Tab, LoseSend(t)
  PROVE  Moves
  <1> USE DEF Typed
  <1>1. UNCHANGED <<row, nextid, disk, aged, up, held, screen, gone, nextkey, listing, reqs, deletes,
                    local, sent, typed, thrown, letGo, shared, own, overrun>>
    BY DEF LoseSend, server, page, store
  <1>2. post[t].phase \in {"out", "answered"} /\ unsure' = unsure \cup {post[t].key}
    BY DEF LoseSend
  <1>3. post[t] # NoPost
    BY <1>2 DEF NoPost
  <1>4. PICK p : p = [post[t] EXCEPT !.phase = "answered", !.ans = "lost"]
    OBVIOUS
  <1>5. post' = [post EXCEPT ![t] = p]
    BY <1>4 DEF LoseSend, PostsTyped
  <1>6. post' = [u \in Tab |-> post'[u]] /\ post'[t] = p /\ \A u \in Tab \ {t} : post'[u] = post[u]
    BY <1>5 DEF PostsTyped
  <1>7. t \in up
    BY <1>3 DEF PagesTyped
  <1>8. PagesTyped'
    BY <1>1, <1>6, <1>7 DEF PagesTyped, Keys
  <1>9. GoesMissing(t) /\ p.key = post[t].key
    BY <1>2, <1>3, <1>4, <1>6 DEF GoesMissing, PostsTyped, IsPost
  <1>10. PostMoves
    BY <1>1, <1>3, <1>6, <1>9 DEF PostMoves, PostsTyped
  <1>11. PastGrows
    BY <1>1, <1>2 DEF PastGrows
  <1> QED
    BY <1>1, <1>8, <1>10, <1>11, HeldQuiet, ReqQuiet, DeleteQuiet, GoneQuiet, ListQuiet, LocalQuiet,
       CountQuiet, OwnQuiet DEF Moves, RowsQuiet

LEMMA SendFailedMoves ==
  ASSUME NEW K, Typed(K), NEW t \in Tab, SendFailed(t)
  PROVE  Moves
  <1> USE DEF Typed
  <1>1. UNCHANGED <<row, nextid, disk, aged, up, held, screen, gone, nextkey, listing, reqs, deletes,
                    local, sent, typed, thrown, letGo, shared, own, unsure, overrun>>
    BY DEF SendFailed, server, page, store, history, past
  <1>2. t \in up /\ post' = [post EXCEPT ![t] = NoPost]
    BY DEF SendFailed
  <1>3. post' = [u \in Tab |-> post'[u]] /\ post'[t] = NoPost /\ \A u \in Tab \ {t} : post'[u] = post[u]
    BY <1>2 DEF PostsTyped
  <1>4. PagesTyped'
    BY <1>1, <1>2, <1>3 DEF PagesTyped, Keys
  <1>5. PostMoves
    BY <1>1, <1>3 DEF PostMoves, PostsTyped
  <1> QED
    BY <1>1, <1>4, <1>5, HeldQuiet, ReqQuiet, DeleteQuiet, GoneQuiet, ListQuiet, LocalQuiet,
       PastQuiet, CountQuiet, OwnQuiet DEF Moves, RowsQuiet

LEMMA LoseDeleteMoves ==
  ASSUME NEW K, Typed(K), NEW x \in deletes, LoseDelete(x)
  PROVE  Moves
  <1> USE DEF Typed
  <1>1. UNCHANGED <<row, nextid, disk, aged, up, held, screen, gone, nextkey, listing, reqs, post,
                    local, sent, typed, thrown, letGo, shared, own, overrun>>
    BY DEF LoseDelete, server, page, store
  <1>2. DeleteMoves /\ PastGrows
    BY <1>1 DEF LoseDelete, DeleteMoves, PastGrows
  <1>3. PagesTyped'
    BY <1>1 DEF PagesTyped, Keys
  <1> QED
    BY <1>1, <1>2, <1>3, HeldQuiet, ReqQuiet, GoneQuiet, PostQuiet, ListQuiet, LocalQuiet,
       CountQuiet, OwnQuiet DEF Moves, RowsQuiet

LEMMA FetchDraftsMoves ==
  ASSUME NEW K, Typed(K), NEW t \in Tab, FetchDrafts(t)
  PROVE  Moves
  <1> USE DEF Typed
  <1>1. UNCHANGED <<row, nextid, disk, aged, up, held, screen, gone, nextkey, reqs, deletes, post,
                    local, sent, typed, thrown, letGo, shared, own, unsure, overrun>>
    BY DEF FetchDrafts, server, wire, store, history, past
  <1>2. t \in up /\ listing' = [listing EXCEPT ![t] = AnswerOf(t)]
    BY DEF FetchDrafts, AnswerOf
  <1> HIDE DEF Typed
  <1>3. listing' = [u \in Tab |-> listing'[u]] /\ listing'[t] = AnswerOf(t)
        /\ \A u \in Tab \ {t} : listing'[u] = listing[u]
    BY <1>2 DEF ListsTyped, Typed
  <1>4. ListMoves
    BY <1>3 DEF ListMoves
  <1> USE DEF Typed
  <1>5. PagesTyped'
    BY <1>1, <1>2, <1>3 DEF PagesTyped, Keys
  <1> QED
    BY <1>1, <1>4, <1>5, HeldQuiet, ReqQuiet, DeleteQuiet, GoneQuiet, PostQuiet, LocalQuiet,
       PastQuiet, CountQuiet, OwnQuiet DEF Moves, RowsQuiet

LEMMA ComposeMoves ==
  ASSUME NEW K, Typed(K), NEW t \in Tab, NEW forward \in BOOLEAN, Compose(t, forward)
  PROVE  Moves
  <1> USE DEF Typed
  <1>1. UNCHANGED <<row, nextid, aged, up, gone, listing, reqs, deletes, post,
                    local, sent, thrown, letGo, shared, own, unsure, overrun>>
    BY DEF Compose, wire, store
  <1>2. PICK fs \in SUBSET {f \in disk' : f[1] = nextkey} :
          /\ held' = [held EXCEPT ![t] = Put(held[t], nextkey, Draft(Nowhere, 0, {typed + 1}, fs, NoSig))]
          /\ disk' = disk \cup fs
    <2>1. PICK fs : /\ fs = IF forward THEN {<<nextkey, staged + 1>>} ELSE {}
                    /\ held' = [held EXCEPT ![t] = Put(@, nextkey, Draft(Nowhere, 0, {typed + 1}, fs, NoSig))]
                    /\ disk' = disk \cup fs
      BY DEF Compose
    <2>2. \A f \in fs : f \in disk' /\ f[1] = nextkey
      BY <2>1
    <2> QED
      BY <2>1, <2>2
  <1>3. /\ t \in up /\ screen[t] = Nowhere /\ nextkey' = nextkey + 1 /\ typed' = typed + 1
        /\ screen' = [screen EXCEPT ![t] = nextkey]
    BY DEF Compose
  <1>4. PICK e : e = Draft(Nowhere, 0, {typed + 1}, fs, NoSig)
    OBVIOUS
  <1>5. PICK hs : hs = Put(held[t], nextkey, e)
    OBVIOUS
  <1>6. IsTable(hs) /\ DOMAIN hs = DOMAIN held[t] \cup {nextkey} /\ hs[nextkey] = e
        /\ \A x \in DOMAIN held[t] \ {nextkey} : hs[x] = held[t][x]
    BY <1>5 DEF Put, IsTable
  <1>7. held' = [held EXCEPT ![t] = hs] /\ held'[t] = hs /\ \A u \in Tab \ {t} : held'[u] = held[u]
    BY <1>2, <1>4, <1>5 DEF HeldTyped
  <1>8. nextkey \notin DOMAIN held[t] \cup gone[t] /\ nextkey \in Nat \ {0}
    BY DEF HeldTyped, PagesTyped, Keys, Counted
  <1>9. Begun(nextkey, e)
    BY <1>2, <1>3, <1>4 DEF Begun
  <1>10. \A x \in DOMAIN held[t] : Stays(t, x)
    BY <1>6, <1>7, <1>8, SameDraft
  <1>11. \A x \in DOMAIN hs \ DOMAIN held[t] : Comes(t, x)
    BY <1>6, <1>7, <1>9 DEF Comes
  <1>12. HeldMoves
    BY <1>6, <1>7, <1>10, <1>11, HeldOne
  <1>13. Counts
    <2>1. typed' \in DraftWords(held'[t])
      BY <1>3, <1>4, <1>6, <1>7 DEF DraftWords, Draft
    <2> QED
      BY <1>3, <2>1 DEF Counts
  <1>14. PagesTyped'
    BY <1>1, <1>3, <1>6, <1>7, <1>8 DEF PagesTyped, Keys, Counted, Nowhere
  <1>15. PostMoves
    <2>1. post[t] = NoPost
      BY <1>3 DEF PostsTyped, HeldTyped, Keys, Counted, Nowhere
    <2> QED
      BY <1>1, <1>3, <2>1, PostQuiet DEF PagesTyped
  <1>16. PastGrows
    BY <1>1, <1>2 DEF PastGrows
  <1> QED
    BY <1>1, <1>12, <1>13, <1>14, <1>15, <1>16, ReqQuiet, DeleteQuiet, GoneQuiet, ListQuiet,
       LocalQuiet, OwnQuiet DEF Moves, RowsQuiet

\* What Write, Attach and RemoveChip do to the draft in the window.
LEMMA EditMoves ==
  ASSUME NEW K, Typed(K), NEW t \in up, screen[t] # Nowhere, NEW e,
         held' = [held EXCEPT ![t] = [held[t] EXCEPT ![screen[t]] = e]], Edits(t, screen[t], held[t][screen[t]], e),
         UNCHANGED <<row, nextid, up, screen, gone, nextkey, listing, reqs, deletes, post,
                     local, sent, thrown, shared, own, unsure, overrun>>,
         letGo \subseteq letGo',
         \A f \in disk \ disk' : f \in held[t][screen[t]].files /\ <<screen[t], f>> \in letGo',
         typed' = typed \/ (typed' = typed + 1 /\ typed' \in e.words)
  PROVE  Moves
  <1> USE DEF Typed
  <1>1. t \in Tab /\ screen[t] \in DOMAIN held[t]
    BY DEF PagesTyped
  <1>2. HeldMoves
    BY <1>1, HeldKey
  <1>3. /\ DOMAIN held'[t] = DOMAIN held[t] /\ held'[t][screen[t]] = e
        /\ \A u \in Tab \ {t} : held'[u] = held[u]
    BY <1>1 DEF HeldTyped
  <1>4. PagesTyped'
    BY <1>1, <1>3 DEF PagesTyped, Keys
  <1>5. Counts
    BY <1>1, <1>3 DEF Counts, DraftWords
  <1>6. PastGrows
    BY <1>1 DEF PastGrows
  <1> QED
    BY <1>2, <1>4, <1>5, <1>6, ReqQuiet, DeleteQuiet, GoneQuiet, PostQuiet, ListQuiet, LocalQuiet,
       OwnQuiet DEF Moves, RowsQuiet

LEMMA WriteMoves ==
  ASSUME NEW K, Typed(K), NEW t \in Tab, Write(t)
  PROVE  Moves
  <1>1. UNCHANGED <<row, nextid, disk, aged, up, screen, gone, nextkey, listing, reqs, deletes, post,
                    local, sent, thrown, letGo, shared, own, unsure, overrun>>
    BY DEF Write, server, wire, store
  <1>2. t \in up /\ screen[t] # Nowhere /\ post[t] = NoPost /\ typed' = typed + 1
    BY DEF Write
  <1> DEFINE d == held[t][screen[t]]
  <1>3. screen[t] \in DOMAIN held[t] /\ IsDraft(d)
    BY <1>2 DEF Typed, PagesTyped, HeldTyped
  <1>4. PICK e : e = [d EXCEPT !.words = d.words \cup {typed'}]
    OBVIOUS
  <1>5. held' = [held EXCEPT ![t] = [held[t] EXCEPT ![screen[t]] = e]]
    BY <1>4 DEF Write
  <1>6. e = [id |-> d.id, rev |-> d.rev, words |-> d.words \cup {typed'}, files |-> d.files,
             sig |-> d.sig, blind |-> d.blind]
    BY <1>3, <1>4 DEF IsDraft
  <1>7. Edits(t, screen[t], d, e) /\ typed' \in e.words
    BY <1>2, <1>3, <1>6 DEF Edits, IsDraft
  <1> HIDE DEF d
  <1> QED
    BY <1>1, <1>2, <1>5, <1>7, EditMoves DEF d

LEMMA AttachMoves ==
  ASSUME NEW K, Typed(K), NEW t \in Tab, Attach(t)
  PROVE  Moves
  <1>1. UNCHANGED <<row, nextid, aged, up, screen, gone, nextkey, listing, reqs, deletes, post,
                    local, sent, typed, thrown, letGo, shared, own, unsure, overrun>>
    BY DEF Attach, wire, store
  <1>2. PICK g : /\ g = <<screen[t], staged + 1>> /\ t \in up /\ screen[t] # Nowhere
                 /\ disk' = disk \cup {g} /\ held' = [held EXCEPT ![t][screen[t]].files = @ \cup {g}]
    BY DEF Attach
  <1> DEFINE d == held[t][screen[t]]
  <1>3. screen[t] \in DOMAIN held[t] /\ IsDraft(d)
    BY <1>2 DEF Typed, PagesTyped, HeldTyped
  <1>4. PICK e : e = [d EXCEPT !.files = d.files \cup {g}]
    OBVIOUS
  <1>5. held' = [held EXCEPT ![t] = [held[t] EXCEPT ![screen[t]] = e]]
    BY <1>2, <1>4
  <1>6. e = [id |-> d.id, rev |-> d.rev, words |-> d.words, files |-> d.files \cup {g},
             sig |-> d.sig, blind |-> d.blind]
    BY <1>3, <1>4 DEF IsDraft
  <1>7. Edits(t, screen[t], d, e)
    BY <1>2, <1>3, <1>6 DEF Edits, IsDraft
  <1> HIDE DEF d
  <1> QED
    BY <1>1, <1>2, <1>5, <1>7, EditMoves DEF d

LEMMA RemoveChipMoves ==
  ASSUME NEW K, Typed(K), NEW t \in Tab, RemoveChip(t)
  PROVE  Moves
  <1>1. UNCHANGED <<row, nextid, aged, up, screen, gone, nextkey, listing, reqs, deletes, post,
                    local, sent, typed, thrown, shared, own, unsure, overrun>>
    BY DEF RemoveChip, wire, store
  <1> DEFINE d == held[t][screen[t]]
  <1>2. PICK f \in d.files : /\ held' = [held EXCEPT ![t][screen[t]].files = @ \ {f}]
                             /\ disk' = disk \ {f} /\ letGo' = letGo \cup {<<screen[t], f>>}
    BY DEF RemoveChip
  <1>3. t \in up /\ screen[t] # Nowhere /\ screen[t] \in DOMAIN held[t] /\ IsDraft(d)
    BY DEF RemoveChip, Typed, PagesTyped, HeldTyped
  <1>4. PICK e : e = [d EXCEPT !.files = d.files \ {f}]
    OBVIOUS
  <1>5. held' = [held EXCEPT ![t] = [held[t] EXCEPT ![screen[t]] = e]]
    BY <1>2, <1>4
  <1>6. e = [id |-> d.id, rev |-> d.rev, words |-> d.words, files |-> d.files \ {f},
             sig |-> d.sig, blind |-> d.blind]
    BY <1>3, <1>4 DEF IsDraft
  <1>7. Edits(t, screen[t], d, e)
    BY <1>3, <1>6 DEF Edits, IsDraft
  <1> HIDE DEF d
  <1> QED
    BY <1>1, <1>2, <1>3, <1>5, <1>7, EditMoves DEF d

LEMMA SaveAnsweredMoves ==
  ASSUME NEW K, Typed(K), NEW r \in reqs, SaveAnswered(r)
  PROVE  Moves
  <1> USE DEF Typed
  <1>1. UNCHANGED <<row, nextid, disk, aged, up, screen, gone, nextkey, listing, post,
                    sent, typed, thrown, letGo, shared, own, unsure>>
    BY DEF SaveAnswered, server, past
  <1> DEFINE t == r.tab
             k == r.key
  <1>2. r.live /\ r.ans = "saved" /\ t \in up /\ t \in Tab /\ k \in DOMAIN held[t] \cup gone[t] /\ Answers(r, t, k)
    BY DEF SaveAnswered, ReqsTyped, PagesTyped, Answers
  <1>3. CASE k \in gone[t]
    <2>1. /\ deletes' = deletes \cup Abandoned(r) /\ reqs' = reqs \ {r}
          /\ UNCHANGED <<held, local, overrun>>
      BY <1>3 DEF SaveAnswered
    <2>2. ReqMoves /\ ReqEnds
      BY <1>1, <1>2, <1>3, <2>1 DEF ReqMoves, ReqEnds, Ended, ReqsTyped
    <2>3. DeleteMoves
      BY <1>2, <1>3, <2>1 DEF DeleteMoves, Abandoned
    <2>4. PagesTyped'
      BY <1>1, <2>1 DEF PagesTyped, Keys
    <2> QED
      BY <1>1, <2>1, <2>2, <2>3, <2>4, HeldQuiet, GoneQuiet, PostQuiet, ListQuiet, LocalQuiet,
         PastQuiet, CountQuiet, OwnQuiet DEF Moves, RowsQuiet
  <1>4. CASE k \notin gone[t]
    <2>0. k \in DOMAIN held[t]
      BY <1>2, <1>4
    <2>1. PICK e : e = Saved(held[t][k], r)
      OBVIOUS
    <2>2. PICK hs : hs = [held[t] EXCEPT ![k] = e]
      OBVIOUS
    <2>3. PICK loc : /\ loc = IF k \in DOMAIN hs /\ ~Dirty(hs[k]) THEN Drop(local, k) ELSE local
                     /\ Store(t, loc)
      BY <1>4, <2>0, <2>1, <2>2 DEF SaveAnswered
    <2>4. /\ held' = [held EXCEPT ![t] = hs]
          /\ \/ reqs' = SaveDraft(reqs \ {r}, t, hs, gone[t], Sending(t), k)
             \/ reqs' = reqs \ {r}
          /\ UNCHANGED deletes
      BY <1>4, <2>0, <2>1, <2>2 DEF SaveAnswered
    <2> HIDE DEF k, t
    <2>5. /\ held'[t] = hs /\ DOMAIN hs = DOMAIN held[t] /\ hs[k] = e
          /\ \A u \in Tab \ {t} : held'[u] = held[u]
      BY <1>2, <2>0, <2>2, <2>4 DEF HeldTyped
    <2>6. r \notin reqs'
      <3>1. CASE reqs' = SaveDraft(reqs \ {r}, t, hs, gone[t], Sending(t), k)
        <4>1. SUFFICES ASSUME r \in reqs' PROVE FALSE
          OBVIOUS
        <4>2. r = Asking(t, k, hs[k])
          BY <3>1, <4>1, SaveMade
        <4> QED
          BY <1>2, <4>2 DEF Asking
      <3> QED
        BY <2>4, <3>1
    <2>7. GetsSaved(t, k, held[t][k], e)
      BY <1>2, <2>1, <2>6 DEF GetsSaved
    <2>8. HeldMoves
      BY <1>2, <2>0, <2>2, <2>4, <2>7, HeldKey
    <2>9. k \in Keys'
      BY <1>1, <1>2, <2>0 DEF HeldTyped, Keys
    <2>10. ReqMoves
      <3>1. CASE reqs' = SaveDraft(reqs \ {r}, t, hs, gone[t], Sending(t), k)
        <4>1. \A q \in reqs \ {r} : q.live => q.tab \in up'
          BY <1>1 DEF ReqsTyped
        <4>2. post'[t] # NoPost => Sending(t) = post'[t].key
          BY <1>1, <1>2, SendingKey
        <4>3. PICK rs \in SUBSET reqs : rs = reqs \ {r}
          OBVIOUS
        <4>4. PICK s : s = Sending(t)
          OBVIOUS
        <4> QED
          BY <1>1, <1>2, <2>5, <2>9, <3>1, <4>1, <4>2, <4>3, <4>4, AskOne
      <3>2. CASE reqs' = reqs \ {r}
        BY <1>1, <3>2 DEF ReqMoves, ReqsTyped
      <3> QED
        BY <2>4, <3>1, <3>2
    <2>11. reqs \ {r} \subseteq reqs'
      BY <2>4, SaveKeeps
    <2>12. Ended(r, t, k)
      BY <1>2, <1>4, <2>0, <2>1, <2>5 DEF Ended
    <2>13. ReqEnds
      BY <2>11, <2>12 DEF ReqEnds, t, k
    <2>14. LocalMoves /\ overrun \subseteq overrun'
      <3>1. IsTable(loc) /\ \A x \in DOMAIN loc : x \in DOMAIN local /\ loc[x] = local[x]
        BY <2>3, DropTable DEF LocalTyped
      <3> QED
        BY <1>1, <1>2, <2>3, <3>1, StoreMoves DEF PagesTyped
    <2>15. PagesTyped'
      BY <1>1, <1>2, <2>5 DEF PagesTyped, Keys
    <2> QED
      BY <1>1, <2>4, <2>8, <2>10, <2>13, <2>14, <2>15, DeleteQuiet, GoneQuiet, PostQuiet, ListQuiet,
         PastQuiet, CountQuiet, OwnQuiet DEF Moves, RowsQuiet
  <1> QED
    BY <1>3, <1>4

LEMMA SavedNowhereMoves ==
  ASSUME NEW K, Typed(K), NEW r \in reqs, SavedNowhere(r)
  PROVE  Moves
  <1> USE DEF Typed
  <1>1. UNCHANGED <<row, nextid, disk, aged, up, screen, gone, nextkey, listing, deletes, post,
                    local, sent, typed, thrown, letGo, shared, own, unsure, overrun>>
    BY DEF SavedNowhere, server, store, history, past
  <1> DEFINE t == r.tab
             k == r.key
  <1>2. r.live /\ r.ans = "404" /\ t \in up /\ t \in Tab /\ k \in DOMAIN held[t] \cup gone[t] /\ Answers(r, t, k)
    BY DEF SavedNowhere, ReqsTyped, PagesTyped, Answers
  <1>3. PICK hs : /\ hs = IF k \in DOMAIN held[t] THEN [held[t] EXCEPT ![k] = Detached(held[t][k])] ELSE held[t]
                  /\ held' = [held EXCEPT ![t] = hs]
                  /\ reqs' = SaveDraft(reqs \ {r}, t, hs, gone[t], Sending(t), k)
    BY DEF SavedNowhere
  <1>4. k \in Keys'
    BY <1>1 DEF ReqsTyped, Keys
  <1> HIDE DEF k, t
  <1>5. held'[t] = hs /\ DOMAIN hs = DOMAIN held[t] /\ \A u \in Tab \ {t} : held'[u] = held[u]
    BY <1>2, <1>3 DEF HeldTyped
  <1>6. r \notin reqs'
    <2>1. SUFFICES ASSUME r \in reqs' PROVE FALSE
      OBVIOUS
    <2>2. r = Asking(t, k, hs[k])
      BY <1>3, <2>1, SaveMade
    <2> QED
      BY <1>2, <2>2 DEF Asking
  <1>7. HeldMoves
    <2>1. CASE k \in DOMAIN held[t]
      <3>1. PICK e : e = Detached(held[t][k])
        OBVIOUS
      <3>2. GetsCut(t, k, held[t][k], e)
        BY <1>2, <1>6, <3>1 DEF GetsCut
      <3> QED
        BY <1>2, <1>3, <2>1, <3>1, <3>2, HeldKey
    <2>2. CASE k \notin DOMAIN held[t]
      <3>1. held' = held
        BY <1>2, <1>3, <2>2 DEF HeldTyped
      <3> QED
        BY <3>1, HeldQuiet
    <2> QED
      BY <2>1, <2>2
  <1>8. ReqMoves
    <2>1. \A q \in reqs \ {r} : q.live => q.tab \in up'
      BY <1>1 DEF ReqsTyped
    <2>2. post'[t] # NoPost => Sending(t) = post'[t].key
      BY <1>1, <1>2, SendingKey
    <2>3. PICK rs \in SUBSET reqs : rs = reqs \ {r}
      OBVIOUS
    <2>4. PICK s : s = Sending(t)
      OBVIOUS
    <2> QED
      BY <1>1, <1>2, <1>3, <1>4, <1>5, <2>1, <2>2, <2>3, <2>4, AskOne
  <1>9. ReqEnds
    <2>1. reqs \ {r} \subseteq reqs'
      BY <1>3, SaveKeeps
    <2>2. Ended(r, t, k)
      BY <1>2, <1>3, <1>5 DEF Ended
    <2> QED
      BY <2>1, <2>2 DEF ReqEnds, t, k
  <1>10. PagesTyped'
    BY <1>1, <1>2, <1>5 DEF PagesTyped, Keys
  <1> QED
    BY <1>1, <1>7, <1>8, <1>9, <1>10, DeleteQuiet, GoneQuiet, PostQuiet, ListQuiet, LocalQuiet,
       PastQuiet, CountQuiet, OwnQuiet DEF Moves, RowsQuiet

LEMMA SaveForksMoves ==
  ASSUME NEW K, Typed(K), NEW r \in reqs, SaveForks(r)
  PROVE  Moves
  <1> USE DEF Typed
  <1>1. UNCHANGED <<row, nextid, disk, aged, up, gone, listing, deletes, sent, typed, thrown, letGo, own, unsure>>
    BY DEF SaveForks, server
  <1> DEFINE t == r.tab
             k == r.key
  <1>2. /\ r.live /\ r.ans = "409" /\ t \in up /\ t \in Tab /\ k \in DOMAIN held[t] \cup gone[t]
        /\ Answers(r, t, k) /\ nextkey' = nextkey + 1
    BY DEF SaveForks, ReqsTyped, PagesTyped, Answers
  <1>3. PICK hs, s : /\ hs = IF k \in DOMAIN held[t] THEN Put(Drop(held[t], k), nextkey, Detached(held[t][k])) ELSE held[t]
                     /\ held' = [held EXCEPT ![t] = hs]
                     /\ s = IF Sending(t) = k THEN nextkey ELSE Sending(t)
                     /\ reqs' = SaveDraft(reqs \ {r}, t, hs, gone[t], s, nextkey)
                     /\ screen' = IF screen[t] = k THEN [screen EXCEPT ![t] = nextkey] ELSE screen
                     /\ post' = IF Sending(t) = k THEN [post EXCEPT ![t].key = nextkey] ELSE post
                     /\ shared' = shared \cup (IF k \in DOMAIN held[t] THEN held[t][k].files ELSE {})
                                         \cup (IF Sending(t) = k THEN post[t].files ELSE {})
    BY DEF SaveForks, Forked
  <1>4. PICK loc : loc = Drop(local, k) /\ Store(t, loc)
    BY DEF SaveForks
  <1>5. /\ k \in Keys /\ nextkey \in Keys' /\ nextkey # k /\ nextkey \notin DOMAIN held[t]
        /\ nextkey \in Nat /\ k # Nowhere /\ nextkey # Nowhere /\ nextkey \notin gone[t]
    BY <1>2 DEF ReqsTyped, HeldTyped, PagesTyped, Keys, Counted, Nowhere
  <1> HIDE DEF k, t
  <1>6. held'[t] = hs /\ \A u \in Tab \ {t} : held'[u] = held[u]
    BY <1>2, <1>3 DEF HeldTyped
  <1>7. CASE k \in DOMAIN held[t]
    <2>1. PICK e : e = Detached(held[t][k])
      OBVIOUS
    <2>2. PICK h0 : h0 = Drop(held[t], k)
      OBVIOUS
    <2>3. hs = Put(h0, nextkey, e)
      BY <1>3, <1>7, <2>1, <2>2
    <2>4. IsTable(h0) /\ DOMAIN h0 = DOMAIN held[t] \ {k} /\ \A x \in DOMAIN h0 : h0[x] = held[t][x]
      BY <2>2 DEF Drop, Restrict, IsTable
    <2>5. /\ IsTable(hs) /\ DOMAIN hs = (DOMAIN held[t] \ {k}) \cup {nextkey} /\ hs[nextkey] = e
          /\ \A x \in DOMAIN held[t] \ {k} : hs[x] = held[t][x]
      BY <1>5, <2>3, <2>4 DEF Put, IsTable
    <2>6. r \notin reqs'
      <3>1. SUFFICES ASSUME r \in reqs' PROVE FALSE
        OBVIOUS
      <3>2. r = Asking(t, nextkey, hs[nextkey])
        BY <1>3, <3>1, SaveMade
      <3> QED
        BY <1>2, <3>2 DEF Asking
    <2>7. k \notin gone[t]
      BY <1>2, <1>7 DEF PagesTyped
    <2>8. Forks(t, k, held[t][k]) /\ k \notin DOMAIN held'[t]
      BY <1>1, <1>2, <1>5, <1>6, <2>1, <2>5, <2>6, <2>7 DEF Forks
    <2>9. \A x \in DOMAIN held[t] : Stays(t, x) \/ Departs(t, x)
      <3>1. ASSUME NEW x \in DOMAIN held[t] \ {k} PROVE Stays(t, x)
        BY <1>2, <1>6, <2>5, SameDraft
      <3> QED
        BY <2>8, <3>1 DEF Departs
    <2>10. \A x \in DOMAIN hs \ DOMAIN held[t] : Comes(t, x)
      <3>1. e.files = held[t][k].files
        BY <1>2, <1>7, <2>1, DetachedDraft DEF HeldTyped
      <3>2. Forked2(t, nextkey, e)
        BY <1>2, <1>3, <1>7, <2>1, <3>1 DEF Forked2
      <3> QED
        BY <1>6, <2>5, <3>2 DEF Comes
    <2>11. HeldMoves
      BY <1>2, <1>3, <2>5, <2>9, <2>10, HeldOne
    <2>12. post' = [u \in Tab |-> post'[u]] /\ (\A u \in Tab \ {t} : post'[u] = post[u])
           /\ (post[t] = NoPost \/ post[t].key # k => post'[t] = post[t])
           /\ (post[t] # NoPost /\ post[t].key = k => post'[t] = [post[t] EXCEPT !.key = nextkey])
      <3>1. Sending(t) = IF post[t] = NoPost THEN Nowhere ELSE post[t].key
        BY <1>2, SendingKey
      <3> QED
        BY <1>2, <1>3, <1>5, <3>1 DEF PostsTyped
    <2>13. post'[t] # NoPost => post'[t].key = screen'[t] /\ s = post'[t].key
      <3>1. Sending(t) = IF post[t] = NoPost THEN Nowhere ELSE post[t].key
        BY <1>2, SendingKey
      <3>2. CASE post[t] # NoPost /\ post[t].key = k
        <4>1. post'[t].key = nextkey /\ s = nextkey
          BY <1>2, <1>3, <2>12, <3>1, <3>2 DEF PostsTyped, IsPost
        <4>2. screen[t] = k
          BY <1>2, <3>2 DEF PostsTyped
        <4> QED
          BY <1>2, <1>3, <4>1, <4>2 DEF PagesTyped
      <3>3. CASE post[t] # NoPost /\ post[t].key # k
        <4>1. post[t].key = screen[t]
          BY <1>2, <3>3 DEF PostsTyped
        <4> QED
          BY <1>3, <2>12, <3>1, <3>3, <4>1
      <3>4. CASE post[t] = NoPost
        BY <2>12, <3>4
      <3> QED
        BY <3>2, <3>3, <3>4
    <2>14. PostMoves
      <3>1. ASSUME NEW u \in Tab \ {t} PROVE post'[u] # NoPost => post'[u].key = screen'[u]
        BY <1>3, <2>12 DEF PostsTyped, PagesTyped
      <3>2. post[t] # NoPost /\ post[t].key = k => GoesOn(t)
        <4>1. ASSUME post[t] # NoPost, post[t].key = k PROVE post[t].files \subseteq shared'
          <5>1. Sending(t) = k
            BY <1>2, <4>1, SendingKey
          <5> QED
            BY <1>3, <5>1
        <4> QED
          BY <1>2, <2>8, <2>12, <4>1 DEF GoesOn
      <3> QED
        BY <1>2, <2>12, <2>13, <3>1, <3>2 DEF PostMoves
    <2>15. ReqMoves
      <3>1. \A q \in reqs \ {r} : q.live => q.tab \in up'
        BY <1>1 DEF ReqsTyped
      <3>2. PICK rs \in SUBSET reqs : rs = reqs \ {r}
        OBVIOUS
      <3> QED
        BY <1>1, <1>2, <1>3, <1>5, <1>6, <2>13, <3>1, <3>2, AskOne
    <2>16. ReqEnds
      <3>1. reqs \ {r} \subseteq reqs'
        BY <1>3, SaveKeeps
      <3>2. Ended(r, t, k)
        BY <1>2, <2>8 DEF Ended
      <3> QED
        BY <3>1, <3>2 DEF ReqEnds, t, k
    <2>17. LocalMoves /\ overrun \subseteq overrun'
      <3>1. IsTable(loc) /\ \A x \in DOMAIN loc : x \in DOMAIN local /\ loc[x] = local[x]
        BY <1>4, DropTable
      <3> QED
        BY <1>1, <1>2, <1>4, <3>1, StoreMoves DEF PagesTyped
    <2>18. PagesTyped'
      <3>1. screen' \in [Tab -> Nat] /\ screen'[t] = (IF screen[t] = k THEN nextkey ELSE screen[t])
            /\ \A u \in Tab \ {t} : screen'[u] = screen[u]
        BY <1>2, <1>3, <1>5 DEF PagesTyped
      <3> QED
        BY <1>1, <1>2, <1>5, <1>6, <2>5, <2>12, <3>1 DEF PagesTyped, Keys, Counted
    <2>19. Counts
      BY <1>1, <1>2 DEF Counts
    <2>20. PastGrows
      BY <1>1, <1>3, <2>17 DEF PastGrows
    <2> QED
      BY <1>1, <2>11, <2>14, <2>15, <2>16, <2>17, <2>18, <2>19, <2>20, DeleteQuiet, GoneQuiet, ListQuiet,
         OwnQuiet DEF Moves, RowsQuiet
  <1>8. CASE k \notin DOMAIN held[t]
    <2>1. held' = held
      BY <1>2, <1>3, <1>8 DEF HeldTyped
    <2>2. screen[t] # k
      BY <1>2, <1>5, <1>8 DEF PagesTyped
    <2>3. Sending(t) # k
      <3>1. Sending(t) = IF post[t] = NoPost THEN Nowhere ELSE post[t].key
        BY <1>2, SendingKey
      <3> QED
        BY <1>2, <1>5, <1>8, <3>1 DEF PostsTyped
    <2>4. UNCHANGED <<post, screen>>
      BY <1>3, <2>2, <2>3
    <2>5. reqs' = reqs \ {r}
      <3>1. nextkey \notin DOMAIN hs
        BY <1>3, <1>5, <1>8
      <3> QED
        BY <1>3, <3>1 DEF SaveDraft
    <2>6. ReqMoves
      BY <1>1, <2>5 DEF ReqMoves, ReqsTyped
    <2>7. ReqEnds
      <3>1. Ended(r, t, k)
        BY <1>2, <1>8, <2>1 DEF Ended
      <3> QED
        BY <2>5, <3>1 DEF ReqEnds, t, k
    <2>8. LocalMoves /\ overrun \subseteq overrun'
      <3>1. IsTable(loc) /\ \A x \in DOMAIN loc : x \in DOMAIN local /\ loc[x] = local[x]
        BY <1>4, DropTable
      <3> QED
        BY <1>1, <1>2, <1>4, <3>1, StoreMoves DEF PagesTyped
    <2>9. PagesTyped'
      BY <1>1, <1>2, <2>1, <2>4 DEF PagesTyped, Keys, Counted
    <2>10. Counts
      BY <1>1, <1>2 DEF Counts
    <2>11. PastGrows
      BY <1>1, <1>3, <2>8 DEF PastGrows
    <2> QED
      BY <1>1, <2>1, <2>4, <2>6, <2>7, <2>8, <2>9, <2>10, <2>11, HeldQuiet, DeleteQuiet, GoneQuiet,
         PostQuiet, ListQuiet, OwnQuiet DEF Moves, RowsQuiet
  <1> QED
    BY <1>7, <1>8

\* A tab is done with a draft.
Dropped(t, k, hs) ==
    /\ held'[t] = hs /\ DOMAIN hs = DOMAIN held[t] \ {k}
    /\ gone'[t] = gone[t] \cup {k} /\ gone' = [u \in Tab |-> gone'[u]]
    /\ \A u \in Tab \ {t} : held'[u] = held[u] /\ gone'[u] = gone[u]

LEMMA DropMoves ==
  ASSUME NEW K, Typed(K), NEW t \in up, t \in Tab, NEW k \in DOMAIN held[t], NEW hs, hs = Drop(held[t], k),
         NEW gs, gs = gone[t] \cup {k}, held' = [held EXCEPT ![t] = hs], gone' = [gone EXCEPT ![t] = gs],
         k \notin DOMAIN hs /\ (ThrownAway(t, k, held[t][k]) \/ SentOff(t, k) \/ LetGo(t, k, held[t][k]))
  PROVE  HeldMoves /\ GoneMoves /\ Dropped(t, k, hs)
  <1> USE DEF Typed
  <1>1. IsTable(hs) /\ DOMAIN hs = DOMAIN held[t] \ {k} /\ \A x \in DOMAIN hs : hs[x] = held[t][x]
    BY DEF Drop, Restrict, IsTable
  <1>2. /\ held'[t] = hs /\ \A u \in Tab \ {t} : held'[u] = held[u]
        /\ gone'[t] = gone[t] \cup {k} /\ gone' = [u \in Tab |-> gone'[u]]
        /\ \A u \in Tab \ {t} : gone'[u] = gone[u]
    BY DEF HeldTyped, PagesTyped
  <1>3. \A x \in DOMAIN held[t] : Stays(t, x) \/ Departs(t, x)
    BY <1>1, <1>2, SameDraft DEF Departs
  <1>4. HeldMoves
    BY <1>1, <1>3, HeldOne
  <1>5. GoneMoves
    BY <1>1, <1>2 DEF GoneMoves
  <1> QED
    BY <1>1, <1>2, <1>4, <1>5 DEF Dropped

LEMMA SendAnsweredMoves ==
  ASSUME NEW K, Typed(K), NEW t \in Tab, SendAnswered(t)
  PROVE  Moves
  <1> USE DEF Typed
  <1>1. UNCHANGED <<row, nextid, disk, aged, up, nextkey, listing, reqs, deletes,
                    sent, typed, thrown, letGo, shared, own, unsure>>
    BY DEF SendAnswered, server, past
  <1>2. PICK k : k = post[t].key
    OBVIOUS
  <1>3. PICK hs : hs = Drop(held[t], k)
    OBVIOUS
  <1>4. PICK loc, gs : loc = Drop(local, k) /\ gs = gone[t] \cup {k}
    OBVIOUS
  <1>5. /\ t \in up /\ post[t].phase = "answered" /\ post[t].ans = "sent"
        /\ gone' = [gone EXCEPT ![t] = gs] /\ held' = [held EXCEPT ![t] = hs]
        /\ screen' = IF screen[t] = k THEN [screen EXCEPT ![t] = Nowhere] ELSE screen
        /\ Store(t, loc) /\ post' = [post EXCEPT ![t] = NoPost]
    BY <1>2, <1>3, <1>4 DEF SendAnswered
  <1>6. post[t] # NoPost /\ k \in DOMAIN held[t]
    BY <1>2, <1>5 DEF PostsTyped, NoPost
  <1>7. k \notin DOMAIN hs
    BY <1>3 DEF Drop, Restrict
  <1>8. SentOff(t, k)
    BY <1>2, <1>4, <1>5, <1>6 DEF SentOff, PagesTyped
  <1>9. HeldMoves /\ GoneMoves /\ Dropped(t, k, hs)
    <2>1. t \in up /\ held' = [held EXCEPT ![t] = hs] /\ gone' = [gone EXCEPT ![t] = gs]
      BY <1>5
    <2>2. gs = gone[t] \cup {k}
      BY <1>4
    <2> HIDE DEF Typed
    <2> QED
      BY <1>3, <1>6, <1>7, <1>8, <2>1, <2>2, DropMoves
  <1>10. LocalMoves /\ overrun \subseteq overrun'
    <2>1. IsTable(loc) /\ \A x \in DOMAIN loc : x \in DOMAIN local /\ loc[x] = local[x]
      BY <1>4, DropTable
    <2> QED
      BY <1>1, <1>5, <2>1, StoreMoves DEF PagesTyped
  <1>11. post' = [u \in Tab |-> post'[u]] /\ post'[t] = NoPost /\ \A u \in Tab \ {t} : post'[u] = post[u]
    BY <1>5 DEF PostsTyped
  <1>12. screen' \in [Tab -> Nat] /\ screen'[t] = (IF screen[t] = k THEN Nowhere ELSE screen[t])
         /\ \A u \in Tab \ {t} : screen'[u] = screen[u]
    BY <1>5 DEF PagesTyped, Nowhere
  <1>13. PagesTyped'
    BY <1>1, <1>5, <1>6, <1>9, <1>11, <1>12 DEF PagesTyped, HeldTyped, Keys, Dropped
  <1>14. PostMoves
    BY <1>11, <1>12 DEF PostMoves, PostsTyped
  <1> QED
    BY <1>1, <1>9, <1>10, <1>13, <1>14, ReqQuiet, DeleteQuiet, ListQuiet,
       PastQuiet, CountQuiet, OwnQuiet DEF Moves, RowsQuiet

LEMMA ThrowMoves ==
  ASSUME NEW K, Typed(K), NEW t \in Tab, NEW k \in DOMAIN held[t], Throw(t, k)
  PROVE  Moves
  <1> USE DEF Typed
  <1>1. UNCHANGED <<row, nextid, aged, up, nextkey, listing, reqs, post, sent, typed, shared, own, unsure>>
    BY DEF Throw
  <1>2. PICK hs : hs = Drop(held[t], k)
    OBVIOUS
  <1>3. PICK d, gs : d = held[t][k] /\ gs = gone[t] \cup {k}
    OBVIOUS
  <1>4. /\ t \in up /\ Sending(t) # k
        /\ gone' = [gone EXCEPT ![t] = gs] /\ held' = [held EXCEPT ![t] = hs]
        /\ screen' = IF screen[t] = k THEN [screen EXCEPT ![t] = Nowhere] ELSE screen
        /\ Store(t, Persisted(local, t, hs, gs))
        /\ deletes' = IF d.id = Nowhere THEN deletes ELSE deletes \cup {[id |-> d.id, rev |-> Seen(d), key |-> k]}
        /\ disk' = disk \ d.files /\ letGo' = letGo \cup ({k} \X d.files) /\ thrown' = thrown \cup d.words
    BY <1>2, <1>3 DEF Throw
  <1>5. k \notin DOMAIN hs
    BY <1>2 DEF Drop, Restrict
  <1>6. ThrownAway(t, k, held[t][k])
    BY <1>3, <1>4 DEF ThrownAway, PagesTyped
  <1>7. HeldMoves /\ GoneMoves /\ Dropped(t, k, hs)
    <2>1. t \in up /\ held' = [held EXCEPT ![t] = hs] /\ gone' = [gone EXCEPT ![t] = gs]
      BY <1>4
    <2>2. gs = gone[t] \cup {k}
      BY <1>3
    <2> HIDE DEF Typed
    <2> QED
      BY <1>2, <1>5, <1>6, <2>1, <2>2, DropMoves
  <1>8. LocalMoves /\ overrun \subseteq overrun'
    <2> QED
      BY <1>1, <1>4, <1>7, PersistMoves DEF PagesTyped, Dropped
  <1>9. screen' \in [Tab -> Nat] /\ screen'[t] = (IF screen[t] = k THEN Nowhere ELSE screen[t])
         /\ \A u \in Tab \ {t} : screen'[u] = screen[u]
    BY <1>4 DEF PagesTyped, Nowhere
  <1>10. PagesTyped'
    BY <1>1, <1>4, <1>7, <1>9 DEF PagesTyped, HeldTyped, Keys, Dropped
  <1>11. PostMoves
    <2>1. post[t] # NoPost => post[t].key # k
      BY <1>4, SendingKey
    <2>2. post[t] # NoPost => post[t].key = screen[t]
      BY DEF PostsTyped
    <2>3. post[t] # NoPost => screen'[t] = screen[t]
      BY <1>9, <2>1, <2>2
    <2> QED
      BY <1>1, <1>9, <2>3, PostQuiet
  <1>12. DeleteMoves
    BY <1>3, <1>4 DEF DeleteMoves
  <1>13. PastGrows
    BY <1>1, <1>3, <1>4, <1>8 DEF PastGrows
  <1> QED
    BY <1>1, <1>7, <1>8, <1>10, <1>11, <1>12, <1>13, ReqQuiet, ListQuiet, CountQuiet, OwnQuiet
       DEF Moves, RowsQuiet

LEMMA LostElsewhereMoves ==
  ASSUME NEW K, Typed(K), NEW t \in Tab, NEW k \in DOMAIN held[t], LostElsewhere(t, k)
  PROVE  Moves
  <1> USE DEF Typed
  <1>1. UNCHANGED <<row, nextid, disk, aged, up, screen, nextkey, listing, deletes, post,
                    sent, typed, thrown, letGo, shared, own, unsure>>
    BY DEF LostElsewhere, server, past
  <1>2. t \in up /\ k \notin gone[t] /\ held[t][k].id # Nowhere /\ held[t][k].id \notin DOMAIN row
    BY DEF LostElsewhere
  <1>3. CASE Kept(t, held[t], k)
    <2>1. PICK e : e = Detached(held[t][k])
      OBVIOUS
    <2>2. PICK hs : hs = [held[t] EXCEPT ![k] = e]
      OBVIOUS
    <2>3. /\ held' = [held EXCEPT ![t] = hs] /\ UNCHANGED <<gone, local, overrun>>
          /\ reqs' = IF k # screen[t] THEN SaveDraft(reqs, t, hs, gone[t], Sending(t), k) ELSE reqs
      BY <1>3, <2>1, <2>2 DEF LostElsewhere
    <2>4. held'[t] = hs /\ DOMAIN hs = DOMAIN held[t] /\ \A u \in Tab \ {t} : held'[u] = held[u]
      BY <2>2, <2>3 DEF HeldTyped
    <2>5. GetsCut(t, k, held[t][k], e)
      BY <1>2, <2>1 DEF GetsCut
    <2>6. HeldMoves
      BY <2>2, <2>3, <2>5, HeldKey
    <2>7. ReqMoves /\ ReqEnds
      <3>1. CASE k # screen[t]
        <4>1. post'[t] # NoPost => Sending(t) = post'[t].key
          BY <1>1, SendingKey
        <4>2. PICK s : s = Sending(t)
          OBVIOUS
        <4>3. k \in Keys'
          BY <1>1 DEF HeldTyped, Keys
        <4>4. ReqMoves
          BY <1>1, <1>2, <2>3, <2>4, <3>1, <4>1, <4>2, <4>3, AskOne DEF ReqsTyped
        <4>5. ReqEnds
          BY <2>3, <3>1, SaveKeeps DEF ReqEnds
        <4> QED
          BY <4>4, <4>5
      <3>2. CASE k = screen[t]
        BY <1>1, <2>3, <3>2, ReqQuiet
      <3> QED
        BY <3>1, <3>2
    <2>8. PagesTyped'
      BY <1>1, <2>3, <2>4 DEF PagesTyped, Keys
    <2> QED
      BY <1>1, <2>3, <2>6, <2>7, <2>8, DeleteQuiet, GoneQuiet, PostQuiet, ListQuiet, LocalQuiet,
         PastQuiet, CountQuiet, OwnQuiet DEF Moves, RowsQuiet
  <1>4. CASE ~Kept(t, held[t], k)
    <2>1. PICK hs : hs = Drop(held[t], k)
      OBVIOUS
    <2>2. PICK gs : gs = gone[t] \cup {k}
      OBVIOUS
    <2>3. /\ held' = [held EXCEPT ![t] = hs] /\ gone' = [gone EXCEPT ![t] = gs] /\ UNCHANGED reqs
          /\ Store(t, Persisted(local, t, hs, gs))
      BY <1>4, <2>1, <2>2 DEF LostElsewhere
    <2>4. k # screen[t] /\ ~Dirty(held[t][k])
      BY <1>4 DEF Kept
    <2>5. k \notin DOMAIN hs
      BY <2>1 DEF Drop, Restrict
    <2>6. LetGo(t, k, held[t][k])
      BY <1>2, <2>2, <2>3, <2>4 DEF LetGo, PagesTyped
    <2>7. HeldMoves /\ GoneMoves /\ Dropped(t, k, hs)
      BY <1>2, <2>1, <2>2, <2>3, <2>5, <2>6, DropMoves
    <2>8. LocalMoves /\ overrun \subseteq overrun'
      BY <1>1, <1>2, <2>3, <2>7, PersistMoves DEF PagesTyped, Dropped
    <2>9. PagesTyped'
      BY <1>1, <1>2, <2>4, <2>7 DEF PagesTyped, HeldTyped, Keys, Dropped
    <2> QED
      BY <1>1, <2>3, <2>7, <2>8, <2>9, ReqQuiet, DeleteQuiet, PostQuiet, ListQuiet,
         PastQuiet, CountQuiet, OwnQuiet DEF Moves, RowsQuiet
  <1> QED
    BY <1>3, <1>4

\* A tab saves several of its drafts at once.
LEMMA AskMany ==
  ASSUME \A q \in reqs : q.live => q.tab \in up', NEW t \in Tab, t \in up', NEW s,
         NEW hs, hs = held'[t], NEW gs, gs = gone'[t], NEW X \in SUBSET DOMAIN hs, X \subseteq Keys',
         post'[t] # NoPost => s = post'[t].key,
         reqs \subseteq reqs', \A q \in reqs' : q \in reqs \/ \E k \in X : q \in SaveDraft(reqs, t, hs, gs, s, k)
  PROVE  ReqMoves /\ ReqEnds
  <1>1. ReqMoves
    <2> SUFFICES ASSUME NEW q \in reqs', q \notin reqs PROVE \E k \in Keys' : Asks(t, k, q)
      BY DEF ReqMoves
    <2>1. PICK k \in X : q \in SaveDraft(reqs, t, hs, gs, s, k)
      OBVIOUS
    <2>2. /\ q = Asking(t, k, hs[k]) /\ k \in DOMAIN hs /\ k \notin gs /\ k # s /\ Dirty(hs[k])
          /\ \A r \in reqs : ~Answers(r, t, k)
      BY <2>1, SaveMade
    <2>3. ASSUME NEW r \in reqs', Answers(r, t, k) PROVE r = q
      <3>1. PICK x \in X : r \in SaveDraft(reqs, t, hs, gs, s, x)
        BY <2>2, <2>3
      <3>2. r = Asking(t, x, hs[x])
        BY <2>2, <2>3, <3>1, SaveMade
      <3>3. x = k
        BY <2>3, <3>2 DEF Answers, Asking
      <3> QED
        BY <2>2, <3>2, <3>3
    <2> QED
      BY <2>2, <2>3 DEF Asks
  <1>2. ReqEnds
    BY DEF ReqEnds
  <1> QED
    BY <1>1, <1>2

LEMMA ReconcileMoves ==
  ASSUME NEW K, Typed(K), NEW t \in Tab, Reconcile(t)
  PROVE  Moves
  <1> USE DEF Typed
  <1>1. UNCHANGED <<row, nextid, disk, aged, up, screen, nextkey, deletes, post,
                    sent, typed, thrown, letGo, shared, own, unsure>>
    BY DEF Reconcile, server, past
  <1> DEFINE hs   == Laid(t)
             lost == {k \in DOMAIN hs \ gone[t] : hs[k].id \in listing[t].ids \ DOMAIN listing[t].rows}
             let  == {k \in lost : ~Kept(t, hs, k)}
             hs2  == [k \in DOMAIN hs \ let |-> IF k \in lost THEN Detached(hs[k]) ELSE hs[k]]
             X    == (lost \ let) \ {screen[t]}
             loc  == IF let # {} THEN Persisted(local, t, hs2, gone'[t]) ELSE local
  <1>2. /\ t \in up /\ held' = [held EXCEPT ![t] = hs2] /\ gone' = [gone EXCEPT ![t] = gone[t] \cup let]
        /\ Store(t, loc) /\ listing' = [listing EXCEPT ![t] = NoList]
    BY DEF Reconcile
  <1>3. reqs' = reqs \cup UNION {SaveDraft(reqs, t, hs2, gone'[t], Sending(t), k) : k \in X}
    BY Zenon DEF Reconcile
  <1> HIDE DEF hs
  <1>4. lost = {k \in DOMAIN hs \ gone[t] : hs[k].id \in listing[t].ids \ DOMAIN listing[t].rows}
    OBVIOUS
  <1> HIDE DEF lost
  <1>5. let = {k \in lost : ~Kept(t, hs, k)}
    OBVIOUS
  <1> HIDE DEF let
  <1>6. hs2 = [k \in DOMAIN hs \ let |-> IF k \in lost THEN Detached(hs[k]) ELSE hs[k]]
    OBVIOUS
  <1> HIDE DEF hs2
  <1>7. X = (lost \ let) \ {screen[t]}
    OBVIOUS
  <1>8. loc = IF let # {} THEN Persisted(local, t, hs2, gone'[t]) ELSE local
    OBVIOUS
  <1> HIDE DEF X, loc
  <1>10. LaidTo(t, hs, nextid)
    BY LaidAll DEF Counted, hs
  <1>11. ASSUME NEW k \in lost
         PROVE  /\ k \in DOMAIN held[t] /\ hs[k] = held[t][k] /\ held[t][k].id # Nowhere
                /\ held[t][k].id \notin DOMAIN row
    <2>1. hs[k].id \in listing[t].ids /\ hs[k].id \notin DOMAIN listing[t].rows /\ k \in DOMAIN hs
      BY <1>4, <1>11
    <2>2. ASSUME NEW i \in DOMAIN listing[t].rows PROVE listing[t].rows[i].draft.id = i /\ i \in Nat
      BY DEF ListsTyped
    <2>3. CASE k \notin DOMAIN held[t]
      <3>1. PICK i \in DOMAIN listing[t].rows : hs[k] = listing[t].rows[i].draft
        BY <1>10, <2>1, <2>3 DEF LaidTo, Fetched
      <3> QED
        BY <2>1, <2>2, <3>1
    <2>4. CASE k \in DOMAIN held[t] /\ hs[k] # held[t][k]
      <3>1. LaidOver(t, k, held[t][k], hs[k])
        BY <1>10, <2>1, <2>4 DEF LaidTo
      <3>2. ~GetsReplaced(t, k, held[t][k], hs[k])
        BY <2>1, <2>2 DEF GetsReplaced
      <3>3. PICK i \in DOMAIN listing[t].rows : hs[k] = Adopted(held[t][k], i, listing[t].rows[i])
        BY <2>4, <3>1, <3>2 DEF LaidOver, GetsAdopted
      <3>4. hs[k].id = i
        BY <2>4, <3>3 DEF Adopted, HeldTyped, IsDraft
      <3> QED
        BY <2>1, <3>4
    <2> QED
      BY <2>1, <2>3, <2>4 DEF ListsTyped, Nowhere
  <1>12. /\ held'[t] = hs2 /\ gone'[t] = gone[t] \cup let /\ gone' = [u \in Tab |-> gone'[u]]
         /\ listing'[t] = NoList /\ listing' = [u \in Tab |-> listing'[u]]
         /\ \A u \in Tab \ {t} : held'[u] = held[u] /\ gone'[u] = gone[u] /\ listing'[u] = listing[u]
    BY <1>2 DEF HeldTyped, PagesTyped, ListsTyped
  <1>13. IsTable(hs2) /\ DOMAIN hs2 = DOMAIN hs \ let
    BY <1>6 DEF IsTable
  <1>14. ASSUME NEW k \in let PROVE LetGo(t, k, held[t][k])
    BY <1>5, <1>11, <1>12, <1>14 DEF LetGo, Kept
  <1>15. \A k \in DOMAIN held[t] : Stays(t, k) \/ Departs(t, k)
    <2> TAKE k \in DOMAIN held[t]
    <2>1. CASE k \in let
      BY <1>12, <1>13, <1>14, <2>1 DEF Departs
    <2>2. CASE k \in lost \ let
      <3>1. k \in DOMAIN hs2 /\ hs2[k] = Detached(held[t][k])
        BY <1>4, <1>6, <1>11, <2>2
      <3> QED
        BY <1>11, <1>12, <2>2, <3>1 DEF Stays, GetsCut
    <2>3. CASE k \notin lost
      <3>1. k \in DOMAIN hs2 /\ hs2[k] = hs[k]
        BY <1>5, <1>6, <1>10, <2>3 DEF LaidTo
      <3>2. hs[k] = held[t][k] \/ LaidOver(t, k, held[t][k], hs[k])
        BY <1>10 DEF LaidTo
      <3> QED
        BY <1>12, <3>1, <3>2, SameDraft DEF Stays, LaidOver
    <2> QED
      BY <2>1, <2>2, <2>3
  <1>16. \A k \in DOMAIN hs2 \ DOMAIN held[t] : Comes(t, k)
    <2> TAKE k \in DOMAIN hs2 \ DOMAIN held[t]
    <2>1. k \notin lost /\ k \in DOMAIN hs
      BY <1>11, <1>13
    <2>2. hs2[k] = hs[k] /\ Fetched(t, k, hs[k])
      BY <1>6, <1>10, <2>1 DEF LaidTo
    <2> QED
      BY <1>12, <2>2 DEF Comes
  <1>17. HeldMoves
    BY <1>2, <1>13, <1>15, <1>16, HeldOne
  <1>18. GoneMoves
    BY <1>5, <1>11, <1>12, <1>13 DEF GoneMoves
  <1>19. DOMAIN hs2 \subseteq Keys /\ let \subseteq Keys /\ DOMAIN hs2 \cap gone[t] = {} /\ screen[t] \notin let
    <2>1. ASSUME NEW k \in DOMAIN hs PROVE k \in Keys \ gone[t]
      <3>1. CASE k \in DOMAIN held[t]
        BY <3>1 DEF HeldTyped, PagesTyped
      <3>2. CASE k \notin DOMAIN held[t]
        BY <1>10, <3>2 DEF LaidTo, Fetched, ListsTyped
      <3> QED
        BY <3>1, <3>2
    <2> QED
      BY <1>4, <1>5, <1>13, <2>1 DEF Kept
  <1>20. PagesTyped'
    <2>1. screen[t] # Nowhere => screen[t] \in DOMAIN hs2
      BY <1>10, <1>13, <1>19 DEF PagesTyped, LaidTo
    <2> QED
      BY <1>1, <1>2, <1>12, <1>13, <1>19, <2>1 DEF PagesTyped, Keys
  <1>21. ReqMoves /\ ReqEnds
    <2>1. X \subseteq DOMAIN hs2 /\ X \subseteq Keys'
      BY <1>1, <1>4, <1>7, <1>13, <1>19 DEF Keys
    <2>2. post'[t] # NoPost => Sending(t) = post'[t].key
      BY <1>1, SendingKey
    <2>3. PICK s, gs : s = Sending(t) /\ gs = gone'[t]
      OBVIOUS
    <2>4. /\ reqs \subseteq reqs'
          /\ \A q \in reqs' : q \in reqs \/ \E k \in X : q \in SaveDraft(reqs, t, hs2, gs, s, k)
      BY <1>3, <2>3
    <2>5. \A q \in reqs : q.live => q.tab \in up'
      BY <1>1 DEF ReqsTyped
    <2>6. hs2 = held'[t] /\ t \in up'
      BY <1>1, <1>2, <1>12
    <2> QED
      BY <2>1, <2>2, <2>3, <2>4, <2>5, <2>6, AskMany
  <1>22. LocalMoves /\ overrun \subseteq overrun'
    <2>1. CASE let # {}
      <3>1. PICK gs : gs = gone'[t]
        OBVIOUS
      <3> QED
        BY <1>1, <1>8, <1>2, <1>12, <2>1, <3>1, PersistMoves DEF PagesTyped
    <2>2. CASE let = {}
      <3>1. IsTable(loc) /\ \A x \in DOMAIN loc : x \in DOMAIN local /\ loc[x] = local[x]
        BY <1>8, <2>2 DEF LocalTyped
      <3> QED
        BY <1>1, <1>2, <3>1, StoreMoves DEF PagesTyped
    <2> QED
      BY <2>1, <2>2
  <1>23. ListMoves
    BY <1>12 DEF ListMoves
  <1> QED
    BY <1>1, <1>17, <1>18, <1>20, <1>21, <1>22, <1>23, DeleteQuiet, PostQuiet,
       PastQuiet, CountQuiet, OwnQuiet DEF Moves, RowsQuiet

\* A page goes away, its words kept or counted as lost.
LEMMA LeaveMoves ==
  ASSUME NEW K, Typed(K), NEW t \in Tab, Leave(t), LocalMoves, overrun \subseteq overrun',
         \A k \in DOMAIN held[t] : Dirty(held[t][k]) => held[t][k].words \subseteq DraftWords(local') \cup overrun'
  PROVE  Moves
  <1> USE DEF Typed
  <1>1. UNCHANGED <<row, nextid, disk, aged, nextkey, deletes, post, sent, typed, thrown, letGo, shared>>
    BY DEF Leave, server
  <1>2. PICK hs : hs = <<>>
    OBVIOUS
  <1>3. /\ t \in up /\ post[t] = NoPost /\ up' = up \ {t} /\ held' = [held EXCEPT ![t] = hs]
        /\ screen' = [screen EXCEPT ![t] = Nowhere] /\ gone' = [gone EXCEPT ![t] = {}]
        /\ listing' = [listing EXCEPT ![t] = NoList] /\ own' = [own EXCEPT ![t] = {}]
        /\ reqs' = Stray(t) /\ unsure' = unsure \cup {r.key : r \in {x \in reqs : x.tab = t}}
    BY <1>2 DEF Leave
  <1>4. DOMAIN hs = {} /\ IsTable(hs)
    BY <1>2 DEF IsTable
  <1>5. /\ held'[t] = hs /\ gone'[t] = {} /\ own'[t] = {} /\ listing'[t] = NoList /\ screen'[t] = Nowhere
        /\ gone' = [u \in Tab |-> gone'[u]] /\ own' = [u \in Tab |-> own'[u]]
        /\ listing' = [u \in Tab |-> listing'[u]] /\ screen' \in [Tab -> Nat]
    BY <1>3 DEF HeldTyped, PagesTyped, ListsTyped, Nowhere
  <1>6. \A u \in Tab \ {t} : /\ held'[u] = held[u] /\ gone'[u] = gone[u] /\ own'[u] = own[u]
                             /\ listing'[u] = listing[u] /\ screen'[u] = screen[u]
    BY <1>3 DEF HeldTyped, PagesTyped, ListsTyped
  <1>7. \A k \in DOMAIN held[t] : Departs(t, k)
    BY <1>3, <1>4, <1>5 DEF Departs, LeftWith
  <1>8. HeldMoves
    BY <1>3, <1>4, <1>7, HeldOne
  <1>9. GoneMoves /\ OwnMoves
    BY <1>3, <1>5, <1>6 DEF GoneMoves, OwnMoves
  <1>10. PagesTyped'
    BY <1>1, <1>3, <1>4, <1>5, <1>6 DEF PagesTyped, Keys
  <1>11. PostMoves
    BY <1>1, <1>3, <1>6, PostQuiet DEF PagesTyped
  <1>12. ListMoves
    BY <1>5, <1>6 DEF ListMoves
  <1>13. PastGrows
    BY <1>1, <1>3 DEF PastGrows
  <1>14. ReqMoves
    <2> SUFFICES ASSUME NEW q \in reqs'
                 PROVE  \/ q \in reqs /\ (q.live => q.tab \in up')
                        \/ \E r \in reqs \ reqs' : Strays(r, q)
      BY DEF ReqMoves
    <2>1. PICK r \in reqs : /\ ~(r.tab = t /\ r.ans # "none")
                            /\ q = IF r.tab = t THEN [r EXCEPT !.live = FALSE] ELSE r
      BY <1>3 DEF Stray
    <2>2. IsReq(r) /\ (r.live => r.tab \in up)
      BY DEF ReqsTyped
    <2>3. CASE r.tab # t
      BY <1>3, <2>1, <2>2, <2>3 DEF PagesTyped
    <2>4. CASE r.tab = t
      <3>1. r.ans = "none" /\ q = [r EXCEPT !.live = FALSE]
        BY <2>1, <2>4
      <3>2. q.live = FALSE /\ q.key = r.key /\ q.tab = r.tab
        BY <2>2, <3>1 DEF IsReq
      <3>3. CASE r.live
        <4>1. r \notin reqs'
          <5>1. SUFFICES ASSUME r \in reqs' PROVE FALSE
            OBVIOUS
          <5>2. PICK x \in reqs : r = IF x.tab = t THEN [x EXCEPT !.live = FALSE] ELSE x
            BY <1>3, <5>1 DEF Stray
          <5>3. IsReq(x)
            BY DEF ReqsTyped
          <5>4. x.tab # t
            BY <3>3, <5>2, <5>3 DEF IsReq
          <5> QED
            BY <2>4, <5>2, <5>4
        <4>2. Strays(r, q)
          BY <1>3, <2>4, <3>1, <3>2 DEF Strays
        <4> QED
          BY <4>1, <4>2
      <3>4. CASE ~r.live
        <4>1. q = r
          BY <2>2, <3>1, <3>4 DEF IsReq
        <4> QED
          BY <3>2, <4>1
      <3> QED
        BY <3>3, <3>4
    <2> QED
      BY <2>3, <2>4
  <1>15. ReqEnds
    <2> SUFFICES ASSUME NEW r \in reqs, r \notin reqs' PROVE r.tab = t
      BY <1>3 DEF ReqEnds
    <2> QED
      BY <1>3 DEF Stray
  <1> QED
    BY <1>1, <1>8, <1>9, <1>10, <1>11, <1>12, <1>13, <1>14, <1>15, DeleteQuiet, CountQuiet DEF Moves, RowsQuiet

LEMMA ClosePageMoves ==
  ASSUME NEW K, Typed(K), NEW t \in Tab, ClosePage(t)
  PROVE  Moves
  <1> DEFINE loc == Persisted(local, t, held[t], gone[t])
  <1>1. Store(t, loc) /\ Leave(t) /\ t \in up /\ t \notin up' /\ up' \subseteq up /\ up \subseteq Tab
    BY DEF ClosePage, Leave, Typed, PagesTyped
  <1>2. IsPersisted(loc, local, t, held[t], gone[t])
    BY PersistedCopies
  <1> HIDE DEF loc
  <1>3. IsTable(loc) /\ \A k \in DOMAIN loc :
             \/ k \in DOMAIN local /\ loc[k] = local[k]
             \/ k \in DOMAIN held[t] /\ loc[k] = CopyOf(t, held[t][k])
    BY <1>2 DEF IsPersisted
  <1>4. LocalMoves /\ overrun \subseteq overrun'
    BY <1>1, <1>3, StoreMoves
  <1>5. ASSUME NEW k \in DOMAIN held[t], Dirty(held[t][k]) PROVE held[t][k].words \subseteq DraftWords(local')
    <2>1. k \in DOMAIN loc /\ loc[k] = CopyOf(t, held[t][k])
      BY <1>2, <1>5 DEF IsPersisted, Typed, PagesTyped
    <2> QED
      BY <1>1, <2>1 DEF Store, DraftWords, CopyOf
  <1> QED
    BY <1>1, <1>4, <1>5, LeaveMoves

LEMMA CrashPageMoves ==
  ASSUME NEW K, Typed(K), NEW t \in Tab, CrashPage(t)
  PROVE  Moves
  <1>1. Leave(t) /\ t \in up /\ up' \subseteq up /\ local' = local
    BY DEF CrashPage, Leave
  <1>2. overrun' = overrun \cup UNION {held[t][k].words : k \in {x \in DOMAIN held[t] : Dirty(held[t][x])}}
    BY DEF CrashPage
  <1>3. LocalMoves
    BY <1>1, LocalQuiet DEF Typed
  <1> QED
    BY <1>1, <1>2, <1>3, LeaveMoves

\* The first of the rows a key has.
LEMMA FirstRow ==
  ASSUME NEW K, Counted(K), RowsTyped(K), NEW k, Row(k) # {}
  PROVE  RowOf(k) \in DOMAIN row /\ row[RowOf(k)].key = k
  <1>1. Row(k) \in SUBSET Nat
    BY DEF Row, RowsTyped, Counted
  <1>2. \E x \in Row(k) : \A y \in Row(k) : x <= y
    BY <1>1, Least
  <1> QED
    BY <1>2 DEF Row, RowOf

\* A copy read back: it is its row's, if the list had one, or as it was kept.
Revived(k, d) ==
    /\ IsDraft(d) /\ d.words = local[k].words /\ d.files = local[k].files /\ d.sig = NoSig
    /\ \/ /\ d.id \in DOMAIN row /\ row[d.id].key = k /\ d.rev = row[d.id].rev
          /\ ~d.blind => row[d.id].words \subseteq d.words
       \/ d.id = local[k].id /\ d.rev = local[k].rev /\ d.blind = local[k].blind

LEMMA RevivedDraft ==
  ASSUME NEW K, Typed(K), NEW k \in DOMAIN local, NEW offline \in BOOLEAN
  PROVE  Revived(k, LocalDraft(k, offline))
  <1> USE DEF Typed
  <1>1. CASE Row(k) # {} /\ ~offline
    <2> DEFINE i == RowOf(k)
    <2>1. i \in DOMAIN row /\ row[i].key = k
      BY <1>1, FirstRow
    <2>2. PICK e : e = LocalDraft(k, offline)
      OBVIOUS
    <2>3. e = [Draft(i, row[i].rev, local[k].words, local[k].files, NoSig)
                 EXCEPT !.blind = ~(row[i].words \subseteq local[k].words)]
      BY <1>1, <2>2 DEF LocalDraft
    <2> HIDE DEF i
    <2>4. e = [id |-> i, rev |-> row[i].rev, words |-> local[k].words, files |-> local[k].files,
               sig |-> NoSig, blind |-> ~(row[i].words \subseteq local[k].words)]
      BY <2>3 DEF Draft
    <2>5. i \in Nat /\ row[i].rev \in Nat
      BY <2>1 DEF RowsTyped, IsSavedRow, Counted
    <2>6. IsDraft(e)
      BY <2>4, <2>5 DEF IsDraft
    <2>7. /\ e.id = i /\ e.rev = row[i].rev /\ e.words = local[k].words /\ e.files = local[k].files
          /\ e.sig = NoSig /\ e.blind = ~(row[i].words \subseteq local[k].words)
      BY <2>4
    <2>8. Revived(k, e)
      BY <2>1, <2>6, <2>7 DEF Revived
    <2> QED
      BY <2>2, <2>8
  <1>2. CASE Row(k) = {} \/ offline
    <2>1. PICK e, c : e = LocalDraft(k, offline) /\ c = local[k]
      OBVIOUS
    <2>2. e = [Draft(c.id, c.rev, c.words, c.files, NoSig) EXCEPT !.blind = c.blind]
      BY <1>2, <2>1 DEF LocalDraft
    <2>3. e = [id |-> c.id, rev |-> c.rev, words |-> c.words, files |-> c.files, sig |-> NoSig, blind |-> c.blind]
      BY <2>2 DEF Draft
    <2>4. c.id \in Nat /\ c.rev \in Nat /\ c.blind \in BOOLEAN
      BY <2>1 DEF LocalTyped, IsCopy
    <2>5. IsDraft(e)
      BY <2>3, <2>4 DEF IsDraft
    <2> QED
      BY <2>1, <2>3, <2>5 DEF Revived
  <1> QED
    BY <1>1, <1>2

LEMMA LoadPageMoves ==
  ASSUME NEW K, Typed(K), NEW t \in Tab, NEW waited \in BOOLEAN, NEW offline \in BOOLEAN,
         LoadPage(t, waited, offline)
  PROVE  Moves
  <1> USE DEF Typed
  <1>1. UNCHANGED <<row, nextid, disk, aged, gone, nextkey, listing, deletes, post, sent, typed,
                    thrown, letGo, shared, own, unsure>>
    BY DEF LoadPage, server
  <1> DEFINE old  == IF offline THEN {} ELSE {k \in Mine(t, waited) : Forgotten(k)}
             mine == Mine(t, waited) \ old
             keys == (IF offline THEN {} ELSE {row[i].key : i \in DOMAIN row}) \ mine
             hs   == [k \in keys \cup mine |->
                        IF k \in mine THEN LocalDraft(k, offline)
                        ELSE FromServer(RowOf(k), row[RowOf(k)], row[RowOf(k)].files \ disk)]
             loc  == Restrict(local, DOMAIN local \ old)
  <1>2. /\ t \notin up /\ up' = up \cup {t} /\ held' = [held EXCEPT ![t] = hs]
        /\ screen' = [screen EXCEPT ![t] = IF reopen[t] \in DOMAIN hs THEN reopen[t] ELSE Nowhere]
        /\ local' = Persisted(loc, t, hs, {})
        /\ overrun' = overrun \cup Trampled(t, local') \cup UNION {local[k].words : k \in old}
    BY DEF LoadPage
  <1>3. reqs' = SaveAll(reqs, t, hs, {}, Nowhere)
    BY Zenon DEF LoadPage
  <1>4. DOMAIN hs = keys \cup mine /\ IsTable(hs) /\ \A k \in mine : hs[k] = LocalDraft(k, offline)
    BY DEF IsTable
  <1>5. ASSUME NEW k \in keys \ mine
        PROVE  \E i \in DOMAIN row : row[i].key = k /\ hs[k] = FromServer(i, row[i], row[i].files \ disk)
    <2>1. Row(k) # {}
      BY <1>5 DEF Row
    <2> DEFINE i == RowOf(k)
    <2>2. i \in DOMAIN row /\ row[i].key = k
      BY <2>1, FirstRow
    <2>3. hs[k] = FromServer(i, row[i], row[i].files \ disk)
      BY <1>5
    <2> HIDE DEF hs, i
    <2> QED
      BY <2>2, <2>3
  <1>6. mine \subseteq DOMAIN local /\ mine \subseteq Keys /\ keys \subseteq Keys
    BY DEF Mine, LocalTyped, RowsTyped
  <1>7. \A k \in DOMAIN local : local[k].owner = t => k \in mine \cup old
    BY DEF Mine
  <1>8. old \subseteq DOMAIN local
    BY DEF Mine
  <1>9. /\ DOMAIN loc = DOMAIN local \ old /\ \A k \in DOMAIN loc : loc[k] = local[k]
    BY DEF Restrict
  <1> HIDE DEF hs, keys, mine, old, loc
  <1>10. DOMAIN held[t] = {} /\ gone[t] = {} /\ post[t] = NoPost
    BY <1>2 DEF PagesTyped
  <1>11. held'[t] = hs /\ \A u \in Tab \ {t} : held'[u] = held[u]
    BY <1>2 DEF HeldTyped
  <1>12. \A k \in DOMAIN hs : Comes(t, k)
    <2> SUFFICES ASSUME NEW k \in DOMAIN hs PROVE Loaded(t, k, hs[k])
      BY <1>11 DEF Comes
    <2>1. CASE k \in mine
      BY <1>2, <1>4, <1>6, <2>1 DEF Loaded
    <2>2. CASE k \notin mine
      BY <1>2, <1>4, <1>5, <2>2 DEF Loaded
    <2> QED
      BY <2>1, <2>2
  <1>13. HeldMoves
    BY <1>2, <1>4, <1>10, <1>12, HeldOne
  <1>14. DOMAIN hs \subseteq Keys /\ Keys' = Keys /\ Keys \subseteq Nat
    <2>1. DOMAIN hs \subseteq Keys
      BY <1>4, <1>6
    <2>2. nextkey' = nextkey
      BY <1>1
    <2> QED
      BY <2>1, <2>2 DEF Keys, Counted
  <1>15. /\ screen' \in [Tab -> Nat] /\ (screen'[t] # Nowhere => screen'[t] \in DOMAIN hs)
         /\ \A u \in Tab \ {t} : screen'[u] = screen[u]
    BY <1>2, <1>14 DEF PagesTyped, Nowhere
  <1>16. PagesTyped'
    BY <1>1, <1>2, <1>10, <1>11, <1>14, <1>15 DEF PagesTyped
  <1>17. PostMoves
    BY <1>1, <1>10, <1>15, PostQuiet
  <1>18. ReqMoves /\ ReqEnds
    <2>1. PICK gs, s : gs = {} /\ s = Nowhere
      OBVIOUS
    <2>2. PICK X \in SUBSET DOMAIN hs : X = DOMAIN hs
      OBVIOUS
    <2>5. /\ reqs \subseteq reqs'
          /\ \A q \in reqs' : q \in reqs \/ \E k \in X : q \in SaveDraft(reqs, t, hs, gs, s, k)
      BY <1>3, <2>1, <2>2 DEF SaveAll
    <2>3. \A q \in reqs : q.live => q.tab \in up'
      BY <1>2 DEF ReqsTyped
    <2>4. gs = gone'[t] /\ hs = held'[t] /\ t \in up' /\ post'[t] = NoPost /\ X \subseteq Keys'
      BY <1>1, <1>2, <1>10, <1>11, <1>14, <2>1, <2>2
    <2>6. t \in up' /\ hs = held'[t] /\ gs = gone'[t] /\ X \subseteq Keys'
      BY <2>4
    <2>7. post'[t] # NoPost => s = post'[t].key
      BY <2>4
    <2> QED
      BY <2>2, <2>3, <2>5, <2>6, <2>7, AskMany
  <1>19. IsPersisted(local', loc, t, hs, {})
    BY <1>2, PersistedCopies
  <1>20. LocalMoves
    <2>1. ASSUME NEW k \in DOMAIN local' PROVE CopyStays(k) \/ Copied(t, k)
      <3>1. CASE k \in DOMAIN hs /\ Dirty(hs[k])
        <4>1. local'[k] = CopyOf(t, hs[k])
          BY <1>19, <3>1 DEF IsPersisted
        <4> QED
          BY <1>2, <1>11, <3>1, <4>1 DEF Copied
      <3>2. CASE ~(k \in DOMAIN hs /\ Dirty(hs[k]))
        <4>1. k \in DOMAIN loc /\ local'[k] = loc[k] /\ k \notin DOMAIN hs
          BY <1>19, <2>1, <3>2 DEF IsPersisted
        <4>2. k \in DOMAIN local /\ k \notin old /\ local'[k] = local[k] /\ k \notin mine
          BY <1>4, <1>9, <4>1
        <4>3. local[k].owner # t
          BY <1>7, <4>2
        <4> QED
          BY <1>2, <2>1, <4>2, <4>3 DEF CopyStays
      <3> QED
        BY <3>1, <3>2
    <2>2. ASSUME NEW k \in DOMAIN local PROVE CopyStays(k) \/ CopyGoes(k)
      <3>1. CASE k \in old
        BY <1>2, <3>1 DEF CopyGoes
      <3>2. CASE k \in mine
        <4>1. hs[k].words = local[k].words /\ k \in DOMAIN hs
          BY <1>4, <3>2, RevivedDraft DEF Revived
        <4> QED
          BY <1>11, <4>1 DEF CopyGoes, DraftWords
      <3>3. CASE k \notin old \cup mine
        <4>1. local[k].owner # t
          BY <1>7, <3>3
        <4>2. CASE k \in DOMAIN local' => local'[k].owner = t
          <5>1. local[k].words \subseteq Trampled(t, local')
            BY <4>1, <4>2 DEF Trampled
          <5> QED
            BY <1>2, <5>1 DEF CopyGoes
        <4>3. CASE k \in DOMAIN local' /\ local'[k].owner # t
          <5>1. ~Copied(t, k)
            BY <4>3 DEF Copied, CopyOf
          <5> QED
            BY <2>1, <4>3, <5>1
        <4> QED
          BY <4>2, <4>3
      <3> QED
        BY <3>1, <3>2, <3>3
    <2>3. IsTable(local')
      BY <1>19 DEF IsPersisted
    <2> QED
      BY <2>1, <2>2, <2>3 DEF LocalMoves
  <1>21. overrun \subseteq overrun'
    BY <1>2
  <1> QED
    BY <1>1, <1>13, <1>16, <1>17, <1>18, <1>20, <1>21, DeleteQuiet, GoneQuiet, ListQuiet,
       PastQuiet, CountQuiet, OwnQuiet DEF Moves, RowsQuiet

\* The server's own steps: the others leave the rows alone.
ServerWrites ==
    \/ \E r \in reqs : ServerSaves(r)
    \/ \E t \in Tab, crash \in BOOLEAN : ServerSends(t, crash)
    \/ \E x \in deletes, crash \in BOOLEAN : ServerDeletes(x, crash)
    \/ \E days, readable \in BOOLEAN : Restart(days, readable)

LEMMA StepMoves ==
  ASSUME NEW K, Typed(K), [Next]_vars
  PROVE  Moves \/ ServerWrites
  <1>1. CASE UNCHANGED vars
    <2>1. UNCHANGED <<row, nextid, disk, up, held, screen, gone, nextkey, listing, reqs, deletes, post,
                      local, sent, typed, thrown, letGo, shared, own, unsure, overrun>>
      BY <1>1 DEF vars, server, page, wire, store, history, past
    <2>2. PagesTyped'
      BY <2>1 DEF Typed, PagesTyped, Keys
    <2> QED
      BY <2>1, <2>2, HeldQuiet, ReqQuiet, DeleteQuiet, GoneQuiet, PostQuiet, ListQuiet, LocalQuiet,
         PastQuiet, CountQuiet, OwnQuiet DEF Typed, Moves, RowsQuiet
  <1>2. CASE ServerStep
    <2>1. CASE \E r \in reqs : SaveAnswered(r) \/ SavedNowhere(r) \/ SaveForks(r) \/ SaveFailed(r)
      BY <2>1, SaveAnsweredMoves, SavedNowhereMoves, SaveForksMoves, SaveFailedMoves
    <2> QED
      BY <1>2, <2>1 DEF ServerStep, ServerWrites
  <1>3. CASE Fault
    <2>1. CASE \/ \E r \in reqs : LoseSave(r)
               \/ \E t \in Tab : LoseSend(t) \/ ClosePage(t) \/ CrashPage(t)
               \/ \E t \in Tab, waited \in BOOLEAN : LoadPage(t, waited, TRUE)
               \/ \E x \in deletes : LoseDelete(x)
      BY <2>1, LoseSaveMoves, LoseSendMoves, ClosePageMoves, CrashPageMoves, LoseDeleteMoves,
         LoadPageMoves
    <2> QED
      BY <1>3, <2>1 DEF Fault, ServerWrites
  <1>4. ASSUME NEW t \in Tab, TabStep(t) PROVE Moves
    BY <1>4, AutosaveMoves, PersistStepMoves, PostSendMoves, SendAnsweredMoves, SendFailedMoves,
       LostElsewhereMoves, FetchDraftsMoves, ReconcileMoves, LoadPageMoves DEF TabStep
  <1>5. ASSUME NEW t \in Tab, UserStep(t) PROVE Moves
    BY <1>5, ComposeMoves, WriteMoves, AttachMoves, RemoveChipMoves, MinimizeMoves, SendMoves,
       RestoreMoves, ThrowMoves DEF UserStep
  <1> QED
    BY <1>1, <1>2, <1>3, <1>4, <1>5 DEF Next

----------------------------------------------------------------------------
\* The parts of the state stay what they are.
LEMMA KeysGrow ==
  ASSUME NEW K, Counted(K), Counts, UNCHANGED nextid
  PROVE  Counted(K)' /\ Keys \subseteq Keys' /\ (nextkey' = nextkey + 1 => nextkey \in Keys')
  <1>1. nextkey \in Nat \ {0} /\ nextkey' \in {nextkey, nextkey + 1}
    BY DEF Counted, Counts
  <1>2. typed' \in Nat
    BY DEF Counted, Counts
  <1>3. Counted(K)'
    BY <1>1, <1>2 DEF Counted
  <1>4. Keys \subseteq Keys'
    <2>1. CASE nextkey' = nextkey
      BY <2>1 DEF Keys
    <2>2. CASE nextkey' = nextkey + 1
      BY <1>1, <2>2 DEF Keys
    <2> QED
      BY <1>1, <2>1, <2>2
  <1>5. nextkey' = nextkey + 1 => nextkey \in Keys'
    BY <1>1 DEF Keys
  <1> QED
    BY <1>3, <1>4, <1>5

LEMMA HeldTypedMoves ==
  ASSUME NEW K, Typed(K), Moves
  PROVE  HeldTyped(K)'
  <1> USE DEF Typed
  <1>0. Keys \subseteq Keys' /\ (nextkey' = nextkey + 1 => nextkey \in Keys') /\ nextid' = nextid
    BY KeysGrow DEF Moves, RowsQuiet
  <1> SUFFICES ASSUME NEW t \in Tab, NEW k \in DOMAIN held'[t]
               PROVE  k \in Keys' /\ IsDraft(held'[t][k]) /\ Tagged(K, held'[t][k].id, k)
    BY <1>0 DEF HeldTyped, Moves, HeldMoves, Tagged
  <1> DEFINE d == held[t][k]
             e == held'[t][k]
  <1>1. Tagged(K, Nowhere, k)
    BY DEF Tagged, Counted, Nowhere
  <1>2. ASSUME NEW i \in DOMAIN listing[t].rows, listing[t].rows[i].key = k
        PROVE  /\ k \in Keys /\ IsDraft(listing[t].rows[i].draft) /\ listing[t].rows[i].draft.id = i
               /\ Tagged(K, i, k) /\ i \in Nat /\ listing[t].rows[i].draft.rev \in Nat
    <2>1. PICK x : x = listing[t].rows[i]
      OBVIOUS
    <2>2. i \in 1 .. nextid - 1 /\ x.key \in Keys /\ K[i] = x.key /\ IsDraft(x.draft) /\ x.draft.id = i
      BY <2>1 DEF ListsTyped
    <2>3. x.draft.rev \in Nat /\ i \in Nat /\ Tagged(K, i, x.key)
      BY <2>2 DEF IsDraft, Tagged, Counted
    <2> QED
      BY <1>2, <2>1, <2>2, <2>3
  <1>3. CASE k \in DOMAIN held[t]
    <2>1. Stays(t, k)
      BY <1>3 DEF Moves, HeldMoves, Departs
    <2>2. k \in Keys /\ IsDraft(d) /\ Tagged(K, d.id, k)
      BY <1>3 DEF HeldTyped
    <2>3. CASE Edits(t, k, d, e)
      BY <1>0, <2>2, <2>3 DEF Edits
    <2>4. CASE GetsSaved(t, k, d, e)
      <3>1. PICK r \in reqs : r.key = k /\ r.ans = "saved" /\ e = Saved(d, r)
        BY <2>4 DEF GetsSaved, Answers
      <3>2. r.newid \in Nat \ {0} /\ r.newrev \in Nat /\ Tagged(K, r.newid, k)
        BY <3>1 DEF ReqsTyped, IsReq, Nowhere
      <3>3. PICK c : c = d
        OBVIOUS
      <3> HIDE DEF d
      <3>4. IsDraft(e) /\ e.id = r.newid
        BY <2>2, <3>1, <3>2, <3>3, SavedDraft
      <3> QED
        BY <1>0, <2>2, <3>2, <3>4
    <2>5. CASE GetsCut(t, k, d, e)
      <3>1. IsDraft(e) /\ e.id = Nowhere
        BY <2>2, <2>5, DetachedDraft DEF GetsCut
      <3> QED
        BY <1>0, <1>1, <2>2, <3>1
    <2>6. CASE GetsAdopted(t, k, d, e)
      <3>1. PICK i \in DOMAIN listing[t].rows : listing[t].rows[i].key = k /\ e = Adopted(d, i, listing[t].rows[i])
        BY <2>6 DEF GetsAdopted
      <3>2. d.sig = NoSig
        BY <2>2, <2>6 DEF GetsAdopted, IsDraft
      <3>3. i \in Nat /\ Tagged(K, i, k) /\ listing[t].rows[i].draft.rev \in Nat
        BY <1>2, <3>1
      <3>4. PICK x : x = listing[t].rows[i]
        OBVIOUS
      <3>5. IsDraft(e) /\ e.id = i
        BY <2>2, <3>1, <3>2, <3>3, <3>4, AdoptedDraft
      <3> QED
        BY <1>0, <2>2, <3>3, <3>5
    <2>7. CASE GetsReplaced(t, k, d, e)
      BY <1>0, <1>2, <2>2, <2>7 DEF GetsReplaced
    <2> QED
      BY <2>1, <2>3, <2>4, <2>5, <2>6, <2>7 DEF Stays
  <1>4. CASE k \notin DOMAIN held[t]
    <2>1. Comes(t, k)
      BY <1>4 DEF Moves, HeldMoves
    <2>2. CASE Begun(k, e)
      <3>1. PICK fs, w : e = Draft(Nowhere, 0, w, fs, NoSig)
        BY <2>2 DEF Begun
      <3>2. IsDraft(e) /\ e.id = Nowhere
        <4>1. PICK id \in Nat, rev \in Nat : id = Nowhere /\ rev = 0
          BY DEF Nowhere
        <4> QED
          BY <3>1, <4>1, MadeDraft
      <3> QED
        BY <1>0, <1>1, <2>2, <3>2 DEF Begun
    <2>3. CASE Forked2(t, k, e)
      <3>1. PICK x \in DOMAIN held[t] : e = Detached(held[t][x])
        BY <2>3 DEF Forked2
      <3>2. IsDraft(held[t][x])
        BY DEF HeldTyped
      <3>3. IsDraft(e) /\ e.id = Nowhere
        BY <3>1, <3>2, DetachedDraft
      <3> QED
        BY <1>0, <1>1, <2>3, <3>3 DEF Forked2
    <2>4. CASE Fetched(t, k, e)
      BY <1>0, <1>2, <2>4 DEF Fetched
    <2>5. CASE Loaded(t, k, e)
      <3>1. CASE \E i \in DOMAIN row : row[i].key = k /\ e = FromServer(i, row[i], row[i].files \ disk)
        <4>1. PICK i \in DOMAIN row : row[i].key = k /\ e = FromServer(i, row[i], row[i].files \ disk)
          BY <3>1
        <4>2. i \in Nat \ {0} /\ row[i].rev \in Nat /\ row[i].key \in Keys /\ Tagged(K, i, k)
          BY <4>1 DEF RowsTyped, IsSavedRow, Tagged, Counted
        <4>3. PICK x, ms : x = row[i] /\ ms = row[i].files \ disk
          OBVIOUS
        <4>4. IsDraft(e) /\ e.id = i
          BY <4>1, <4>2, <4>3, FetchedDraft
        <4> QED
          BY <1>0, <4>1, <4>2, <4>4
      <3>2. CASE k \in DOMAIN local /\ \E offline \in BOOLEAN : e = LocalDraft(k, offline)
        <4>1. Revived(k, e)
          BY <3>2, RevivedDraft
        <4>2. k \in Keys /\ Tagged(K, local[k].id, k)
          BY <3>2 DEF LocalTyped
        <4>3. IsDraft(e) /\ Tagged(K, e.id, k)
          BY <4>1, <4>2 DEF Revived, RowsTyped, Tagged, Counted
        <4> QED
          BY <1>0, <4>2, <4>3
      <3> QED
        BY <2>5, <3>1, <3>2 DEF Loaded
    <2> QED
      BY <2>1, <2>2, <2>3, <2>4, <2>5 DEF Comes
  <1> QED
    BY <1>3, <1>4

\* A request that stays out is one of a draft that is held, or done with.
LEMMA StaysAsked ==
  ASSUME NEW K, Typed(K), Moves, NEW r \in reqs, r.live, r.tab \in up',
         r \in reqs' \/ \E q \in reqs' : Lost(r, q)
  PROVE  r.key \in DOMAIN held'[r.tab] \cup gone'[r.tab]
  <1> USE DEF Typed
  <1> DEFINE t == r.tab
             k == r.key
  <1>1. t \in Tab /\ t \in up /\ k \in DOMAIN held[t] \cup gone[t]
    BY DEF ReqsTyped, PagesTyped
  <1>2. CASE k \in gone[t]
    BY <1>1, <1>2 DEF Moves, GoneMoves
  <1>3. CASE k \in DOMAIN held[t] /\ r \in reqs'
    <2>1. Stays(t, k) \/ Departs(t, k)
      BY <1>1, <1>3 DEF Moves, HeldMoves
    <2>2. ~Forks(t, k, held[t][k])
      <3>1. SUFFICES ASSUME Forks(t, k, held[t][k]) PROVE FALSE
        OBVIOUS
      <3>2. PICK q \in reqs \ reqs' : Answers(q, t, k)
        BY <3>1 DEF Forks
      <3>3. q = r
        BY <3>2 DEF ReqsTyped
      <3> QED
        BY <1>3, <3>2, <3>3
    <2>3. ~LeftWith(t, held[t][k])
      BY DEF LeftWith
    <2> QED
      BY <2>1, <2>2, <2>3 DEF Stays, Departs, ThrownAway, SentOff, LetGo
  <1>4. CASE k \in DOMAIN held[t] /\ \E q \in reqs' : Lost(r, q)
    BY <1>4 DEF Lost
  <1> QED
    BY <1>1, <1>2, <1>3, <1>4

LEMMA ReqsTypedMoves ==
  ASSUME NEW K, Typed(K), Moves, HeldTyped(K)'
  PROVE  ReqsTyped(K)'
  <1> USE DEF Typed
  <1>0. Keys \subseteq Keys' /\ nextid' = nextid /\ up' \subseteq Tab
    BY KeysGrow DEF Moves, RowsQuiet, PagesTyped
  <1> DEFINE Good(q) == /\ IsReq(q) /\ q.key \in Keys' /\ Tagged(K, q.id, q.key)' /\ Tagged(K, q.newid, q.key)'
                        /\ q.live => q.tab \in up' /\ q.key \in DOMAIN held'[q.tab] \cup gone'[q.tab]
  <1>1. ASSUME NEW r \in reqs PROVE IsReq(r) /\ r.key \in Keys' /\ Tagged(K, r.id, r.key)' /\ Tagged(K, r.newid, r.key)'
    BY <1>0 DEF ReqsTyped, Tagged
  <1>2. ASSUME NEW r, NEW q, IsReq(r), Lost(r, q)
        PROVE  /\ IsReq(q) /\ q.key = r.key /\ q.tab = r.tab /\ q.live = r.live /\ q.id = r.id /\ q.newid = r.newid
               /\ q.ans = "lost" /\ r.live
    <2>1. q = [tab |-> r.tab, live |-> r.live, key |-> r.key, id |-> r.id, base |-> r.base,
               words |-> r.words, files |-> r.files, blind |-> r.blind, ans |-> "lost",
               newid |-> r.newid, newrev |-> r.newrev, missing |-> r.missing]
      BY <1>2 DEF Lost, IsReq
    <2> QED
      BY <1>2, <2>1 DEF Lost, IsReq
  <1>3. ASSUME NEW r, NEW q, IsReq(r), Strays(r, q)
        PROVE  IsReq(q) /\ q.key = r.key /\ ~q.live /\ q.id = r.id /\ q.newid = r.newid
    <2>1. q = [tab |-> r.tab, live |-> FALSE, key |-> r.key, id |-> r.id, base |-> r.base,
               words |-> r.words, files |-> r.files, blind |-> r.blind, ans |-> r.ans,
               newid |-> r.newid, newrev |-> r.newrev, missing |-> r.missing]
      BY <1>3 DEF Strays, IsReq
    <2> QED
      BY <1>3, <2>1 DEF IsReq
  <1>4. ASSUME NEW q \in reqs', NEW t \in Tab, NEW k, Asks(t, k, q)
        PROVE  Good(q) /\ \A r \in reqs' : Answers(r, q.tab, q.key) => r = q
    <2>1. PICK d : d = held'[t][k]
      OBVIOUS
    <2>2. IsDraft(d) /\ k \in Keys' /\ Tagged(K, d.id, k)' /\ q = Asking(t, k, d) /\ t \in up' /\ k \in DOMAIN held'[t]
      BY <1>4, <2>1 DEF Asks, HeldTyped
    <2>3. IsReq(q) /\ q.key = k /\ q.id = d.id /\ q.newid = 0 /\ q.tab = t
      BY <2>2 DEF IsDraft, IsReq, Asking
    <2>4. Tagged(K, 0, k)'
      BY <1>0 DEF Tagged, Counted, Nowhere
    <2> QED
      BY <1>4, <2>2, <2>3, <2>4 DEF Asks
  <1>5. ASSUME NEW q \in reqs' PROVE Good(q)
    <2>1. CASE q \in reqs /\ (q.live => q.tab \in up')
      BY <1>1, <2>1, StaysAsked
    <2>2. CASE \E r \in reqs \ reqs' : Lost(r, q)
      <3>1. PICK r \in reqs \ reqs' : Lost(r, q)
        BY <2>2
      <3>2. /\ IsReq(r) /\ r.key \in Keys' /\ Tagged(K, r.id, r.key)' /\ Tagged(K, r.newid, r.key)'
        BY <1>1
      <3>3. /\ IsReq(q) /\ q.key = r.key /\ q.tab = r.tab /\ q.live = r.live /\ q.id = r.id /\ q.newid = r.newid /\ r.live
        BY <1>2, <3>1, <3>2
      <3>4. r.tab \in up'
        <4>1. r.tab \in Tab /\ r.tab \in up /\ r.key \in DOMAIN held[r.tab] \cup gone[r.tab]
          BY <3>3 DEF ReqsTyped, PagesTyped
        <4>2. r.key \in DOMAIN held'[r.tab] \cup gone'[r.tab]
          BY <3>1, <4>1 DEF Lost
        <4>3. PagesTyped'
          BY DEF Moves
        <4> QED
          BY <4>1, <4>2, <4>3 DEF PagesTyped
      <3>5. r.key \in DOMAIN held'[r.tab] \cup gone'[r.tab]
        BY <3>1, <3>3, <3>4, StaysAsked
      <3> QED
        BY <3>2, <3>3, <3>4, <3>5
    <2>3. CASE \E r \in reqs \ reqs' : Strays(r, q)
      BY <1>1, <1>3, <2>3
    <2>4. CASE \E t \in Tab, k \in Keys' : Asks(t, k, q)
      BY <1>4, <2>4
    <2> QED
      BY <2>1, <2>2, <2>3, <2>4 DEF Moves, ReqMoves
  <1>6. ASSUME NEW p \in reqs', NEW q \in reqs', p.live, Answers(q, p.tab, p.key) PROVE p = q
    <2>1. CASE \E t \in Tab, k \in Keys' : Asks(t, k, p)
      BY <1>4, <1>6, <2>1
    <2>2. CASE \E t \in Tab, k \in Keys' : Asks(t, k, q)
      BY <1>4, <1>6, <2>2 DEF Answers
    <2>3. ASSUME NEW x \in reqs', x.live, ~ \E t \in Tab, k \in Keys' : Asks(t, k, x)
          PROVE  \E r \in reqs : /\ r.live /\ r.tab = x.tab /\ r.key = x.key
                                 /\ x = r \/ (r \notin reqs' /\ x = [r EXCEPT !.ans = "lost"])
      <3>1. CASE x \in reqs
        BY <2>3, <3>1
      <3>2. CASE \E r \in reqs \ reqs' : Lost(r, x)
        BY <1>1, <1>2, <3>2 DEF Lost
      <3>3. CASE \E r \in reqs \ reqs' : Strays(r, x)
        BY <1>1, <1>3, <2>3, <3>3
      <3> QED
        BY <2>3, <3>1, <3>2, <3>3 DEF Moves, ReqMoves
    <2>4. CASE /\ ~ \E t \in Tab, k \in Keys' : Asks(t, k, p)
               /\ ~ \E t \in Tab, k \in Keys' : Asks(t, k, q)
      <3>1. PICK r \in reqs : /\ r.live /\ r.tab = p.tab /\ r.key = p.key
                              /\ p = r \/ (r \notin reqs' /\ p = [r EXCEPT !.ans = "lost"])
        BY <1>6, <2>3, <2>4
      <3>2. PICK s \in reqs : /\ s.live /\ s.tab = q.tab /\ s.key = q.key
                              /\ q = s \/ (s \notin reqs' /\ q = [s EXCEPT !.ans = "lost"])
        BY <1>6, <2>3, <2>4 DEF Answers
      <3>3. r = s
        BY <1>6, <3>1, <3>2 DEF ReqsTyped, Answers
      <3> QED
        BY <3>1, <3>2, <3>3
    <2> QED
      BY <2>1, <2>2, <2>4
  <1> QED
    BY <1>5, <1>6 DEF ReqsTyped

LEMMA DeletesTypedMoves ==
  ASSUME NEW K, Typed(K), Moves
  PROVE  DeletesTyped(K)'
  <1> USE DEF Typed
  <1>0. nextid' = nextid
    BY DEF Moves, RowsQuiet
  <1> SUFFICES ASSUME NEW x \in deletes'
               PROVE  /\ x = [id |-> x.id, rev |-> x.rev, key |-> x.key] /\ x.rev \in Nat
                      /\ x.id # Nowhere /\ Tagged(K, x.id, x.key)
    BY <1>0 DEF DeletesTyped, Tagged
  <1>1. CASE x \in deletes
    BY <1>1 DEF DeletesTyped
  <1>2. CASE \E t \in Tab : \E k \in DOMAIN held[t] :
               held[t][k].id # Nowhere /\ x = [id |-> held[t][k].id, rev |-> Seen(held[t][k]), key |-> k]
    <2>1. PICK t \in Tab : \E k \in DOMAIN held[t] :
               held[t][k].id # Nowhere /\ x = [id |-> held[t][k].id, rev |-> Seen(held[t][k]), key |-> k]
      BY <1>2
    <2>2. PICK k \in DOMAIN held[t] :
               held[t][k].id # Nowhere /\ x = [id |-> held[t][k].id, rev |-> Seen(held[t][k]), key |-> k]
      BY <2>1
    <2>3. IsDraft(held[t][k]) /\ Tagged(K, held[t][k].id, k)
      BY DEF HeldTyped
    <2>4. Seen(held[t][k]) \in Nat
      BY <2>3 DEF Seen, IsDraft
    <2> QED
      BY <2>2, <2>3, <2>4
  <1>3. CASE \E r \in reqs \ reqs' : r.ans = "saved" /\ x = [id |-> r.newid, rev |-> r.newrev, key |-> r.key]
    BY <1>3 DEF ReqsTyped, IsReq
  <1> QED
    BY <1>1, <1>2, <1>3 DEF Moves, DeleteMoves

LEMMA ListsTypedMoves ==
  ASSUME NEW K, Typed(K), Moves
  PROVE  ListsTyped(K)'
  <1> USE DEF Typed
  <1>0. Keys \subseteq Keys' /\ nextid' = nextid /\ row' = row
    BY KeysGrow DEF Moves, RowsQuiet
  <1> SUFFICES ASSUME NEW t \in Tab
               PROVE  /\ listing'[t] = [ids |-> listing'[t].ids, rows |-> listing'[t].rows]
                      /\ listing'[t].ids \subseteq 1 .. nextid - 1
                      /\ listing'[t].ids \cap DOMAIN row \subseteq DOMAIN listing'[t].rows
                      /\ \A i \in DOMAIN listing'[t].rows :
                           LET x == listing'[t].rows[i] IN
                           /\ i \in 1 .. nextid - 1 /\ x.key \in Keys /\ K[i] = x.key
                           /\ IsDraft(x.draft) /\ x.draft.id = i /\ ~x.draft.blind
    BY <1>0 DEF ListsTyped, Moves, ListMoves
  <1>1. CASE listing'[t] = listing[t]
    BY <1>1 DEF ListsTyped
  <1>2. CASE listing'[t] = NoList
    BY <1>2 DEF NoList
  <1>3. CASE listing'[t] = AnswerOf(t)
    <2>1. PICK h : h = AnswerOf(t)
      OBVIOUS
    <2>2. /\ h = [ids |-> h.ids, rows |-> h.rows] /\ h.ids = {held[t][k].id : k \in DOMAIN held[t]} \ {Nowhere}
          /\ DOMAIN h.rows = DOMAIN row
      BY <2>1 DEF AnswerOf
    <2>3. \A i \in DOMAIN row : h.rows[i].key = row[i].key /\ h.rows[i].draft = FromServer(i, row[i], row[i].files \ disk)
      BY <2>1 DEF AnswerOf
    <2>4. ASSUME NEW i \in DOMAIN row
          PROVE  /\ i \in 1 .. nextid - 1 /\ h.rows[i].key \in Keys /\ K[i] = h.rows[i].key
                 /\ IsDraft(h.rows[i].draft) /\ h.rows[i].draft.id = i /\ ~h.rows[i].draft.blind
      <3>1. i \in 1 .. nextid - 1 /\ row[i].key \in Keys /\ K[i] = row[i].key /\ row[i].rev \in Nat /\ i \in Nat \ {0}
        BY DEF RowsTyped, IsSavedRow, Counted
      <3>2. PICK x, ms : x = row[i] /\ ms = row[i].files \ disk
        OBVIOUS
      <3>3. h.rows[i].draft = FromServer(i, x, ms)
        BY <2>3, <3>2
      <3>4. IsDraft(h.rows[i].draft) /\ h.rows[i].draft.id = i /\ ~h.rows[i].draft.blind
        BY <3>1, <3>2, <3>3, FetchedDraft
      <3> QED
        BY <2>3, <3>1, <3>4
    <2>5. h.ids \subseteq 1 .. nextid - 1
      BY <2>2 DEF HeldTyped, Tagged, Counted, Nowhere
    <2> QED
      BY <1>3, <2>1, <2>2, <2>4, <2>5
  <1> QED
    BY <1>1, <1>2, <1>3 DEF Moves, ListMoves

LEMMA LocalTypedMoves ==
  ASSUME NEW K, Typed(K), Moves, HeldTyped(K)'
  PROVE  LocalTyped(K)'
  <1> USE DEF Typed
  <1>0. Keys \subseteq Keys' /\ nextid' = nextid
    BY KeysGrow DEF Moves, RowsQuiet
  <1> SUFFICES ASSUME NEW k \in DOMAIN local'
               PROVE  k \in Keys' /\ IsCopy(local'[k]) /\ Tagged(K, local'[k].id, k)
    BY <1>0 DEF LocalTyped, Moves, LocalMoves, Tagged
  <1>1. CASE CopyStays(k)
    BY <1>0, <1>1 DEF CopyStays, LocalTyped
  <1>2. ASSUME NEW t \in Tab, Copied(t, k) PROVE k \in Keys' /\ IsCopy(local'[k]) /\ Tagged(K, local'[k].id, k)
    <2>1. PICK d : local'[k] = CopyOf(t, d) /\ IsDraft(d) /\ k \in Keys' /\ Tagged(K, d.id, k)
      <3>1. CASE k \in DOMAIN held'[t] /\ local'[k] = CopyOf(t, held'[t][k])
        <4>1. IsDraft(held'[t][k]) /\ k \in Keys' /\ Tagged(K, held'[t][k].id, k)
          BY <1>0, <3>1 DEF HeldTyped, Tagged
        <4> QED
          BY <3>1, <4>1
      <3>2. CASE k \in DOMAIN held[t] /\ local'[k] = CopyOf(t, held[t][k])
        <4>1. IsDraft(held[t][k]) /\ k \in Keys' /\ Tagged(K, held[t][k].id, k)
          BY <1>0, <3>2 DEF HeldTyped
        <4> QED
          BY <3>2, <4>1
      <3> QED
        BY <1>2, <3>1, <3>2 DEF Copied
    <2> QED
      BY <2>1 DEF CopyOf, IsCopy, IsDraft
  <1> QED
    BY <1>1, <1>2 DEF Moves, LocalMoves

LEMMA PostsTypedMoves ==
  ASSUME NEW K, Typed(K), Moves, HeldTyped(K)'
  PROVE  PostsTyped(K)'
  <1> USE DEF Typed
  <1>0. nextid' = nextid /\ PagesTyped'
    BY DEF Moves, RowsQuiet
  <1> SUFFICES ASSUME NEW t \in Tab, post'[t] # NoPost
               PROVE  /\ IsPost(post'[t]) /\ post'[t].key \in DOMAIN held'[t] /\ post'[t].key = screen'[t]
                      /\ Tagged(K, post'[t].id, post'[t].key)
                      /\ post'[t].phase # "waits" => \A r \in reqs' : ~Answers(r, t, post'[t].key)
    BY <1>0 DEF PostsTyped, Tagged, Moves, PostMoves
  <1> DEFINE p == post[t]
             q == post'[t]
  <1>1. q.key = screen'[t]
    BY DEF Moves, PostMoves
  <1>2. ASSUME IsPost(q), q.key # Nowhere PROVE q.key \in DOMAIN held'[t]
    BY <1>0, <1>1, <1>2 DEF PagesTyped
  <1>3. ASSUME p # NoPost, q.key = p.key, p.phase # "waits", NEW r \in reqs', Answers(r, t, q.key)
        PROVE  FALSE
    <2>1. \A x \in reqs : ~Answers(x, t, p.key)
      BY <1>3 DEF PostsTyped
    <2>2. ~ \E x \in reqs \ reqs' : Lost(x, r)
      BY <1>3, <2>1 DEF Lost, ReqsTyped, IsReq, Answers
    <2>3. ~ \E x \in reqs \ reqs' : Strays(x, r)
      BY <1>3 DEF Strays, ReqsTyped, IsReq, Answers
    <2>4. ~ \E u \in Tab, k \in Keys' : Asks(u, k, r)
      BY <1>3 DEF Asks, Asking, Answers
    <2> QED
      BY <1>3, <2>1, <2>2, <2>3, <2>4 DEF Moves, ReqMoves
  <1>4. CASE q = p
    <2>1. IsPost(q) /\ q.key # Nowhere /\ Tagged(K, q.id, q.key)
      BY <1>4 DEF PostsTyped, HeldTyped, Keys, Counted, Nowhere
    <2> QED
      BY <1>1, <1>2, <1>3, <1>4, <2>1
  <1>5. CASE p = NoPost /\ Presses(t)
    <2>1. q = [phase |-> "waits", key |-> screen[t], words |-> held[t][screen[t]].words,
               files |-> held[t][screen[t]].files, id |-> Nowhere, rev |-> 0, ans |-> "none"]
      BY <1>5 DEF Presses
    <2>2. IsPost(q) /\ q.phase = "waits" /\ q.id = Nowhere /\ q.key = screen[t]
      BY <2>1 DEF IsPost, Nowhere
    <2>3. Tagged(K, q.id, q.key)
      BY <2>2 DEF Tagged, Counted, Nowhere
    <2> QED
      BY <1>1, <1>2, <1>5, <2>2, <2>3 DEF Presses
  <1>6. ASSUME p # NoPost
        PROVE  /\ p = [phase |-> p.phase, key |-> p.key, words |-> p.words, files |-> p.files, id |-> p.id,
                       rev |-> p.rev, ans |-> p.ans]
               /\ p.id \in Nat /\ p.rev \in Nat /\ p.key \in DOMAIN held[t] /\ p.key # Nowhere
               /\ Tagged(K, p.id, p.key) /\ IsDraft(held[t][p.key]) /\ Tagged(K, held[t][p.key].id, p.key)
               /\ p.phase = "waits" => p.id = Nowhere
    BY <1>6 DEF PostsTyped, IsPost, HeldTyped, Keys, Counted, Nowhere
  <1>7. CASE p # NoPost /\ GoesOut(t)
    <2>1. PICK d : d = held[t][p.key]
      OBVIOUS
    <2>2. q = [phase |-> "out", key |-> p.key, words |-> p.words, files |-> p.files, id |-> d.id,
               rev |-> Seen(d), ans |-> p.ans]
      BY <1>6, <1>7, <2>1 DEF GoesOut
    <2>3. d.id \in Nat /\ Seen(d) \in Nat /\ Tagged(K, d.id, p.key)
      BY <1>6, <1>7, <2>1 DEF IsDraft, Seen
    <2>4. IsPost(q) /\ q.key = p.key /\ q.id = d.id
      BY <2>2, <2>3 DEF IsPost
    <2>5. ASSUME NEW r \in reqs', Answers(r, t, q.key) PROVE FALSE
      <3>1. \A x \in reqs : ~Answers(x, t, p.key)
        BY <1>7 DEF GoesOut
      <3>2. ~ \E x \in reqs \ reqs' : Lost(x, r)
        BY <2>4, <2>5, <3>1 DEF Lost, ReqsTyped, IsReq, Answers
      <3>3. ~ \E x \in reqs \ reqs' : Strays(x, r)
        BY <2>5 DEF Strays, ReqsTyped, IsReq, Answers
      <3>4. ~ \E u \in Tab, k \in Keys' : Asks(u, k, r)
        BY <2>5 DEF Asks, Asking, Answers
      <3> QED
        BY <2>4, <2>5, <3>1, <3>2, <3>3, <3>4 DEF Moves, ReqMoves
    <2> QED
      BY <1>1, <1>2, <1>6, <1>7, <2>3, <2>4, <2>5
  <1>8. CASE p # NoPost /\ GoesMissing(t)
    <2>1. q = [phase |-> "answered", key |-> p.key, words |-> p.words, files |-> p.files, id |-> p.id,
               rev |-> p.rev, ans |-> "lost"]
      BY <1>6, <1>8 DEF GoesMissing
    <2>2. IsPost(q) /\ q.key = p.key /\ q.id = p.id
      BY <1>6, <1>8, <2>1 DEF IsPost
    <2> QED
      BY <1>1, <1>2, <1>3, <1>6, <1>8, <2>2 DEF GoesMissing
  <1>9. CASE p # NoPost /\ GoesOn(t)
    <2>1. q = [phase |-> p.phase, key |-> nextkey, words |-> p.words, files |-> p.files, id |-> p.id,
               rev |-> p.rev, ans |-> p.ans]
      BY <1>6, <1>9 DEF GoesOn
    <2>2. p.phase = "waits" /\ p.id = Nowhere
      BY <1>6, <1>9 DEF GoesOn, PostsTyped
    <2>3. nextkey \in DOMAIN held'[t] /\ Tagged(K, Nowhere, nextkey)
      BY <1>9 DEF GoesOn, Forks, Tagged, Counted, Nowhere
    <2>4. IsPost(q) /\ q.key = nextkey /\ q.phase = "waits" /\ q.id = Nowhere
      BY <1>6, <1>9, <2>1, <2>2 DEF IsPost
    <2> QED
      BY <1>1, <2>3, <2>4
  <1> QED
    BY <1>4, <1>5, <1>7, <1>8, <1>9 DEF Moves, PostMoves

LEMMA TypedMoves ==
  ASSUME NEW K, Typed(K), Moves
  PROVE  Typed(K)'
  <1>1. Counted(K)' /\ Keys \subseteq Keys'
    BY KeysGrow DEF Typed, Moves, RowsQuiet
  <1>2. RowsTyped(K)'
    BY <1>1 DEF Typed, RowsTyped, Moves, RowsQuiet
  <1>3. HeldTyped(K)'
    BY HeldTypedMoves
  <1> QED
    BY <1>1, <1>2, <1>3, ReqsTypedMoves, DeletesTypedMoves, PostsTypedMoves, ListsTypedMoves,
       LocalTypedMoves DEF Typed, Moves

----------------------------------------------------------------------------
\* The server's steps: the ids given out keep their keys.
Agrees(K, L) == /\ nextid' \in {nextid, nextid + 1} /\ L \in [Nat -> Nat]
                /\ \A i \in 0 .. nextid - 1 : L[i] = K[i]

\* What a step of the server leaves alone.
Aside == UNCHANGED <<up, held, screen, gone, nextkey, listing, local, typed>>

LEMMA TagsKept ==
  ASSUME NEW K, Counted(K), NEW L, Agrees(K, L), Aside
  PROVE  /\ Counted(L)' /\ Keys' = Keys
         /\ \A i \in 1 .. nextid - 1 : i \in 1 .. nextid' - 1 /\ L[i] = K[i]
         /\ \A i, k : Tagged(K, i, k) => i \in 0 .. nextid' - 1 /\ (i # Nowhere => L[i] = k)
  <1>1. nextid \in Nat \ {0} /\ nextid' \in Nat \ {0}
    BY DEF Counted, Agrees
  <1>2. \A i \in 0 .. nextid - 1 : i \in 0 .. nextid' - 1
    <2>1. CASE nextid' = nextid
      BY <2>1
    <2>2. CASE nextid' = nextid + 1
      BY <1>1, <2>2
    <2> QED
      BY <2>1, <2>2 DEF Agrees
  <1>3. \A i \in 1 .. nextid - 1 : i \in 0 .. nextid - 1 /\ i # 0
    BY <1>1
  <1>4. \A i \in 1 .. nextid - 1 : i \in 1 .. nextid' - 1 /\ L[i] = K[i]
    <2> SUFFICES ASSUME NEW i \in 1 .. nextid - 1 PROVE i \in 1 .. nextid' - 1 /\ L[i] = K[i]
      OBVIOUS
    <2>1. i \in 0 .. nextid - 1 /\ i # 0 /\ i \in 0 .. nextid' - 1
      BY <1>2, <1>3
    <2>2. i \in 1 .. nextid' - 1
      <3>1. PICK n \in Nat : n = nextid'
        BY <1>1
      <3>2. i \in 0 .. n - 1 /\ i # 0
        BY <2>1, <3>1
      <3>3. i \in 1 .. n - 1
        BY <3>2
      <3> QED
        BY <3>1, <3>3
    <2>3. L[i] = K[i]
      BY <2>1 DEF Agrees
    <2> QED
      BY <2>2, <2>3
  <1>5. \A i, k : Tagged(K, i, k) => i \in 0 .. nextid' - 1 /\ (i # Nowhere => L[i] = k)
    BY <1>2 DEF Tagged, Agrees
  <1>6. Counted(L)' /\ Keys' = Keys
    BY <1>1 DEF Counted, Agrees, Aside, Keys
  <1> QED
    BY <1>4, <1>5, <1>6

LEMMA AsideTyped ==
  ASSUME NEW K, Typed(K), NEW L, Agrees(K, L), Aside,
         \A i \in DOMAIN row' : i \in DOMAIN row \/ i >= nextid
  PROVE  Counted(L)' /\ HeldTyped(L)' /\ ListsTyped(L)' /\ LocalTyped(L)'
  <1> USE DEF Typed
  <1>1. /\ Counted(L)' /\ Keys' = Keys
        /\ \A i \in 1 .. nextid - 1 : i \in 1 .. nextid' - 1 /\ L[i] = K[i]
        /\ \A i, k : Tagged(K, i, k) => i \in 0 .. nextid' - 1 /\ (i # Nowhere => L[i] = k)
    BY TagsKept
  <1>2. HeldTyped(L)'
    <2>1. ASSUME NEW t \in Tab, NEW k \in DOMAIN held[t]
          PROVE  Tagged(L, held[t][k].id, k)'
      <3>1. PICK i : i = held[t][k].id
        OBVIOUS
      <3>2. Tagged(K, i, k)
        BY <3>1 DEF HeldTyped
      <3>3. Tagged(L, i, k)'
        BY <1>1, <3>2 DEF Tagged
      <3> QED
        BY <3>1, <3>3 DEF Aside, Tagged
    <2> QED
      BY <1>1, <2>1 DEF HeldTyped, Aside
  <1>3. ListsTyped(L)'
    <2>1. ASSUME NEW t \in Tab
          PROVE  /\ listing[t].ids \subseteq 1 .. nextid' - 1
                 /\ listing[t].ids \cap DOMAIN row' \subseteq DOMAIN listing[t].rows
                 /\ \A i \in DOMAIN listing[t].rows : i \in 1 .. nextid' - 1 /\ L[i] = listing[t].rows[i].key
      <3>1. \A i \in 1 .. nextid - 1 : ~(i >= nextid)
        BY DEF Counted
      <3> QED
        BY <1>1, <3>1 DEF ListsTyped
    <2> QED
      BY <1>1, <2>1 DEF ListsTyped, Aside
  <1>4. LocalTyped(L)'
    <2>1. ASSUME NEW k \in DOMAIN local
          PROVE  Tagged(L, local[k].id, k)'
      <3>1. PICK i : i = local[k].id
        OBVIOUS
      <3>2. Tagged(K, i, k)
        BY <3>1 DEF LocalTyped
      <3>3. Tagged(L, i, k)'
        BY <1>1, <3>2 DEF Tagged
      <3> QED
        BY <3>1, <3>3 DEF Aside, Tagged
    <2> QED
      BY <1>1, <2>1 DEF LocalTyped, Aside
  <1> QED
    BY <1>1, <1>2, <1>3, <1>4

\* Rows that only go leave everything else what it was.
LEMMA RowsGoTyped ==
  ASSUME NEW K, Typed(K), Aside, UNCHANGED <<nextid, own>>, NEW X, row' = Restrict(row, DOMAIN row \ X),
         deletes' \subseteq deletes, reqs' = reqs, PostsTyped(K)', \A t \in Tab \ up : post'[t] = NoPost
  PROVE  Typed(K)'
  <1> USE DEF Typed
  <1>1. Agrees(K, K)
    BY DEF Agrees, Counted
  <1>2. IsTable(row') /\ DOMAIN row' \subseteq DOMAIN row /\ \A i \in DOMAIN row' : row'[i] = row[i]
    BY DEF Restrict, IsTable
  <1>3. Counted(K)' /\ HeldTyped(K)' /\ ListsTyped(K)' /\ LocalTyped(K)'
    BY <1>1, <1>2, AsideTyped
  <1>4. RowsTyped(K)'
    BY <1>2 DEF RowsTyped, Aside, Keys
  <1>5. PagesTyped'
    BY DEF PagesTyped, Aside, Keys
  <1>6. ReqsTyped(K)' /\ DeletesTyped(K)'
    BY DEF ReqsTyped, DeletesTyped, Aside, Keys, Tagged
  <1> QED
    BY <1>3, <1>4, <1>5, <1>6

LEMMA ServerSendsTyped ==
  ASSUME NEW K, Typed(K), NEW t \in Tab, NEW crash, ServerSends(t, crash)
  PROVE  Typed(K)'
  <1>1. PICK a : post' = [post EXCEPT ![t].phase = "answered", ![t].ans = a]
    BY DEF ServerSends
  <1>2. Aside /\ UNCHANGED <<nextid, own>> /\ deletes' = deletes /\ reqs' = reqs /\ post[t].phase = "out"
    BY DEF ServerSends, Aside, page, store
  <1>3. post[t] # NoPost /\ t \in up
    BY <1>2 DEF NoPost, Typed, PagesTyped
  <1>4. PICK p : p = post[t]
    OBVIOUS
  <1>5. p = [phase |-> p.phase, key |-> p.key, words |-> p.words, files |-> p.files, id |-> p.id,
             rev |-> p.rev, ans |-> p.ans] /\ IsPost(p)
    BY <1>3, <1>4 DEF Typed, PostsTyped, IsPost
  <1>6. post'[t] = [phase |-> "answered", key |-> p.key, words |-> p.words, files |-> p.files, id |-> p.id,
                    rev |-> p.rev, ans |-> a]
    BY <1>1, <1>4, <1>5 DEF Typed, PostsTyped
  <1>7. post' = [u \in Tab |-> post'[u]] /\ \A u \in Tab \ {t} : post'[u] = post[u]
    BY <1>1 DEF Typed, PostsTyped
  <1>8. PostsTyped(K)'
    <2>1. IsPost(post'[t]) /\ post'[t].key = p.key /\ post'[t].id = p.id
      BY <1>5, <1>6 DEF IsPost
    <2> QED
      BY <1>2, <1>3, <1>4, <1>7, <2>1 DEF Typed, PostsTyped, Aside, Tagged
  <1>9. PICK X : row' = Restrict(row, DOMAIN row \ X)
    <2>1. CASE post[t].files \subseteq disk
      BY <2>1 DEF ServerSends
    <2>2. CASE ~(post[t].files \subseteq disk)
      <3>1. row' = row
        BY <2>2 DEF ServerSends
      <3>2. row' = Restrict(row, DOMAIN row \ {})
        BY <3>1 DEF Restrict, Typed, RowsTyped, IsTable
      <3> QED
        BY <3>2
    <2> QED
      BY <2>1, <2>2
  <1>10. \A u \in Tab \ up : post'[u] = NoPost
    BY <1>3, <1>7 DEF Typed, PagesTyped
  <1> QED
    BY <1>2, <1>8, <1>9, <1>10, RowsGoTyped

LEMMA ServerDeletesTyped ==
  ASSUME NEW K, Typed(K), NEW x \in deletes, NEW crash, ServerDeletes(x, crash)
  PROVE  Typed(K)'
  <1>1. /\ Aside /\ UNCHANGED <<nextid, own>> /\ deletes' \subseteq deletes /\ reqs' = reqs /\ post' = post
        /\ row' = Restrict(row, DOMAIN row \ (DOMAIN row \cap {x.id}))
    BY DEF ServerDeletes, Aside, page, store
  <1>2. PostsTyped(K)' /\ \A t \in Tab \ up : post'[t] = NoPost
    BY <1>1 DEF Typed, PostsTyped, PagesTyped, Aside, Tagged
  <1> QED
    BY <1>1, <1>2, RowsGoTyped

LEMMA RestartTyped ==
  ASSUME NEW K, Typed(K), NEW days, NEW readable, Restart(days, readable)
  PROVE  Typed(K)'
  <1>1. Aside /\ UNCHANGED <<row, nextid, own, deletes, reqs, post>>
    BY DEF Restart, Aside, page, wire, store
  <1>2. Counted(K)' /\ RowsTyped(K)' /\ HeldTyped(K)' /\ PagesTyped'
    BY <1>1 DEF Aside, Typed, Counted, RowsTyped, HeldTyped, PagesTyped, Keys, Tagged
  <1>3. ReqsTyped(K)' /\ DeletesTyped(K)' /\ PostsTyped(K)'
    BY <1>1 DEF Aside, Typed, ReqsTyped, DeletesTyped, PostsTyped, Keys, Tagged
  <1>4. ListsTyped(K)' /\ LocalTyped(K)'
    BY <1>1 DEF Aside, Typed, ListsTyped, LocalTyped, Keys, Tagged
  <1> QED
    BY <1>2, <1>3, <1>4 DEF Typed

\* A save reaches the server: it is refused, or it makes or replaces a row.
Answered(r, a, id, rev, ms) == [r EXCEPT !.ans = a, !.newid = id, !.newrev = rev, !.missing = ms]

Refuses(r) ==
    /\ r.id # Nowhere /\ Refusal(r) \in {"404", "409"} /\ UNCHANGED <<row, nextid, own, overrun>>
    /\ reqs' = Answer(r, reqs, [r EXCEPT !.ans = Refusal(r)])
Takes(r, id, rev) ==
    /\ \/ r.id = Nowhere /\ id = nextid /\ rev = 1 /\ nextid' = nextid + 1
       \/ r.id # Nowhere /\ id = r.id /\ id \in DOMAIN row /\ row[id].rev = r.base /\ rev = r.base + 1 /\ nextid' = nextid
    /\ row' = Put(row, id, [rev |-> rev, words |-> r.words, files |-> r.files, key |-> r.key])
    /\ own' = [t \in Tab |-> IF t = r.tab /\ r.live THEN own[t] \cup {id} ELSE own[t] \ {id}]
    /\ reqs' = Answer(r, reqs, Answered(r, "saved", id, rev, r.files \ disk))
    /\ overrun' = IF r.blind /\ r.id # Nowhere THEN overrun \cup (row[id].words \ r.words) ELSE overrun

LEMMA ServerSavesHow ==
  ASSUME NEW r \in reqs, ServerSaves(r)
  PROVE  /\ r.ans = "none" /\ Aside
         /\ UNCHANGED <<disk, deletes, post, sent, thrown, letGo, shared, unsure>>
         /\ Refuses(r) \/ \E id, rev : Takes(r, id, rev)
  <1> DEFINE ans == Refusal(r)
             id  == IF r.id = Nowhere THEN nextid ELSE r.id
             rev == IF r.id = Nowhere THEN 1 ELSE r.base + 1
  <1>1. /\ r.ans = "none" /\ Aside /\ UNCHANGED <<disk, deletes, post, sent, thrown, letGo, shared, unsure>>
    BY DEF ServerSaves, Aside, page, store
  <1>2. CASE ans = "saved"
    <2>1. /\ row' = Put(row, id, [rev |-> rev, words |-> r.words, files |-> r.files, key |-> r.key])
          /\ own' = [t \in Tab |-> IF t = r.tab /\ r.live THEN own[t] \cup {id} ELSE own[t] \ {id}]
          /\ nextid' = IF r.id = Nowhere THEN nextid + 1 ELSE nextid
          /\ reqs' = Answer(r, reqs, Answered(r, ans, id, rev, r.files \ disk))
          /\ overrun' = IF r.blind /\ r.id # Nowhere THEN overrun \cup (row[id].words \ r.words) ELSE overrun
      BY <1>2 DEF ServerSaves, Answered
    <2>2. r.id # Nowhere => r.id \in DOMAIN row /\ row[r.id].rev = r.base
      BY <1>2 DEF Refusal
    <2>3. Takes(r, id, rev)
      BY <1>2, <2>1, <2>2 DEF Takes
    <2> QED
      BY <1>1, <2>3
  <1>3. CASE ans # "saved"
    <2>1. r.id # Nowhere /\ ans \in {"404", "409"}
      BY <1>3 DEF Refusal
    <2>2. reqs' = Answer(r, reqs, [r EXCEPT !.ans = ans]) /\ UNCHANGED <<row, nextid, own, overrun>>
      BY <1>3 DEF ServerSaves
    <2> QED
      BY <1>1, <2>1, <2>2 DEF Refuses
  <1> QED
    BY <1>2, <1>3

\* The answer is the request with a few fields filled in.
LEMMA RefusedReq ==
  ASSUME NEW r, IsReq(r), NEW a, NEW q, q = [r EXCEPT !.ans = a]
  PROVE  q = [tab |-> r.tab, live |-> r.live, key |-> r.key, id |-> r.id, base |-> r.base,
              words |-> r.words, files |-> r.files, blind |-> r.blind, ans |-> a,
              newid |-> r.newid, newrev |-> r.newrev, missing |-> r.missing]
  BY DEF IsReq

LEMMA AnsweredReq ==
  ASSUME NEW r, IsReq(r), NEW a, NEW id, NEW rev, NEW ms, NEW q, q = Answered(r, a, id, rev, ms)
  PROVE  q = [tab |-> r.tab, live |-> r.live, key |-> r.key, id |-> r.id, base |-> r.base,
              words |-> r.words, files |-> r.files, blind |-> r.blind, ans |-> a,
              newid |-> id, newrev |-> rev, missing |-> ms]
  BY DEF IsReq, Answered

\* One request is answered.
LEMMA OneAnswered ==
  ASSUME NEW K, Typed(K), NEW L, Agrees(K, L), Aside, UNCHANGED post, NEW r \in reqs, NEW q,
         reqs' = Answer(r, reqs, q), IsReq(q), q.tab = r.tab, q.key = r.key, q.live = r.live, q.id = r.id,
         Tagged(L, q.newid, r.key)'
  PROVE  ReqsTyped(L)' /\ PostsTyped(L)'
  <1> USE DEF Typed
  <1>1. /\ Counted(L)' /\ Keys' = Keys
        /\ \A i, k : Tagged(K, i, k) => i \in 0 .. nextid' - 1 /\ (i # Nowhere => L[i] = k)
    BY TagsKept
  <1>2. \A x \in reqs' : x \in reqs \ {r} \/ (r.live /\ x = q)
    BY DEF Answer
  <1>3. ASSUME NEW x \in reqs
        PROVE  IsReq(x) /\ x.key \in Keys /\ Tagged(L, x.id, x.key)' /\ Tagged(L, x.newid, x.key)'
               /\ (x.live => x.tab \in up /\ x.key \in DOMAIN held[x.tab] \cup gone[x.tab])
    <2>1. IsReq(x) /\ x.key \in Keys /\ Tagged(K, x.id, x.key) /\ Tagged(K, x.newid, x.key)
      BY DEF ReqsTyped
    <2>2. Tagged(L, x.id, x.key)' /\ Tagged(L, x.newid, x.key)'
      BY <1>1, <2>1 DEF Tagged
    <2> QED
      BY <2>1, <2>2 DEF ReqsTyped
  <1>4. ReqsTyped(L)'
    <2>1. ASSUME NEW x \in reqs'
          PROVE  /\ IsReq(x) /\ x.key \in Keys' /\ Tagged(L, x.id, x.key)' /\ Tagged(L, x.newid, x.key)'
                 /\ x.live => x.tab \in up' /\ x.key \in DOMAIN held'[x.tab] \cup gone'[x.tab]
      BY <1>1, <1>2, <1>3 DEF Aside
    <2>2. ASSUME NEW x \in reqs', NEW y \in reqs', x.live, Answers(y, x.tab, x.key) PROVE x = y
      BY <1>2, <2>2 DEF ReqsTyped, Answers
    <2> QED
      BY <2>1, <2>2 DEF ReqsTyped
  <1>5. PostsTyped(L)'
    <2>1. ASSUME NEW t \in Tab, post[t] # NoPost
          PROVE  /\ Tagged(L, post[t].id, post[t].key)'
                 /\ post[t].phase # "waits" => \A x \in reqs' : ~Answers(x, t, post[t].key)
      <3>1. PICK i, k : i = post[t].id /\ k = post[t].key
        OBVIOUS
      <3>2. Tagged(K, i, k) /\ (post[t].phase # "waits" => \A x \in reqs : ~Answers(x, t, k))
        BY <2>1, <3>1 DEF PostsTyped
      <3>3. Tagged(L, i, k)'
        BY <1>1, <3>2 DEF Tagged
      <3>4. post[t].phase # "waits" => \A x \in reqs' : ~Answers(x, t, k)
        BY <1>2, <3>2 DEF Answers
      <3> QED
        BY <3>1, <3>3, <3>4 DEF Tagged
    <2> QED
      BY <2>1 DEF PostsTyped, Aside, Tagged
  <1> QED
    BY <1>4, <1>5

LEMMA ServerSavesTyped ==
  ASSUME NEW K, Typed(K), NEW r \in reqs, ServerSaves(r)
  PROVE  \E L : Typed(L)'
  <1> USE DEF Typed
  <1>1. /\ r.ans = "none" /\ Aside /\ UNCHANGED <<deletes, post>>
        /\ Refuses(r) \/ \E id, rev : Takes(r, id, rev)
    BY ServerSavesHow
  <1>2. IsReq(r) /\ r.key \in Keys /\ Tagged(K, r.id, r.key) /\ Tagged(K, r.newid, r.key) /\ (r.live => r.tab \in up)
    BY DEF ReqsTyped
  <1>3. ASSUME NEW L, Agrees(K, L) PROVE DeletesTyped(L)'
    <2>1. \A i, k : Tagged(K, i, k) => i \in 0 .. nextid' - 1 /\ (i # Nowhere => L[i] = k)
      BY <1>1, <1>3, TagsKept
    <2> QED
      BY <1>1, <2>1 DEF DeletesTyped, Tagged
  <1>4. CASE Refuses(r)
    <2>1. Agrees(K, K) /\ UNCHANGED <<row, nextid, own>>
      BY <1>4 DEF Refuses, Agrees, Counted
    <2>2. PICK q : q = [r EXCEPT !.ans = Refusal(r)]
      OBVIOUS
    <2>3. PICK a : a = Refusal(r)
      OBVIOUS
    <2>4. q = [tab |-> r.tab, live |-> r.live, key |-> r.key, id |-> r.id, base |-> r.base,
               words |-> r.words, files |-> r.files, blind |-> r.blind, ans |-> a,
               newid |-> r.newid, newrev |-> r.newrev, missing |-> r.missing]
      BY <1>2, <2>2, <2>3, RefusedReq
    <2>5. a \in {"404", "409"} /\ reqs' = Answer(r, reqs, q)
      BY <1>4, <2>2, <2>3 DEF Refuses
    <2>6. IsReq(q) /\ q.tab = r.tab /\ q.key = r.key /\ q.live = r.live /\ q.id = r.id /\ q.newid = r.newid
      BY <1>2, <2>4, <2>5 DEF IsReq
    <2>7. Tagged(K, q.newid, r.key)'
      BY <1>2, <2>1, <2>6 DEF Tagged
    <2>8. ReqsTyped(K)' /\ PostsTyped(K)'
      BY <1>1, <2>1, <2>5, <2>6, <2>7, OneAnswered
    <2>9. Counted(K)' /\ HeldTyped(K)' /\ ListsTyped(K)' /\ LocalTyped(K)'
      BY <1>1, <2>1, AsideTyped
    <2>10. RowsTyped(K)' /\ PagesTyped'
      BY <1>1, <2>1 DEF RowsTyped, PagesTyped, Aside, Keys
    <2> QED
      BY <1>3, <2>1, <2>8, <2>9, <2>10
  <1>5. ASSUME NEW id, NEW rev, Takes(r, id, rev) PROVE \E L : Typed(L)'
    <2>1. PICK L : L = IF r.id = Nowhere THEN [K EXCEPT ![nextid] = r.key] ELSE K
      OBVIOUS
    <2>2. nextid \in Nat \ {0} /\ nextkey \in Nat \ {0} /\ K \in [Nat -> Nat] /\ r.key \in Nat
      BY <1>2 DEF Counted, Keys
    <2>3. Agrees(K, L) /\ L[id] = r.key /\ id \in 1 .. nextid' - 1 /\ rev \in Nat \ {0}
      <3>1. CASE r.id = Nowhere
        BY <1>5, <2>1, <2>2, <3>1 DEF Takes, Agrees
      <3>2. CASE r.id # Nowhere
        <4>1. L = K /\ nextid' = nextid /\ id = r.id /\ rev = r.base + 1 /\ r.base \in Nat
          BY <1>2, <1>5, <2>1, <3>2 DEF Takes, IsReq
        <4>2. id \in 0 .. nextid - 1 /\ id # 0 /\ K[id] = r.key
          BY <1>2, <3>2, <4>1 DEF Tagged, Nowhere
        <4> QED
          BY <2>2, <4>1, <4>2 DEF Agrees
      <3> QED
        BY <3>1, <3>2
    <2>4. /\ Counted(L)' /\ Keys' = Keys /\ \A i \in 1 .. nextid - 1 : i \in 1 .. nextid' - 1 /\ L[i] = K[i]
      BY <1>1, <2>3, TagsKept
    <2>5. PICK x : x = [rev |-> rev, words |-> r.words, files |-> r.files, key |-> r.key]
      OBVIOUS
    <2>6. row' = Put(row, id, x) /\ (id \in DOMAIN row \/ id = nextid)
      BY <1>5, <2>5 DEF Takes
    <2>7. IsTable(row') /\ DOMAIN row' = DOMAIN row \cup {id} /\ row'[id] = x
          /\ \A i \in DOMAIN row \ {id} : row'[i] = row[i]
      BY <2>6 DEF Put, IsTable
    <2>8. RowsTyped(L)'
      <3>1. IsSavedRow(x) /\ x.key = r.key
        BY <2>3, <2>5 DEF IsSavedRow
      <3> QED
        BY <1>2, <2>3, <2>4, <2>7, <3>1 DEF RowsTyped
    <2>9. HeldTyped(L)' /\ ListsTyped(L)' /\ LocalTyped(L)'
      <3>1. \A i \in DOMAIN row' : i \in DOMAIN row \/ i >= nextid
        BY <2>2, <2>6, <2>7
      <3> QED
        BY <1>1, <2>3, <3>1, AsideTyped
    <2>10. PICK q, ms : ms = r.files \ disk /\ q = Answered(r, "saved", id, rev, ms)
      OBVIOUS
    <2>11. q = [tab |-> r.tab, live |-> r.live, key |-> r.key, id |-> r.id, base |-> r.base,
               words |-> r.words, files |-> r.files, blind |-> r.blind, ans |-> "saved",
               newid |-> id, newrev |-> rev, missing |-> ms]
      BY <1>2, <2>10, AnsweredReq
    <2>12. id \in Nat \ {0}
      BY <2>3, <2>4 DEF Counted
    <2>13. IsReq(q) /\ q.tab = r.tab /\ q.key = r.key /\ q.live = r.live /\ q.id = r.id /\ q.newid = id
      BY <1>2, <2>3, <2>11, <2>12 DEF IsReq, Nowhere
    <2>14. Tagged(L, id, r.key)'
      <3>1. PICK n \in Nat : n = nextid'
        BY <2>4 DEF Counted
      <3>2. id \in 1 .. n - 1
        BY <2>3, <3>1
      <3>3. id \in 0 .. n - 1
        BY <3>2
      <3> QED
        BY <2>3, <3>1, <3>3 DEF Tagged
    <2>15. reqs' = Answer(r, reqs, q)
      BY <1>5, <2>10 DEF Takes
    <2>16. ReqsTyped(L)' /\ PostsTyped(L)'
      BY <1>1, <2>3, <2>13, <2>14, <2>15, OneAnswered
    <2>17. PagesTyped'
      <3>1. own' = [t \in Tab |-> IF t = r.tab /\ r.live THEN own[t] \cup {id} ELSE own[t] \ {id}]
        BY <1>5 DEF Takes
      <3>2. \A t \in Tab \ up : own'[t] = {}
        BY <1>2, <3>1 DEF PagesTyped
      <3> QED
        BY <1>1, <3>1, <3>2 DEF PagesTyped, Aside, Keys
    <2> QED
      BY <1>3, <2>3, <2>4, <2>8, <2>9, <2>16, <2>17
  <1> QED
    BY <1>1, <1>4, <1>5

\* A step of the program as a whole: what it leaves typed, under the ids it has given out.
LEMMA StepTyped ==
  ASSUME NEW K, Typed(K), [Next]_vars
  PROVE  \E L : Typed(L)'
  <1>1. CASE Moves
    BY <1>1, TypedMoves
  <1>2. CASE ServerWrites
    BY <1>2, ServerSavesTyped, ServerSendsTyped, ServerDeletesTyped, RestartTyped DEF ServerWrites
  <1> QED
    BY <1>1, <1>2, StepMoves

LEMMA InitTyped ==
  ASSUME Init
  PROVE  \E K : Typed(K)
  <1>1. PICK K : K = [i \in Nat |-> 0]
    OBVIOUS
  <1>2. Counted(K) /\ RowsTyped(K) /\ HeldTyped(K) /\ PagesTyped
    BY <1>1 DEF Init, Counted, RowsTyped, HeldTyped, PagesTyped, IsTable, Nowhere
  <1>3. ReqsTyped(K) /\ DeletesTyped(K) /\ PostsTyped(K) /\ LocalTyped(K)
    BY DEF Init, ReqsTyped, DeletesTyped, PostsTyped, LocalTyped, IsTable
  <1>4. ListsTyped(K)
    BY DEF Init, ListsTyped, NoList, IsTable
  <1> QED
    BY <1>2, <1>3, <1>4 DEF Typed

----------------------------------------------------------------------------
\* Files: whatever any part of the system names for a draft was staged for that draft, and
\* is on disk or was let go of by it; or it is a file two halves of a fork have.
Stands(k, fs) ==
    \A f \in fs : \/ f \in shared /\ (f \in disk \/ SomeoneRemoved(f))
                  \/ f[1] = k /\ (f \in disk \/ Removed(k, f))
StandsOn(k, fs) ==
    \A f \in fs : \/ f \in shared' /\ (f \in disk' \/ \E x \in letGo' : x[2] = f)
                  \/ f[1] = k /\ (f \in disk' \/ <<k, f>> \in letGo' \/ <<Nowhere, f>> \in letGo')

FilesKnown ==
    /\ \A i \in DOMAIN row : Stands(row[i].key, row[i].files)
    /\ \A t \in Tab : \A k \in DOMAIN held[t] : Stands(k, held[t][k].files)
    /\ \A r \in reqs : Stands(r.key, r.files)
    /\ \A t \in Tab : post[t] # NoPost => Stands(post[t].key, post[t].files)
    /\ \A t \in Tab : \A i \in DOMAIN listing[t].rows :
         Stands(listing[t].rows[i].key, listing[t].rows[i].draft.files)
    /\ \A k \in DOMAIN local : Stands(k, local[k].files)

\* What comes off the disk was let go of by the draft it was staged for.
Unlinks ==
    /\ letGo \subseteq letGo' /\ shared \subseteq shared'
    /\ \A f \in disk \ disk' : \/ f \in shared /\ \E x \in letGo' : x[2] = f
                             \/ <<f[1], f>> \in letGo' \/ <<Nowhere, f>> \in letGo'

LEMMA StandsStill ==
  ASSUME Unlinks
  PROVE  \A k, fs : Stands(k, fs) => StandsOn(k, fs)
  <1> SUFFICES ASSUME NEW k, NEW fs, Stands(k, fs), NEW f \in fs
               PROVE  \/ f \in shared' /\ (f \in disk' \/ \E x \in letGo' : x[2] = f)
                      \/ f[1] = k /\ (f \in disk' \/ <<k, f>> \in letGo' \/ <<Nowhere, f>> \in letGo')
    BY DEF StandsOn
  <1>1. \A j : <<j, f>> \in letGo' => \E x \in letGo' : x[2] = f
    <2> SUFFICES ASSUME NEW j, <<j, f>> \in letGo' PROVE \E x \in letGo' : x[2] = f
      OBVIOUS
    <2>1. <<j, f>>[2] = f
      OBVIOUS
    <2> QED
      BY <2>1
  <1>2. CASE f \in shared /\ (f \in disk \/ SomeoneRemoved(f))
    BY <1>1, <1>2 DEF Unlinks, SomeoneRemoved
  <1>3. CASE f[1] = k /\ (f \in disk \/ Removed(k, f))
    BY <1>3 DEF Unlinks, Removed
  <1> QED
    BY <1>2, <1>3 DEF Stands

LEMMA FewerStand ==
  ASSUME NEW k, NEW fs, NEW gs, gs \subseteq fs
  PROVE  (Stands(k, fs) => Stands(k, gs)) /\ (StandsOn(k, fs) => StandsOn(k, gs))
  BY DEF Stands, StandsOn

LEMMA SharedStand ==
  ASSUME NEW j, NEW k, NEW fs, StandsOn(j, fs), fs \subseteq shared'
  PROVE  StandsOn(k, fs)
  <1> SUFFICES ASSUME NEW f \in fs PROVE f \in disk' \/ \E x \in letGo' : x[2] = f
    BY DEF StandsOn
  <1>1. <<j, f>>[2] = f /\ <<Nowhere, f>>[2] = f
    OBVIOUS
  <1> QED
    BY <1>1 DEF StandsOn

LEMMA MovesUnlink ==
  ASSUME FilesKnown, Moves
  PROVE  Unlinks
  <1>1. ASSUME NEW f \in disk \ disk'
        PROVE  (f \in shared /\ \E x \in letGo' : x[2] = f) \/ <<f[1], f>> \in letGo'
    <2>1. PICK t \in Tab : \E k \in DOMAIN held[t] : f \in held[t][k].files /\ <<k, f>> \in letGo'
      BY <1>1 DEF Moves, PastGrows
    <2>2. PICK k \in DOMAIN held[t] : f \in held[t][k].files /\ <<k, f>> \in letGo'
      BY <2>1
    <2>3. f \in shared \/ f[1] = k
      BY <2>2 DEF FilesKnown, Stands
    <2>4. <<k, f>>[2] = f
      OBVIOUS
    <2> QED
      BY <2>2, <2>3, <2>4
  <1> QED
    BY <1>1 DEF Unlinks, Moves, PastGrows

LEMMA HeldFiles ==
  ASSUME NEW K, Typed(K), FilesKnown, Moves, NEW t \in Tab, NEW k \in DOMAIN held'[t]
  PROVE  StandsOn(k, held'[t][k].files)
  <1> USE DEF Typed
  <1>1. PICK e : e = held'[t][k]
    OBVIOUS
  <1> SUFFICES StandsOn(k, e.files)
    BY <1>1
  <1>2. \A j, fs : Stands(j, fs) => StandsOn(j, fs)
    BY MovesUnlink, StandsStill
  <1>3. \A i \in DOMAIN listing[t].rows :
          listing[t].rows[i].key = k => StandsOn(k, listing[t].rows[i].draft.files)
    BY <1>2 DEF FilesKnown
  <1>4. CASE k \in DOMAIN held[t]
    <2>1. PICK d : d = held[t][k]
      OBVIOUS
    <2>2. IsDraft(d) /\ StandsOn(k, d.files)
      BY <1>2, <1>4, <2>1 DEF HeldTyped, FilesKnown
    <2>3. CASE Edits(t, k, d, e)
      BY <2>2, <2>3 DEF Edits, StandsOn
    <2>4. CASE GetsSaved(t, k, d, e)
      <3>1. PICK r \in reqs : e = Saved(d, r)
        BY <2>4 DEF GetsSaved
      <3>2. e.files = d.files \ r.missing
        BY <2>2, <3>1 DEF Saved, IsDraft
      <3> QED
        BY <2>2, <3>2, FewerStand
    <2>5. CASE GetsCut(t, k, d, e)
      <3>1. e.files = d.files
        BY <2>2, <2>5, DetachedDraft DEF GetsCut
      <3> QED
        BY <2>2, <3>1
    <2>6. CASE GetsAdopted(t, k, d, e)
      <3>1. PICK i, x : e = Adopted(d, i, x)
        BY <2>6 DEF GetsAdopted
      <3>2. e.files = d.files
        BY <2>2, <3>1 DEF Adopted, IsDraft
      <3> QED
        BY <2>2, <3>2
    <2>7. CASE GetsReplaced(t, k, d, e)
      <3>1. d.id \in DOMAIN listing[t].rows /\ listing[t].rows[d.id].key = k /\ e = listing[t].rows[d.id].draft
        BY <2>7 DEF GetsReplaced
      <3> QED
        BY <1>3, <3>1
    <2> QED
      BY <1>1, <1>4, <2>1, <2>3, <2>4, <2>5, <2>6, <2>7 DEF Moves, HeldMoves, Stays, Departs
  <1>5. CASE k \notin DOMAIN held[t]
    <2>1. CASE Begun(k, e)
      <3>1. PICK fs : e = Draft(Nowhere, 0, {typed + 1}, fs, NoSig) /\ \A f \in fs : f \in disk' /\ f[1] = k
        BY <2>1 DEF Begun
      <3>2. e.files = fs
        BY <3>1 DEF Draft
      <3> QED
        BY <3>1, <3>2 DEF StandsOn
    <2>2. CASE Forked2(t, k, e)
      <3>1. PICK x \in DOMAIN held[t] : e = Detached(held[t][x]) /\ e.files \subseteq shared'
        BY <2>2 DEF Forked2
      <3>2. PICK d : d = held[t][x]
        OBVIOUS
      <3>3. IsDraft(d) /\ StandsOn(x, d.files)
        BY <1>2, <3>2 DEF HeldTyped, FilesKnown
      <3>4. e.files = d.files
        BY <3>1, <3>2, <3>3, DetachedDraft
      <3> QED
        BY <3>1, <3>3, <3>4, SharedStand
    <2>3. CASE Fetched(t, k, e)
      BY <1>3, <2>3 DEF Fetched
    <2>4. CASE Loaded(t, k, e)
      <3>1. CASE \E i \in DOMAIN row : row[i].key = k /\ e = FromServer(i, row[i], row[i].files \ disk)
        <4>1. PICK i \in DOMAIN row : row[i].key = k /\ e = FromServer(i, row[i], row[i].files \ disk)
          BY <3>1
        <4>2. i \in Nat \ {0} /\ row[i].rev \in Nat /\ StandsOn(k, row[i].files)
          BY <1>2, <4>1 DEF RowsTyped, IsSavedRow, Counted, FilesKnown
        <4>3. PICK x, ms : x = row[i] /\ ms = row[i].files \ disk
          OBVIOUS
        <4>4. e.files = x.files \ ms
          BY <4>1, <4>2, <4>3, FetchedDraft
        <4> QED
          BY <4>2, <4>3, <4>4, FewerStand
      <3>2. ASSUME k \in DOMAIN local, NEW offline \in BOOLEAN, e = LocalDraft(k, offline)
            PROVE  StandsOn(k, e.files)
        <4>1. e.files = local[k].files
          BY <3>2, RevivedDraft DEF Revived
        <4> QED
          BY <1>2, <3>2, <4>1 DEF FilesKnown
      <3> QED
        BY <2>4, <3>1, <3>2 DEF Loaded
    <2> QED
      BY <1>1, <1>5, <2>1, <2>2, <2>3, <2>4 DEF Moves, HeldMoves, Comes
  <1> QED
    BY <1>4, <1>5

LEMMA PostFiles ==
  ASSUME NEW K, Typed(K), FilesKnown, Moves, NEW t \in Tab, post'[t] # NoPost
  PROVE  StandsOn(post'[t].key, post'[t].files)
  <1> USE DEF Typed
  <1>1. \A j, fs : Stands(j, fs) => StandsOn(j, fs)
    BY MovesUnlink, StandsStill
  <1>2. PICK p, q : p = post[t] /\ q = post'[t]
    OBVIOUS
  <1>3. CASE q = p
    BY <1>1, <1>2, <1>3 DEF FilesKnown
  <1>4. CASE Presses(t)
    <2>1. screen[t] \in DOMAIN held[t] /\ q.key = screen[t] /\ q.files = held[t][screen[t]].files
      BY <1>2, <1>4 DEF Presses, PagesTyped
    <2> QED
      BY <1>1, <1>2, <2>1 DEF FilesKnown
  <1>5. CASE p # NoPost /\ (GoesOut(t) \/ GoesMissing(t) \/ GoesOn(t))
    <2>1. IsPost(p) /\ StandsOn(p.key, p.files)
      BY <1>1, <1>2, <1>5 DEF PostsTyped, FilesKnown
    <2>2. CASE GoesOut(t)
      <3>1. PICK id, rev : q = [p EXCEPT !.phase = "out", !.id = id, !.rev = rev]
        BY <1>2, <2>2 DEF GoesOut
      <3>2. q.key = p.key /\ q.files = p.files
        BY <2>1, <3>1 DEF IsPost
      <3> QED
        BY <1>2, <2>1, <3>2
    <2>3. CASE GoesMissing(t)
      <3>1. q = [p EXCEPT !.phase = "answered", !.ans = "lost"]
        BY <1>2, <2>3 DEF GoesMissing
      <3>2. q.key = p.key /\ q.files = p.files
        BY <2>1, <3>1 DEF IsPost
      <3> QED
        BY <1>2, <2>1, <3>2
    <2>4. CASE GoesOn(t)
      <3>1. q = [p EXCEPT !.key = nextkey] /\ p.files \subseteq shared'
        BY <1>2, <2>4 DEF GoesOn
      <3>2. q.files = p.files
        BY <2>1, <3>1 DEF IsPost
      <3> QED
        BY <1>2, <2>1, <3>1, <3>2, SharedStand
    <2> QED
      BY <1>5, <2>2, <2>3, <2>4
  <1> QED
    BY <1>2, <1>3, <1>4, <1>5 DEF Moves, PostMoves

LEMMA FilesMoves ==
  ASSUME NEW K, Typed(K), FilesKnown, Moves
  PROVE  FilesKnown'
  <1> USE DEF Typed
  <1>1. \A j, fs : Stands(j, fs) => StandsOn(j, fs)
    BY MovesUnlink, StandsStill
  <1>2. ASSUME NEW t \in Tab, NEW k \in DOMAIN held'[t] PROVE StandsOn(k, held'[t][k].files)
    BY HeldFiles
  <1>3. ASSUME NEW i \in DOMAIN row' PROVE StandsOn(row'[i].key, row'[i].files)
    BY <1>1 DEF Moves, RowsQuiet, FilesKnown
  <1>4. ASSUME NEW q \in reqs' PROVE StandsOn(q.key, q.files)
    <2>1. ASSUME NEW t \in Tab, NEW k \in Keys', Asks(t, k, q) PROVE StandsOn(q.key, q.files)
      <3>1. k \in DOMAIN held'[t] /\ q.key = k /\ q.files = held'[t][k].files
        BY <2>1 DEF Asks, Asking
      <3> QED
        BY <1>2, <3>1
    <2>2. ASSUME NEW r \in reqs, q = r \/ Lost(r, q) \/ Strays(r, q) PROVE StandsOn(q.key, q.files)
      <3>1. q.files = r.files /\ q.key = r.key
        BY <2>2 DEF ReqsTyped, IsReq, Lost, Strays
      <3> QED
        BY <1>1, <3>1 DEF FilesKnown
    <2> QED
      BY <2>1, <2>2 DEF Moves, ReqMoves
  <1>5. ASSUME NEW t \in Tab, NEW i \in DOMAIN listing'[t].rows
        PROVE  StandsOn(listing'[t].rows[i].key, listing'[t].rows[i].draft.files)
    <2>1. CASE listing'[t] = listing[t]
      BY <1>1, <1>5, <2>1 DEF FilesKnown
    <2>2. CASE listing'[t] = NoList
      BY <1>5, <2>2 DEF NoList
    <2>3. CASE listing'[t] = AnswerOf(t)
      <3>1. /\ i \in DOMAIN row /\ listing'[t].rows[i].key = row[i].key
            /\ listing'[t].rows[i].draft = FromServer(i, row[i], row[i].files \ disk)
        BY <1>5, <2>3 DEF AnswerOf
      <3>2. i \in Nat \ {0} /\ row[i].rev \in Nat /\ StandsOn(row[i].key, row[i].files)
        BY <1>1, <3>1 DEF RowsTyped, IsSavedRow, Counted, FilesKnown
      <3>3. PICK x, ms, e : x = row[i] /\ ms = row[i].files \ disk /\ e = listing'[t].rows[i].draft
        OBVIOUS
      <3>4. e.files = x.files \ ms
        BY <3>1, <3>2, <3>3, FetchedDraft
      <3> QED
        BY <3>1, <3>2, <3>3, <3>4, FewerStand
    <2> QED
      BY <2>1, <2>2, <2>3 DEF Moves, ListMoves
  <1>6. ASSUME NEW k \in DOMAIN local' PROVE StandsOn(k, local'[k].files)
    <2>1. CASE CopyStays(k)
      BY <1>1, <2>1 DEF CopyStays, FilesKnown
    <2>2. ASSUME NEW t \in Tab, Copied(t, k) PROVE StandsOn(k, local'[k].files)
      <3>1. CASE k \in DOMAIN held'[t] /\ local'[k] = CopyOf(t, held'[t][k])
        BY <1>2, <3>1 DEF CopyOf
      <3>2. CASE k \in DOMAIN held[t] /\ local'[k] = CopyOf(t, held[t][k])
        BY <1>1, <3>2 DEF CopyOf, FilesKnown
      <3> QED
        BY <2>2, <3>1, <3>2 DEF Copied
    <2> QED
      BY <2>1, <2>2 DEF Moves, LocalMoves
  <1>7. ASSUME NEW t \in Tab, post'[t] # NoPost PROVE StandsOn(post'[t].key, post'[t].files)
    BY <1>7, PostFiles
  <1> QED
    BY <1>2, <1>3, <1>4, <1>5, <1>6, <1>7 DEF FilesKnown, Stands, StandsOn, Removed, SomeoneRemoved

\* A step of the server makes no name of a file that was not there, and takes none off the
\* disk it does not let go of.
RowsStand == \A i \in DOMAIN row' : Stands(row'[i].key, row'[i].files)
ReqsStand == \A q \in reqs' : Stands(q.key, q.files)
PostsStand == \A t \in Tab : post'[t] # NoPost => Stands(post'[t].key, post'[t].files)

LEMMA FilesServer ==
  ASSUME NEW K, Typed(K), FilesKnown, ServerWrites
  PROVE  FilesKnown'
  <1> USE DEF Typed
  <1> SUFFICES Aside /\ Unlinks /\ RowsStand /\ ReqsStand /\ PostsStand
    <2>1. \A k, fs : Stands(k, fs) => StandsOn(k, fs)
      BY StandsStill
    <2>2. /\ \A i \in DOMAIN row' : StandsOn(row'[i].key, row'[i].files)
          /\ \A t \in Tab : \A k \in DOMAIN held'[t] : StandsOn(k, held'[t][k].files)
          /\ \A r \in reqs' : StandsOn(r.key, r.files)
          /\ \A t \in Tab : post'[t] # NoPost => StandsOn(post'[t].key, post'[t].files)
          /\ \A t \in Tab : \A i \in DOMAIN listing'[t].rows :
               StandsOn(listing'[t].rows[i].key, listing'[t].rows[i].draft.files)
          /\ \A k \in DOMAIN local' : StandsOn(k, local'[k].files)
      BY <2>1 DEF FilesKnown, Aside, RowsStand, ReqsStand, PostsStand
    <2> QED
      BY <2>2 DEF FilesKnown, Stands, StandsOn, Removed, SomeoneRemoved
  <1>1. ASSUME NEW X, row' = Restrict(row, DOMAIN row \ X) PROVE RowsStand
    BY <1>1 DEF FilesKnown, Restrict, RowsStand
  <1>2. ASSUME UNCHANGED <<disk, letGo, shared>> PROVE Unlinks
    BY <1>2 DEF Unlinks
  <1>3. reqs' = reqs => ReqsStand
    BY DEF FilesKnown, ReqsStand
  <1>4. post' = post => PostsStand
    BY DEF FilesKnown, PostsStand
  <1>5. ASSUME NEW r \in reqs, ServerSaves(r)
        PROVE  Aside /\ Unlinks /\ RowsStand /\ ReqsStand /\ PostsStand
    <2>1. /\ Aside /\ UNCHANGED <<disk, letGo, shared, post>> /\ (Refuses(r) \/ \E id, rev : Takes(r, id, rev))
      BY <1>5, ServerSavesHow
    <2>2. IsReq(r) /\ Stands(r.key, r.files)
      BY DEF ReqsTyped, FilesKnown
    <2>3. ASSUME NEW q, q.files = r.files, q.key = r.key, reqs' = Answer(r, reqs, q) PROVE ReqsStand
      BY <2>2, <2>3 DEF Answer, FilesKnown, ReqsStand
    <2>4. CASE Refuses(r)
      <3>1. PICK a, q : a = Refusal(r) /\ q = [r EXCEPT !.ans = a]
        OBVIOUS
      <3>2. q.files = r.files /\ q.key = r.key
        BY <2>2, <3>1, RefusedReq
      <3>3. reqs' = Answer(r, reqs, q) /\ row' = row
        BY <2>4, <3>1 DEF Refuses
      <3>4. RowsStand
        BY <3>3 DEF FilesKnown, RowsStand
      <3> QED
        BY <1>2, <1>4, <2>1, <2>3, <3>2, <3>3, <3>4
    <2>5. ASSUME NEW id, NEW rev, Takes(r, id, rev) PROVE RowsStand /\ ReqsStand
      <3>1. PICK ms, q : ms = r.files \ disk /\ q = Answered(r, "saved", id, rev, ms)
        OBVIOUS
      <3>2. q.files = r.files /\ q.key = r.key
        <4>1. PICK a : a = "saved"
          OBVIOUS
        <4> QED
          BY <2>2, <3>1, <4>1, AnsweredReq
      <3>3. reqs' = Answer(r, reqs, q)
        BY <2>5, <3>1 DEF Takes
      <3>4. row' = Put(row, id, [rev |-> rev, words |-> r.words, files |-> r.files, key |-> r.key])
        BY <2>5 DEF Takes
      <3>5. RowsStand
        BY <2>2, <3>4 DEF Put, FilesKnown, RowsStand
      <3> QED
        BY <2>3, <3>2, <3>3, <3>5
    <2> QED
      BY <1>2, <1>4, <2>1, <2>4, <2>5
  <1>6. ASSUME NEW t \in Tab, NEW crash, ServerSends(t, crash)
        PROVE  Aside /\ Unlinks /\ RowsStand /\ ReqsStand /\ PostsStand
    <2>1. Aside /\ reqs' = reqs /\ shared' = shared /\ post[t].phase = "out"
      BY <1>6 DEF ServerSends, Aside, page, store
    <2>2. PICK p : p = post[t]
      OBVIOUS
    <2>3. p # NoPost /\ IsPost(p) /\ Stands(p.key, p.files)
      BY <2>1, <2>2 DEF NoPost, PostsTyped, FilesKnown
    <2>4. PostsStand
      <3>1. PICK a : post' = [post EXCEPT ![t].phase = "answered", ![t].ans = a]
        BY <1>6 DEF ServerSends
      <3>2. /\ post'[t] = [p EXCEPT !.phase = "answered", !.ans = a]
            /\ \A u \in Tab \ {t} : post'[u] = post[u]
        BY <2>2, <3>1 DEF PostsTyped
      <3>3. post'[t].key = p.key /\ post'[t].files = p.files
        BY <2>3, <3>2 DEF IsPost
      <3> QED
        BY <2>3, <3>2, <3>3 DEF FilesKnown, PostsStand
    <2>5. CASE p.files \subseteq disk
      <3>1. /\ row' = Restrict(row, DOMAIN row \ Consumed(post[t]))
            /\ disk \ disk' \subseteq p.files /\ letGo' = letGo \cup ({p.key} \X p.files)
        BY <1>6, <2>2, <2>5 DEF ServerSends
      <3>2. RowsStand
        BY <1>1, <3>1
      <3>3. Unlinks
        <4>1. ASSUME NEW f \in disk \ disk'
              PROVE  (f \in shared /\ \E x \in letGo' : x[2] = f) \/ <<f[1], f>> \in letGo'
          <5>1. f \in p.files /\ <<p.key, f>> \in letGo' /\ <<p.key, f>>[2] = f
            BY <3>1
          <5>2. f \in shared \/ f[1] = p.key
            BY <2>3, <5>1 DEF Stands
          <5> QED
            BY <5>1, <5>2
        <4> QED
          BY <2>1, <3>1, <4>1 DEF Unlinks
      <3> QED
        BY <1>3, <2>1, <2>4, <3>2, <3>3
    <2>6. CASE ~(p.files \subseteq disk)
      <3>1. UNCHANGED <<row, disk, letGo>>
        BY <1>6, <2>2, <2>6 DEF ServerSends
      <3>2. RowsStand
        BY <3>1 DEF FilesKnown, RowsStand
      <3> QED
        BY <1>2, <1>3, <2>1, <2>4, <3>1, <3>2
    <2> QED
      BY <2>5, <2>6
  <1>7. ASSUME NEW x \in deletes, NEW crash, ServerDeletes(x, crash)
        PROVE  Aside /\ Unlinks /\ RowsStand /\ ReqsStand /\ PostsStand
    <2>1. Aside /\ reqs' = reqs /\ post' = post /\ shared' = shared
      BY <1>7 DEF ServerDeletes, Aside, page, store
    <2>2. PICK hit \in SUBSET DOMAIN row :
            /\ row' = Restrict(row, DOMAIN row \ hit)
            /\ disk \ disk' \subseteq UNION {row[i].files : i \in hit}
            /\ letGo' = letGo \cup UNION {{row[i].key} \X row[i].files : i \in hit}
      BY <1>7 DEF ServerDeletes
    <2>3. ASSUME NEW f \in disk \ disk'
          PROVE (f \in shared /\ \E x1 \in letGo' : x1[2] = f) \/ <<f[1], f>> \in letGo'
      <3>1. PICK i \in hit : f \in row[i].files
        BY <2>2, <2>3
      <3>2. <<row[i].key, f>> \in letGo' /\ <<row[i].key, f>>[2] = f
        BY <2>2, <3>1
      <3>3. f \in shared \/ f[1] = row[i].key
        BY <3>1 DEF FilesKnown, Stands
      <3> QED
        BY <3>2, <3>3
    <2>4. Unlinks
      BY <2>1, <2>2, <2>3 DEF Unlinks
    <2>5. RowsStand
      BY <1>1, <2>2
    <2> QED
      BY <1>3, <1>4, <2>1, <2>4, <2>5
  <1>8. ASSUME NEW days, NEW readable, Restart(days, readable)
        PROVE  Aside /\ Unlinks /\ RowsStand /\ ReqsStand /\ PostsStand
    <2>1. Aside /\ UNCHANGED <<row, reqs, post, shared>>
      BY <1>8 DEF Restart, Aside, page, wire, store
    <2>2. PICK out : out \subseteq {f \in out : f \notin Claimed} /\ disk' = disk \ out
                     /\ letGo' = letGo \cup ({Nowhere} \X {f \in out : f \notin Claimed})
      <3>1. PICK old : LET out == IF readable THEN Sweep(old) ELSE {} IN
                       disk' = disk \ out /\ letGo' = letGo \cup ({Nowhere} \X {f \in out : f \notin Claimed})
        BY <1>8 DEF Restart
      <3>2. PICK out : out = IF readable THEN Sweep(old) ELSE {}
        OBVIOUS
      <3>3. out \subseteq {f \in out : f \notin Claimed}
        BY <3>2 DEF Sweep
      <3> QED
        BY <3>1, <3>2, <3>3
    <2>3. Unlinks
      BY <2>1, <2>2 DEF Unlinks
    <2>4. RowsStand
      BY <2>1 DEF FilesKnown, RowsStand
    <2> QED
      BY <1>3, <1>4, <2>1, <2>3, <2>4
  <1> QED
    BY <1>2, <1>5, <1>6, <1>7, <1>8 DEF ServerWrites, FilesKnown

\* A draft's files stay on disk for as long as a row of the outbound table names them and
\* that draft has not removed them: neither the sweep at startup, which reads the rows
\* first, nor the end of another draft takes them.  The files of a draft that forked are
\* the exception: either half unlinks them under the other, so of those it says only that
\* a draft did, or the sweep while no row named them.
THEOREM RowFilesKept == Spec => []FilesKept
  <1> DEFINE Inv == (\E K : Typed(K)) /\ FilesKnown
  <1>1. Init => Inv
    BY InitTyped DEF Init, FilesKnown, NoList
  <1>2. Inv /\ [Next]_vars => Inv'
    <2> SUFFICES ASSUME NEW K, Typed(K), FilesKnown, [Next]_vars PROVE Inv'
      OBVIOUS
    <2>1. (\E L : Typed(L))'
      BY StepTyped
    <2>2. FilesKnown'
      BY StepMoves, FilesMoves, FilesServer
    <2> QED
      BY <2>1, <2>2
  <1>3. Inv => FilesKept
    BY DEF FilesKnown, FilesKept, Stands
  <1> QED
    BY <1>1, <1>2, <1>3, PTL DEF Spec

----------------------------------------------------------------------------
\* Revisions: a draft, a save or a list that states a row's current revision has all of
\* that row's words, unless it was taken over without its text.
Behinds(i, rev) == i \in DOMAIN row => rev <= row[i].rev
Current(i, rev) == i \in DOMAIN row /\ row[i].rev = rev

HeldRev(d) == Behinds(d.id, d.rev) /\ (~d.blind /\ Current(d.id, d.rev) => row[d.id].words \subseteq d.words)

ReqRev(r) ==
    /\ r.ans = "none" => /\ Behinds(r.id, r.base)
                         /\ ~r.blind /\ Current(r.id, r.base) => row[r.id].words \subseteq r.words
    /\ r.ans = "saved" => /\ r.id # Nowhere => r.newid = r.id /\ r.newrev = r.base + 1
                          /\ Behinds(r.newid, r.newrev)
                          /\ Current(r.newid, r.newrev) => row[r.newid].words = r.words

\* A save that is out is behind the draft d it is of.
ReqOf(r, d) ==
    /\ r.id \in DOMAIN row => d.id = r.id /\ r.base <= d.rev
    /\ r.id = Nowhere => d.sig = NoSig
    /\ (\/ r.id = Nowhere
        \/ r.ans = "none" /\ Current(r.id, r.base)
        \/ r.ans = "saved" /\ Current(r.newid, r.newrev)) => r.words \subseteq d.words

HeldRevs == \A t \in Tab : \A k \in DOMAIN held[t] : HeldRev(held[t][k])
ReqRevs  == \A r \in reqs : ReqRev(r)
ReqsHeld == \A r \in reqs : r.live /\ r.key \in DOMAIN held[r.tab] => ReqOf(r, held[r.tab][r.key])
ListRevs == \A t \in Tab : \A i \in DOMAIN listing[t].rows :
                HeldRev(listing[t].rows[i].draft)
LocalRevs == \A k \in DOMAIN local : HeldRev(local[k])

Revs == HeldRevs /\ ReqRevs /\ ReqsHeld /\ ListRevs /\ LocalRevs

\* No row has no id, nor revision 0.
LEMMA NoRow ==
  ASSUME NEW K, Counted(K), RowsTyped(K)
  PROVE  Nowhere \notin DOMAIN row /\ \A i \in DOMAIN row : row[i].rev \in Nat \ {0}
  BY DEF Counted, RowsTyped, IsSavedRow, Nowhere

LEMMA HeldRevsMoves ==
  ASSUME NEW K, Typed(K), Revs, Moves, NEW t \in Tab, NEW k \in DOMAIN held'[t]
  PROVE  HeldRev(held'[t][k])
  <1> USE DEF Typed, Revs
  <1> DEFINE e == held'[t][k]
  <1>1. Nowhere \notin DOMAIN row /\ \A i \in DOMAIN row : row[i].rev \in Nat \ {0}
    BY NoRow
  <1>2. ASSUME NEW x, x.id = Nowhere PROVE HeldRev(x)
    BY <1>1, <1>2 DEF HeldRev, Behinds, Current
  <1>3. \A i \in DOMAIN listing[t].rows : /\ HeldRev(listing[t].rows[i].draft)
                                          /\ listing[t].rows[i].draft.id = i
    BY DEF ListRevs, ListsTyped
  <1>4. CASE k \in DOMAIN held[t]
    <2>1. PICK d : d = held[t][k]
      OBVIOUS
    <2>2. IsDraft(d) /\ HeldRev(d)
      BY <1>4, <2>1 DEF HeldTyped, HeldRevs
    <2>3. CASE Edits(t, k, d, e)
      BY <2>2, <2>3 DEF Edits, HeldRev
    <2>4. CASE GetsSaved(t, k, d, e)
      <3>1. PICK r \in reqs : Answers(r, t, k) /\ r.ans = "saved" /\ e = Saved(d, r)
        BY <2>4 DEF GetsSaved
      <3>2. IsReq(r) /\ ReqRev(r) /\ ReqOf(r, d)
        BY <1>4, <2>1, <3>1 DEF ReqsTyped, ReqRevs, ReqsHeld, Answers
      <3>3. r.newid \in Nat \ {0} /\ r.newrev \in Nat
        BY <3>1, <3>2 DEF IsReq, Nowhere
      <3>4. e.id = r.newid /\ e.rev = r.newrev /\ e.words = d.words
        BY <2>2, <3>1, <3>3, SavedDraft
      <3> QED
        BY <3>1, <3>2, <3>4 DEF ReqRev, ReqOf, HeldRev
    <2>5. CASE GetsCut(t, k, d, e)
      BY <1>2, <2>2, <2>5, DetachedDraft DEF GetsCut
    <2>6. CASE GetsAdopted(t, k, d, e)
      <3>1. PICK i \in DOMAIN listing[t].rows : e = Adopted(d, i, listing[t].rows[i])
        BY <2>6 DEF GetsAdopted
      <3>2. PICK x : x = listing[t].rows[i]
        OBVIOUS
      <3>3. e.id = i /\ e.rev = x.draft.rev /\ e.blind
        BY <2>2, <3>1, <3>2 DEF Adopted, IsDraft
      <3> QED
        BY <1>3, <3>2, <3>3 DEF HeldRev
    <2>7. CASE GetsReplaced(t, k, d, e)
      BY <1>3, <2>7 DEF GetsReplaced
    <2> QED
      BY <1>4, <2>1, <2>3, <2>4, <2>5, <2>6, <2>7 DEF Moves, HeldMoves, Stays, Departs
  <1>5. CASE k \notin DOMAIN held[t]
    <2>1. CASE Begun(k, e)
      BY <1>2, <2>1 DEF Begun, Draft
    <2>2. CASE Forked2(t, k, e)
      <3>1. PICK x \in DOMAIN held[t] : e = Detached(held[t][x])
        BY <2>2 DEF Forked2
      <3>2. PICK d : d = held[t][x] /\ IsDraft(d)
        BY DEF HeldTyped
      <3> QED
        BY <1>2, <3>1, <3>2, DetachedDraft
    <2>3. CASE Fetched(t, k, e)
      BY <1>3, <2>3 DEF Fetched
    <2>4. CASE Loaded(t, k, e)
      <3>1. CASE \E i \in DOMAIN row : row[i].key = k /\ e = FromServer(i, row[i], row[i].files \ disk)
        <4>1. PICK i \in DOMAIN row : e = FromServer(i, row[i], row[i].files \ disk)
          BY <3>1
        <4>2. PICK x, ms : x = row[i] /\ ms = row[i].files \ disk
          OBVIOUS
        <4>3. i \in Nat \ {0} /\ x.rev \in Nat
          BY <4>2 DEF RowsTyped, IsSavedRow, Counted
        <4>4. e.id = i /\ e.rev = x.rev /\ e.words = x.words
          BY <4>1, <4>2, <4>3, FetchedDraft
        <4> QED
          BY <4>2, <4>3, <4>4 DEF HeldRev, Behinds
      <3>2. CASE k \in DOMAIN local /\ \E offline \in BOOLEAN : e = LocalDraft(k, offline)
        <4>1. Revived(k, e)
          BY <3>2, RevivedDraft
        <4>2. HeldRev(local[k])
          BY <3>2 DEF LocalRevs
        <4> QED
          BY <1>1, <4>1, <4>2 DEF Revived, HeldRev, Behinds, Current
      <3> QED
        BY <2>4, <3>1, <3>2 DEF Loaded
    <2> QED
      BY <1>5, <2>1, <2>2, <2>3, <2>4 DEF Moves, HeldMoves, Comes
  <1> QED
    BY <1>4, <1>5

\* A save that stays out stays behind its draft.
LEMMA ReqOfMoves ==
  ASSUME NEW K, Typed(K), Revs, Moves, NEW r \in reqs, r.live, NEW t, NEW k, t = r.tab, k = r.key,
         r \in reqs' \/ \E q \in reqs' : Lost(r, q), k \in DOMAIN held'[t], t \in up'
  PROVE  k \in DOMAIN held[t] /\ ReqOf(r, held'[t][k])
  <1> USE DEF Typed, Revs
  <1>1. IsReq(r) /\ t \in Tab /\ t \in up /\ k \in Keys /\ k \in DOMAIN held[t] \cup gone[t] /\ ReqRev(r)
    BY DEF ReqsTyped, ReqRevs, PagesTyped
  <1>2. ~ \E q \in reqs \ reqs' : Answers(q, t, k) /\ r \in reqs'
    BY DEF ReqsTyped, Answers
  <1>3. k \in DOMAIN held[t]
    <2>1. SUFFICES ASSUME k \notin DOMAIN held[t] PROVE FALSE
      OBVIOUS
    <2>2. k \in gone[t] /\ Comes(t, k)
      BY <1>1, <2>1 DEF Moves, HeldMoves
    <2>3. k # nextkey
      BY <1>1 DEF Keys, Counted
    <2> QED
      BY <1>1, <2>2, <2>3 DEF Comes, Begun, Forked2, Fetched, Loaded
  <1>4. PICK d, e : d = held[t][k] /\ e = held'[t][k]
    OBVIOUS
  <1>5. IsDraft(d) /\ ReqOf(r, d) /\ HeldRev(d)
    BY <1>1, <1>3, <1>4 DEF HeldTyped, ReqsHeld, HeldRevs
  <1>6. CASE e = d
    BY <1>3, <1>4, <1>5, <1>6
  <1>7. CASE r \in reqs'
    <2>1. CASE Edits(t, k, d, e)
      BY <1>3, <1>4, <1>5, <2>1 DEF Edits, ReqOf
    <2>2. CASE GetsSaved(t, k, d, e)
      BY <1>2, <1>7, <2>2 DEF GetsSaved
    <2>3. CASE GetsCut(t, k, d, e)
      <3>1. d.id # Nowhere /\ d.id \notin DOMAIN row /\ e = Detached(d)
        BY <1>2, <1>7, <2>3 DEF GetsCut
      <3>2. e.words = d.words /\ e.sig = NoSig
        BY <1>5, <3>1, DetachedDraft
      <3> QED
        BY <1>3, <1>4, <1>5, <3>1, <3>2 DEF ReqOf
    <2>4. CASE GetsAdopted(t, k, d, e)
      <3>1. PICK i, x : e = Adopted(d, i, x) /\ d.id = Nowhere
        BY <2>4 DEF GetsAdopted
      <3>2. e.words = d.words /\ e.sig = d.sig
        BY <1>5, <3>1 DEF Adopted, IsDraft
      <3>3. Nowhere \notin DOMAIN row
        BY NoRow
      <3> QED
        BY <1>3, <1>4, <1>5, <3>1, <3>2, <3>3 DEF ReqOf
    <2>5. CASE GetsReplaced(t, k, d, e)
      <3>1. ~Dirty(d) /\ e.id = d.id /\ d.rev < e.rev /\ IsDraft(e) /\ ~e.blind /\ HeldRev(e)
        BY <1>1, <2>5 DEF GetsReplaced, ListsTyped, ListRevs
      <3>2. d.sig # NoSig
        BY <3>1, SomeSig DEF Dirty, Sig
      <3>3. r.id # Nowhere
        BY <1>5, <3>2 DEF ReqOf
      <3>4. d.rev \in Nat /\ e.rev \in Nat /\ r.base \in Nat
        BY <1>1, <1>5, <3>1 DEF IsDraft, IsReq
      <3>5. ASSUME r.id \in DOMAIN row
            PROVE  /\ e.id = r.id /\ row[r.id].rev \in Nat /\ r.base < e.rev /\ e.rev <= row[r.id].rev
        <4>1. e.id = r.id /\ r.base <= d.rev
          BY <1>5, <3>1, <3>5 DEF ReqOf
        <4>2. row[r.id].rev \in Nat
          BY <3>5, NoRow
        <4>3. e.rev <= row[r.id].rev
          BY <3>1, <3>5, <4>1 DEF HeldRev, Behinds
        <4> QED
          BY <3>1, <3>4, <4>1, <4>2, <4>3
      <3>6. r.id \in DOMAIN row => r.base <= e.rev
        BY <3>4, <3>5
      <3>7. ~Current(r.id, r.base)
        BY <3>4, <3>5 DEF Current
      <3>8. ASSUME r.ans = "saved", Current(r.newid, r.newrev) PROVE r.words \subseteq e.words
        <4>1. r.newid = r.id /\ r.newrev = r.base + 1 /\ row[r.id].words = r.words
          BY <1>1, <3>3, <3>8 DEF ReqRev
        <4>2. r.id \in DOMAIN row /\ row[r.id].rev = r.base + 1
          BY <3>8, <4>1 DEF Current
        <4>3. e.rev = row[r.id].rev
          BY <3>4, <3>5, <4>2
        <4> QED
          BY <3>1, <3>5, <4>1, <4>2, <4>3 DEF HeldRev, Current
      <3> QED
        BY <1>3, <1>4, <3>3, <3>5, <3>6, <3>7, <3>8 DEF ReqOf
    <2> QED
      BY <1>1, <1>3, <1>4, <2>1, <2>2, <2>3, <2>4, <2>5 DEF Moves, HeldMoves, Stays, Departs
  <1>8. CASE \E q \in reqs' : Lost(r, q)
    BY <1>4, <1>6, <1>8 DEF Lost
  <1> QED
    BY <1>3, <1>4, <1>7, <1>8

LEMMA RevsMoves ==
  ASSUME NEW K, Typed(K), Revs, Moves
  PROVE  Revs'
  <1> USE DEF Typed
  <1>0. row' = row /\ nextid' = nextid
    BY DEF Moves, RowsQuiet
  <1>1. \A t \in Tab : \A k \in DOMAIN held'[t] : HeldRev(held'[t][k])
    BY HeldRevsMoves
  <1>2. HeldTyped(K)' /\ ReqsTyped(K)'
    BY TypedMoves
  <1>3. ASSUME NEW r \in reqs, NEW q, Lost(r, q) \/ Strays(r, q)
        PROVE  /\ q.ans = IF Lost(r, q) THEN "lost" ELSE r.ans
               /\ q.tab = r.tab /\ q.key = r.key /\ q.id = r.id /\ q.base = r.base /\ q.words = r.words
               /\ q.blind = r.blind /\ q.newid = r.newid /\ q.newrev = r.newrev
               /\ (r.live /\ Lost(r, q)) \/ ~q.live
    BY <1>3 DEF ReqsTyped, IsReq, Lost, Strays
  <1>4. ASSUME NEW t \in Tab, NEW k, NEW q, Asks(t, k, q)
        PROVE  ReqRev(q) /\ q.tab = t /\ q.key = k /\ k \in DOMAIN held'[t] /\ ReqOf(q, held'[t][k])
    <2>1. PICK d : d = held'[t][k]
      OBVIOUS
    <2>2. IsDraft(d) /\ HeldRev(d) /\ q = Asking(t, k, d) /\ k \in DOMAIN held'[t]
      BY <1>1, <1>2, <1>4, <2>1 DEF Asks, HeldTyped
    <2>3. /\ q.ans = "none" /\ q.id = d.id /\ q.base = d.rev /\ q.words = d.words /\ q.blind = d.blind
          /\ q.tab = t /\ q.key = k
      BY <2>2 DEF Asking
    <2>4. ReqRev(q)
      BY <2>2, <2>3 DEF ReqRev, HeldRev
    <2>5. ReqOf(q, d)
      BY <2>2, <2>3 DEF ReqOf, IsDraft
    <2> QED
      BY <2>1, <2>2, <2>3, <2>4, <2>5
  <1>5. ASSUME NEW q \in reqs' PROVE ReqRev(q)
    <2>1. ASSUME NEW r \in reqs, q = r \/ Lost(r, q) \/ Strays(r, q) PROVE ReqRev(q)
      <3>1. ReqRev(r)
        BY DEF Revs, ReqRevs
      <3> QED
        BY <1>3, <2>1, <3>1 DEF ReqRev
    <2> QED
      BY <1>4, <2>1 DEF Moves, ReqMoves
  <1>6. ASSUME NEW q \in reqs', q.live, q.key \in DOMAIN held'[q.tab] PROVE ReqOf(q, held'[q.tab][q.key])
    <2>0. q.tab \in up'
      BY <1>2, <1>6 DEF ReqsTyped
    <2>1. CASE q \in reqs
      BY <1>6, <2>0, <2>1, ReqOfMoves
    <2>2. ASSUME NEW r \in reqs, Lost(r, q) PROVE ReqOf(q, held'[q.tab][q.key])
      <3>1. /\ q.ans = "lost" /\ q.tab = r.tab /\ q.key = r.key /\ q.id = r.id /\ q.base = r.base
            /\ q.words = r.words /\ r.live
        BY <1>3, <1>6, <2>2
      <3>2. ReqOf(r, held'[q.tab][q.key])
        BY <1>6, <2>0, <2>2, <3>1, ReqOfMoves
      <3> QED
        BY <3>1, <3>2 DEF ReqOf
    <2>3. ASSUME NEW r \in reqs, Strays(r, q) PROVE FALSE
      BY <1>6, <2>3 DEF Strays, ReqsTyped, IsReq
    <2> QED
      BY <1>4, <2>1, <2>2, <2>3 DEF Moves, ReqMoves
  <1>7. ASSUME NEW t \in Tab, NEW i \in DOMAIN listing'[t].rows PROVE HeldRev(listing'[t].rows[i].draft)
    <2>1. CASE listing'[t] = listing[t]
      BY <1>7, <2>1 DEF Revs, ListRevs
    <2>2. CASE listing'[t] = NoList
      BY <1>7, <2>2 DEF NoList
    <2>3. CASE listing'[t] = AnswerOf(t)
      <3>1. i \in DOMAIN row /\ listing'[t].rows[i].draft = FromServer(i, row[i], row[i].files \ disk)
        BY <1>7, <2>3 DEF AnswerOf
      <3>2. PICK x, ms, e : x = row[i] /\ ms = row[i].files \ disk /\ e = listing'[t].rows[i].draft
        OBVIOUS
      <3>3. i \in Nat \ {0} /\ x.rev \in Nat
        BY <3>1, <3>2 DEF RowsTyped, IsSavedRow, Counted
      <3>4. e.id = i /\ e.rev = x.rev /\ e.words = x.words
        BY <3>1, <3>2, <3>3, FetchedDraft
      <3> QED
        BY <3>1, <3>2, <3>3, <3>4 DEF HeldRev, Behinds
    <2> QED
      BY <2>1, <2>2, <2>3 DEF Moves, ListMoves
  <1>10. ASSUME NEW k \in DOMAIN local' PROVE HeldRev(local'[k])
    <2>1. CASE CopyStays(k)
      BY <2>1 DEF CopyStays, Revs, LocalRevs
    <2>2. ASSUME NEW t \in Tab, Copied(t, k) PROVE HeldRev(local'[k])
      <3>1. PICK d : local'[k] = CopyOf(t, d) /\ HeldRev(d)
        BY <1>1, <2>2 DEF Copied, Revs, HeldRevs
      <3> QED
        BY <3>1 DEF CopyOf, HeldRev
    <2> QED
      BY <2>1, <2>2 DEF Moves, LocalMoves
  <1>8. HeldRevs' /\ ListRevs' /\ LocalRevs'
    BY <1>0, <1>1, <1>7, <1>10 DEF HeldRevs, ListRevs, LocalRevs, HeldRev, Behinds, Current
  <1>9. ReqRevs' /\ ReqsHeld'
    BY <1>0, <1>5, <1>6 DEF ReqRevs, ReqsHeld, ReqRev, ReqOf, Behinds, Current
  <1> QED
    BY <1>8, <1>9 DEF Revs

\* A step of the server leaves a row, takes it, or gives it a later revision; new ids are new.
RowsOn ==
    \A i \in DOMAIN row' :
        \/ i \in DOMAIN row /\ (row'[i] = row[i] \/ row'[i].rev = row[i].rev + 1)
        \/ i = nextid

LEMMA OldRevs ==
  ASSUME NEW K, Typed(K), RowsOn, NEW i, NEW k, Tagged(K, i, k), NEW rev \in Nat, Behinds(i, rev)
  PROVE  /\ i \in DOMAIN row' => i \in DOMAIN row
         /\ Behinds(i, rev)'
         /\ Current(i, rev)' => Current(i, rev) /\ row'[i] = row[i]
  <1>1. i # nextid
    BY DEF Tagged, Typed, Counted
  <1>2. ASSUME i \in DOMAIN row'
        PROVE  /\ i \in DOMAIN row /\ row[i].rev \in Nat /\ rev <= row[i].rev
               /\ row'[i] = row[i] \/ row'[i].rev = row[i].rev + 1
    BY <1>1, <1>2, NoRow DEF Typed, RowsOn, Behinds
  <1>3. ASSUME i \in DOMAIN row', row'[i] # row[i] PROVE rev < row'[i].rev
    BY <1>2, <1>3
  <1> QED
    BY <1>2, <1>3 DEF Behinds, Current

LEMMA HeldRevOn ==
  ASSUME NEW K, Typed(K), RowsOn, NEW d, d.rev \in Nat, NEW k, Tagged(K, d.id, k), HeldRev(d)
  PROVE  HeldRev(d)'
  <1>1. d.rev \in Nat /\ Behinds(d.id, d.rev)
    BY DEF HeldRev
  <1>2. Behinds(d.id, d.rev)' /\ (Current(d.id, d.rev)' => Current(d.id, d.rev) /\ row'[d.id] = row[d.id])
    BY <1>1, OldRevs
  <1> QED
    BY <1>2 DEF HeldRev

LEMMA ReqRevOn ==
  ASSUME NEW K, Typed(K), RowsOn, NEW r \in reqs, ReqRev(r)
  PROVE  /\ ReqRev(r)'
         /\ r.id \in DOMAIN row' => r.id \in DOMAIN row
         /\ \A d : ReqOf(r, d) => ReqOf(r, d)'
  <1>1. IsReq(r) /\ Tagged(K, r.id, r.key) /\ Tagged(K, r.newid, r.key) /\ r.base \in Nat /\ r.newrev \in Nat
    BY DEF Typed, ReqsTyped, IsReq
  <1>2. Behinds(r.id, 0)
    BY NoRow DEF Typed, Behinds
  <1>3. r.id \in DOMAIN row' => r.id \in DOMAIN row
    BY <1>1, <1>2, OldRevs
  <1>4. r.ans = "none" => /\ Behinds(r.id, r.base)'
                          /\ Current(r.id, r.base)' => Current(r.id, r.base) /\ row'[r.id] = row[r.id]
    BY <1>1, OldRevs DEF ReqRev
  <1>5. r.ans = "saved" => /\ Behinds(r.newid, r.newrev)'
                           /\ Current(r.newid, r.newrev)' => Current(r.newid, r.newrev) /\ row'[r.newid] = row[r.newid]
    BY <1>1, OldRevs DEF ReqRev
  <1>6. ReqRev(r)'
    BY <1>4, <1>5 DEF ReqRev
  <1>7. \A d : ReqOf(r, d) => ReqOf(r, d)'
    BY <1>3, <1>4, <1>5 DEF ReqOf
  <1> QED
    BY <1>3, <1>6, <1>7

\* Rows that only go or stay.
LEMMA RevsRest ==
  ASSUME NEW K, Typed(K), Revs, RowsOn, Aside
  PROVE  HeldRevs' /\ ListRevs' /\ LocalRevs'
  <1>1. ASSUME NEW t \in Tab, NEW k \in DOMAIN held[t] PROVE HeldRev(held[t][k])'
    <2>1. PICK d : d = held[t][k]
      OBVIOUS
    <2>2. d.rev \in Nat /\ Tagged(K, d.id, k) /\ HeldRev(d)
      BY <2>1 DEF Typed, HeldTyped, Revs, HeldRevs, IsDraft
    <2>3. HeldRev(d)'
      BY <2>2, HeldRevOn
    <2> QED
      BY <2>1, <2>3 DEF Aside, HeldRev, Behinds, Current
  <1>2. ASSUME NEW t \in Tab, NEW i \in DOMAIN listing[t].rows PROVE HeldRev(listing[t].rows[i].draft)'
    <2>1. PICK d, k : d = listing[t].rows[i].draft /\ k = listing[t].rows[i].key
      OBVIOUS
    <2>2. i \in 1 .. nextid - 1 /\ K[i] = k /\ d.id = i
      BY <2>1 DEF Typed, ListsTyped
    <2>3. Tagged(K, d.id, k)
      BY <2>2 DEF Tagged, Typed, Counted
    <2>4. d.rev \in Nat /\ HeldRev(d)
      BY <2>1 DEF Typed, ListsTyped, Revs, ListRevs, IsDraft
    <2>5. HeldRev(d)'
      BY <2>3, <2>4, HeldRevOn
    <2> QED
      BY <2>1, <2>5 DEF Aside, HeldRev, Behinds, Current
  <1>3. HeldRevs'
    BY <1>1 DEF HeldRevs, Aside, HeldRev, Behinds, Current
  <1>4. ListRevs'
    BY <1>2 DEF ListRevs, Aside, HeldRev, Behinds, Current
  <1>5. ASSUME NEW k \in DOMAIN local PROVE HeldRev(local[k])'
    <2>1. PICK d : d = local[k]
      OBVIOUS
    <2>2. d.rev \in Nat /\ Tagged(K, d.id, k) /\ HeldRev(d)
      BY <2>1 DEF Typed, LocalTyped, IsCopy, Revs, LocalRevs
    <2>3. HeldRev(d)'
      BY <2>2, HeldRevOn
    <2> QED
      BY <2>1, <2>3 DEF Aside, HeldRev, Behinds, Current
  <1>6. LocalRevs'
    BY <1>5 DEF LocalRevs, Aside, HeldRev, Behinds, Current
  <1> QED
    BY <1>3, <1>4, <1>6

LEMMA RevsReqs ==
  ASSUME NEW K, Typed(K), Revs, RowsOn, Aside, \A q \in reqs' : q \in reqs \/
            (ReqRev(q)' /\ (q.live /\ q.key \in DOMAIN held[q.tab] => ReqOf(q, held[q.tab][q.key])'))
  PROVE  ReqRevs' /\ ReqsHeld'
  <1>1. ASSUME NEW q \in reqs PROVE ReqRev(q)' /\ (q.live /\ q.key \in DOMAIN held[q.tab] => ReqOf(q, held[q.tab][q.key])')
    <2>1. PICK d : d = held[q.tab][q.key]
      OBVIOUS
    <2>2. ReqRev(q) /\ (q.live /\ q.key \in DOMAIN held[q.tab] => ReqOf(q, d))
      BY <2>1 DEF Revs, ReqRevs, ReqsHeld
    <2>3. ReqRev(q)' /\ (ReqOf(q, d) => ReqOf(q, d)')
      BY <2>2, ReqRevOn
    <2> QED
      BY <2>1, <2>2, <2>3 DEF ReqOf, Current, Aside
  <1>2. \A q \in reqs' : ReqRev(q)'
    BY <1>1
  <1>3. \A q \in reqs' : q.live /\ q.key \in DOMAIN held[q.tab] => ReqOf(q, held[q.tab][q.key])'
    BY <1>1
  <1> QED
    BY <1>2, <1>3 DEF ReqRevs, ReqsHeld, Aside, ReqRev, ReqOf, Behinds, Current

LEMMA TakesKeeps ==
  ASSUME NEW K, Typed(K), Revs, NEW r \in reqs, r.ans = "none", NEW id, NEW rev, Takes(r, id, rev)
  PROVE  /\ RowsOn /\ \A i \in DOMAIN row \cap DOMAIN row' : row[i].words \subseteq row'[i].words \cup overrun'
         /\ id \in DOMAIN row' /\ row'[id].rev = rev /\ row'[id].words = r.words
  <1> USE DEF Typed, Revs
  <1>1. PICK x : x = [rev |-> rev, words |-> r.words, files |-> r.files, key |-> r.key]
    OBVIOUS
  <1>2. row' = Put(row, id, x)
    BY <1>1 DEF Takes
  <1>3. DOMAIN row' = DOMAIN row \cup {id} /\ row'[id] = x /\ \A i \in DOMAIN row \ {id} : row'[i] = row[i]
    BY <1>2 DEF Put
  <1>4. x.rev = rev /\ x.words = r.words
    BY <1>1
  <1>5. nextid \notin DOMAIN row
    BY DEF RowsTyped, Counted
  <1>6. CASE r.id = Nowhere
    <2>1. id = nextid
      BY <1>6 DEF Takes
    <2> QED
      BY <1>3, <1>4, <1>5, <2>1 DEF RowsOn
  <1>7. CASE r.id # Nowhere
    <2>1. id = r.id /\ id \in DOMAIN row /\ row[id].rev = r.base /\ rev = r.base + 1
      BY <1>7 DEF Takes
    <2>2. RowsOn
      BY <1>3, <1>4, <2>1 DEF RowsOn
    <2>3. ~r.blind => row[id].words \subseteq r.words
      BY <2>1 DEF ReqRevs, ReqRev, Current
    <2>4. r.blind => row[id].words \ r.words \subseteq overrun'
      BY <1>7 DEF Takes
    <2>5. row[id].words \subseteq r.words \cup overrun'
      BY <2>3, <2>4
    <2> QED
      BY <1>3, <1>4, <2>1, <2>2, <2>5
  <1> QED
    BY <1>6, <1>7

LEMMA RevsSaves ==
  ASSUME NEW K, Typed(K), Revs, NEW r \in reqs, ServerSaves(r)
  PROVE  /\ Revs' /\ \A i \in DOMAIN row \cap DOMAIN row' : row[i].words \subseteq row'[i].words \cup overrun'
  <1> USE DEF Typed, Revs
  <1>1. r.ans = "none" /\ Aside /\ (Refuses(r) \/ \E id, rev : Takes(r, id, rev))
    BY ServerSavesHow
  <1>2. IsReq(r) /\ ReqRev(r) /\ (r.live /\ r.key \in DOMAIN held[r.tab] => ReqOf(r, held[r.tab][r.key]))
    BY DEF ReqsTyped, ReqRevs, ReqsHeld
  <1>3. CASE Refuses(r)
    <2>1. PICK a, q : a = Refusal(r) /\ q = [r EXCEPT !.ans = a]
      OBVIOUS
    <2>2. /\ q.ans = a /\ q.tab = r.tab /\ q.key = r.key /\ q.id = r.id /\ q.base = r.base
          /\ q.words = r.words /\ q.live = r.live
      BY <1>2, <2>1, RefusedReq
    <2>3. a \in {"404", "409"} /\ reqs' = Answer(r, reqs, q) /\ row' = row /\ r.id # Nowhere
      BY <1>3, <2>1 DEF Refuses
    <2>4. RowsOn
      BY <2>3 DEF RowsOn
    <2>5. ReqRev(q)'
      BY <2>2, <2>3 DEF ReqRev
    <2>6. q.live /\ q.key \in DOMAIN held[q.tab] => ReqOf(q, held[q.tab][q.key])'
      BY <1>1, <1>2, <2>2, <2>3 DEF ReqOf, Aside
    <2>7. \A x \in reqs' : x \in reqs \/ x = q
      BY <2>3 DEF Answer
    <2>8. ReqRevs' /\ ReqsHeld'
      BY <1>1, <2>4, <2>5, <2>6, <2>7, RevsReqs
    <2> QED
      BY <1>1, <2>3, <2>4, <2>8, RevsRest
  <1>4. ASSUME NEW id, NEW rev, Takes(r, id, rev)
        PROVE  /\ Revs' /\ \A i \in DOMAIN row \cap DOMAIN row' : row[i].words \subseteq row'[i].words \cup overrun'
    <2>1. /\ RowsOn /\ \A i \in DOMAIN row \cap DOMAIN row' : row[i].words \subseteq row'[i].words \cup overrun'
          /\ id \in DOMAIN row' /\ row'[id].rev = rev /\ row'[id].words = r.words
      BY <1>1, <1>4, TakesKeeps
    <2>2. PICK a, ms, q : a = "saved" /\ ms = r.files \ disk /\ q = Answered(r, a, id, rev, ms)
      OBVIOUS
    <2>3. /\ q.ans = "saved" /\ q.tab = r.tab /\ q.key = r.key /\ q.id = r.id /\ q.base = r.base
          /\ q.words = r.words /\ q.live = r.live /\ q.newid = id /\ q.newrev = rev
      BY <1>2, <2>2, AnsweredReq
    <2>4. reqs' = Answer(r, reqs, q)
      BY <1>4, <2>2 DEF Takes
    <2>5. rev \in Nat
      BY <1>2, <1>4 DEF Takes, IsReq
    <2>6. ReqRev(q)'
      BY <1>4, <2>1, <2>3, <2>5 DEF ReqRev, Takes, Behinds
    <2>7. ASSUME q.live, q.key \in DOMAIN held[q.tab] PROVE ReqOf(q, held[q.tab][q.key])'
      <3>1. PICK d : d = held[r.tab][r.key]
        OBVIOUS
      <3>2. ReqOf(r, d)
        BY <1>2, <2>3, <2>7, <3>1
      <3>3. r.words \subseteq d.words
        BY <1>1, <1>4, <3>2 DEF ReqOf, Takes, Current
      <3>4. r.id \in DOMAIN row' => r.id \in DOMAIN row
        BY <1>2, <2>1, ReqRevOn
      <3>5. ReqOf(q, d)'
        BY <2>3, <3>2, <3>3, <3>4 DEF ReqOf
      <3> QED
        BY <1>1, <2>3, <3>1, <3>5 DEF Aside, ReqOf, Current
    <2>8. \A x \in reqs' : x \in reqs \/ x = q
      BY <2>4 DEF Answer
    <2>9. ReqRevs' /\ ReqsHeld'
      BY <1>1, <2>1, <2>6, <2>7, <2>8, RevsReqs
    <2> QED
      BY <1>1, <2>1, <2>9, RevsRest
  <1> QED
    BY <1>1, <1>3, <1>4

LEMMA RevsServer ==
  ASSUME NEW K, Typed(K), Revs, ServerWrites
  PROVE  /\ Revs' /\ \A i \in DOMAIN row \cap DOMAIN row' : row[i].words \subseteq row'[i].words \cup overrun'
  <1> DEFINE Kept2 == \A i \in DOMAIN row \cap DOMAIN row' : row[i].words \subseteq row'[i].words \cup overrun'
  <1>1. ASSUME NEW X, row' = Restrict(row, DOMAIN row \ X), Aside, reqs' = reqs PROVE Revs' /\ Kept2
    <2>1. \A i \in DOMAIN row' : i \in DOMAIN row /\ row'[i] = row[i]
      BY <1>1 DEF Restrict
    <2>2. RowsOn
      BY <2>1 DEF RowsOn
    <2> QED
      BY <1>1, <2>1, <2>2, RevsRest, RevsReqs DEF Revs
  <1>2. ASSUME row' = row, Aside, reqs' = reqs PROVE Revs' /\ Kept2
    BY <1>2, RevsRest, RevsReqs DEF Revs, RowsOn
  <1>3. ASSUME NEW t \in Tab, NEW crash, ServerSends(t, crash) PROVE Revs' /\ Kept2
    <2>1. Aside /\ reqs' = reqs
      BY <1>3 DEF ServerSends, Aside, page, store
    <2>2. row' = row \/ \E X : row' = Restrict(row, DOMAIN row \ X)
      BY <1>3 DEF ServerSends
    <2> QED
      BY <1>1, <1>2, <2>1, <2>2
  <1>4. ASSUME NEW x \in deletes, NEW crash, ServerDeletes(x, crash) PROVE Revs' /\ Kept2
    <2>1. Aside /\ reqs' = reqs /\ \E X : row' = Restrict(row, DOMAIN row \ X)
      BY <1>4 DEF ServerDeletes, Aside, page, store
    <2> QED
      BY <1>1, <2>1
  <1>5. ASSUME NEW days, NEW readable, Restart(days, readable) PROVE Revs' /\ Kept2
    <2>1. Aside /\ reqs' = reqs /\ row' = row
      BY <1>5 DEF Restart, Aside, page, wire, store
    <2> QED
      BY <1>2, <2>1
  <1> QED
    BY <1>3, <1>4, <1>5, RevsSaves DEF ServerWrites

LEMMA StepRevs ==
  ASSUME NEW K, Typed(K), Revs, [Next]_vars
  PROVE  /\ Revs' /\ \A i \in DOMAIN row \cap DOMAIN row' : row[i].words \subseteq row'[i].words \cup overrun'
  <1>1. CASE Moves
    BY <1>1, RevsMoves DEF Moves, RowsQuiet
  <1>2. CASE ServerWrites
    BY <1>2, RevsServer
  <1> QED
    BY <1>1, <1>2, StepMoves

\* A save never takes words out of a row that its tab has not seen: the revision it states
\* is compared with the row's, and a tab that states it has read the words.  What a tab
\* loses that takes a revision over without its text is counted in overrun.
THEOREM NothingUnseenOverwritten == Spec => SavesKeep
  <1> DEFINE Inv  == (\E K : Typed(K)) /\ Revs
             Keep == \A i \in DOMAIN row \cap DOMAIN row' : row[i].words \subseteq row'[i].words \cup overrun'
  <1>1. Init => Inv
    BY InitTyped DEF Init, Revs, HeldRevs, ReqRevs, ReqsHeld, ListRevs, LocalRevs, NoList
  <1>2. Inv /\ [Next]_vars => Inv' /\ [Keep]_vars
    <2> SUFFICES ASSUME NEW K, Typed(K), Revs, [Next]_vars PROVE Inv' /\ [Keep]_vars
      OBVIOUS
    <2>1. (\E L : Typed(L))'
      BY StepTyped
    <2>2. Revs' /\ Keep
      BY StepRevs
    <2> QED
      BY <2>1, <2>2
  <1>3. SavesKeep <=> [][Keep]_vars
    BY DEF SavesKeep
  <1> HIDE DEF Keep
  <1> QED
    BY <1>1, <1>2, <1>3, PTL DEF Spec

----------------------------------------------------------------------------
\* Words: what is not in a page or in this browser's storage is on the shelf, in a row or
\* among what was sent, thrown away or lost to what the code does not guard against.
Over  == sent \cup thrown \cup overrun
Shelf == DraftWords(row) \cup Over

Filed(d) == d.sig # NoSig => d.sig[1] \subseteq Shelf

HeldFiled == \A t \in Tab : \A k \in DOMAIN held[t] : Filed(held[t][k])
ListFiled == \A t \in Tab : \A i \in DOMAIN listing[t].rows : Filed(listing[t].rows[i].draft)
ReqFiled  == \A r \in reqs : r.ans = "saved" => r.words \subseteq Shelf

\* The first save of a draft that is done with has nothing to bring back.
ReqOver   == \A r \in reqs : r.live /\ r.id = Nowhere /\ r.key \in gone[r.tab] => r.words \subseteq Over

\* A copy is its tab's, and that tab has it or the shelf does, until the tab goes.
LocalHeld == \A k \in DOMAIN local : local[k].owner \in up =>
                 local[k].words \subseteq DraftWords(held[local[k].owner]) \cup Shelf

\* A row that is to be deleted at the revision it has holds nothing that is not over with.
DeleteOver(x) == Behinds(x.id, x.rev) /\ (Current(x.id, x.rev) => row[x.id].words \subseteq Over)
DeletesOver   == \A x \in deletes : DeleteOver(x)

\* What is being sent is what its draft says, and no more is in the row it takes.
PostSays(t) ==
    LET p == post[t] IN
    /\ held[t][p.key].words = p.words
    /\ p.phase = "out" => Behinds(p.id, p.rev) /\ (Current(p.id, p.rev) => row[p.id].words \subseteq p.words)
    /\ p.phase = "answered" /\ p.ans = "sent" => p.words \subseteq sent
PostsSay == \A t \in Tab : post[t] # NoPost => PostSays(t)

WordsIn == /\ WordsKept /\ HeldFiled /\ ListFiled /\ ReqFiled /\ ReqOver /\ LocalHeld /\ DeletesOver
           /\ PostsSay

LEMMA CleanFiled ==
  ASSUME NEW d, IsDraft(d), ~Dirty(d), Filed(d) PROVE d.words \subseteq Shelf
  BY SomeSig DEF Dirty, Sig, Filed

LEMMA ShelfMoves ==
  ASSUME Moves PROVE Shelf \subseteq Shelf' /\ Over \subseteq Over' /\ Over' \subseteq Shelf'
  BY DEF Moves, PastGrows, RowsQuiet, Shelf, Over, DraftWords

\* What a tab held it holds on to, or the shelf does, or its copy as it goes.
LEMMA HeldMovesOn ==
  ASSUME NEW K, Typed(K), WordsIn, Moves, NEW t \in Tab, NEW k \in DOMAIN held[t]
  PROVE  \/ held[t][k].words \subseteq DraftWords(held'[t]) \cup Shelf'
         \/ t \notin up' /\ held[t][k].words \subseteq DraftWords(local') \cup Shelf'
  <1> USE DEF Typed, WordsIn
  <1>1. PICK d : d = held[t][k] /\ IsDraft(d) /\ Filed(d)
    BY DEF HeldTyped, HeldFiled
  <1>2. Shelf \subseteq Shelf' /\ Over' \subseteq Shelf'
    BY ShelfMoves
  <1>3. ~Dirty(d) => d.words \subseteq Shelf'
    BY <1>1, <1>2, CleanFiled
  <1>4. CASE Stays(t, k)
    <2>1. PICK e : e = held'[t][k]
      OBVIOUS
    <2>2. d.words \subseteq e.words => d.words \subseteq DraftWords(held'[t])
      BY <1>4, <2>1 DEF Stays, DraftWords
    <2>3. CASE Edits(t, k, d, e)
      BY <1>1, <2>2, <2>3 DEF Edits
    <2>4. CASE GetsSaved(t, k, d, e)
      <3>1. PICK r : e = Saved(d, r)
        BY <2>4 DEF GetsSaved
      <3>2. e.words = d.words
        BY <1>1, <3>1 DEF IsDraft, Saved
      <3> QED
        BY <1>1, <2>2, <3>2
    <2>5. CASE GetsCut(t, k, d, e)
      BY <1>1, <2>2, <2>5, DetachedDraft DEF GetsCut
    <2>6. CASE GetsAdopted(t, k, d, e)
      <3>1. PICK i, x : e = Adopted(d, i, x)
        BY <2>6 DEF GetsAdopted
      <3>2. e.words = d.words
        BY <1>1, <3>1 DEF IsDraft, Adopted
      <3> QED
        BY <1>1, <2>2, <3>2
    <2>7. CASE GetsReplaced(t, k, d, e)
      BY <1>1, <1>3, <2>7 DEF GetsReplaced
    <2> QED
      BY <1>1, <1>4, <2>1, <2>3, <2>4, <2>5, <2>6, <2>7 DEF Stays
  <1>5. CASE Departs(t, k)
    <2>1. CASE LeftWith(t, d)
      BY <1>1, <1>2, <1>3, <2>1 DEF LeftWith, Over
    <2>2. CASE ThrownAway(t, k, d)
      BY <1>1, <1>2, <2>2 DEF ThrownAway, Over
    <2>3. CASE SentOff(t, k)
      <3>1. d.words \subseteq sent
        BY <1>1, <2>3 DEF SentOff, PostsSay, PostSays
      <3> QED
        BY <1>1, <1>2, <3>1 DEF Shelf, Over
    <2>4. CASE LetGo(t, k, d)
      BY <1>1, <1>3, <2>4 DEF LetGo
    <2>5. CASE Forks(t, k, d)
      <3>1. held'[t][nextkey].words = d.words /\ nextkey \in DOMAIN held'[t]
        BY <1>1, <2>5, DetachedDraft DEF Forks
      <3> QED
        BY <1>1, <3>1 DEF DraftWords
    <2> QED
      BY <1>1, <1>5, <2>1, <2>2, <2>3, <2>4, <2>5 DEF Departs
  <1> QED
    BY <1>4, <1>5 DEF Moves, HeldMoves

LEMMA WordsKeptMoves ==
  ASSUME NEW K, Typed(K), WordsIn, Moves
  PROVE  WordsKept'
  <1> USE DEF Typed, WordsIn
  <1> DEFINE All == Words' \cup sent' \cup thrown' \cup overrun'
  <1>1. Shelf \subseteq Shelf' /\ Shelf' \subseteq All
    BY ShelfMoves DEF Shelf, Over, Words
  <1>2. ASSUME NEW t \in Tab PROVE DraftWords(held'[t]) \subseteq All
    BY DEF Words
  <1>3. DraftWords(local') \subseteq All
    BY DEF Words
  <1>4. ASSUME NEW t \in Tab, NEW k \in DOMAIN held[t] PROVE held[t][k].words \subseteq All
    BY <1>1, <1>2, <1>3, HeldMovesOn
  <1>5. ASSUME NEW k \in DOMAIN local PROVE local[k].words \subseteq All
    <2>1. CASE CopyStays(k)
      BY <1>3, <2>1 DEF CopyStays, DraftWords
    <2>2. CASE local[k].owner \in up
      <3>1. local[k].words \subseteq DraftWords(held[local[k].owner]) \cup Shelf
        BY <2>2 DEF LocalHeld
      <3>2. local[k].owner \in Tab
        BY <2>2 DEF PagesTyped
      <3>3. DraftWords(held[local[k].owner]) \subseteq All
        BY <1>4, <3>2 DEF DraftWords
      <3> QED
        BY <1>1, <3>1, <3>3
    <2>3. CASE local[k].words \subseteq overrun' \/ \E t \in Tab : local[k].words \subseteq DraftWords(held'[t])
      BY <1>2, <2>3
    <2> QED
      BY <2>1, <2>2, <2>3 DEF Moves, LocalMoves, CopyGoes
  <1>6. Words \cup sent \cup thrown \cup overrun \subseteq All
    <2>1. DraftWords(local) \subseteq All
      BY <1>5 DEF DraftWords
    <2>2. UNION {DraftWords(held[t]) : t \in Tab} \subseteq All
      BY <1>4 DEF DraftWords
    <2>3. DraftWords(row) \cup sent \cup thrown \cup overrun \subseteq All
      BY <1>1 DEF Shelf, Over
    <2> QED
      BY <2>1, <2>2, <2>3 DEF Words
  <1>7. typed \in Nat /\ 1 .. typed \subseteq All
    BY <1>6 DEF Counted, WordsKept
  <1>8. CASE typed' = typed
    BY <1>7, <1>8 DEF WordsKept
  <1>9. CASE typed' = typed + 1 /\ \E t \in Tab : typed' \in DraftWords(held'[t])
    <2>1. typed + 1 \in All
      BY <1>2, <1>9
    <2> HIDE DEF All
    <2>2. \A n \in 1 .. typed + 1 : n \in 1 .. typed \/ n = typed + 1
      BY <1>7
    <2>3. 1 .. typed + 1 \subseteq All
      BY <1>7, <2>1, <2>2
    <2> QED
      BY <1>9, <2>3 DEF WordsKept, All
  <1> QED
    BY <1>8, <1>9 DEF Moves, Counts

\* What a draft was last saved as is in its row.
LEMMA FetchedFiled ==
  ASSUME NEW K, Typed(K), Moves, NEW i \in DOMAIN row, NEW e, e = FromServer(i, row[i], row[i].files \ disk)
  PROVE  Filed(e)'
  <1>1. PICK x, ms : x = row[i] /\ ms = row[i].files \ disk
    OBVIOUS
  <1>2. i \in Nat \ {0} /\ x.rev \in Nat
    BY <1>1 DEF Typed, RowsTyped, IsSavedRow, Counted
  <1>3. e.sig # NoSig => e.sig = <<x.words, x.files>>
    <2>1. e = FromServer(i, x, ms)
      BY <1>1
    <2>2. FromServer(i, x, ms).sig # NoSig => FromServer(i, x, ms).sig = <<x.words, x.files>>
      BY <1>2, FetchedDraft
    <2> QED
      BY <2>1, <2>2
  <1>4. x.words \subseteq Shelf
    BY <1>1 DEF Shelf, DraftWords
  <1>5. x.words \subseteq Shelf'
    BY <1>4, ShelfMoves
  <1>6. e.sig # NoSig => e.sig[1] \subseteq Shelf'
    BY <1>3, <1>5
  <1> QED
    BY <1>6 DEF Filed

LEMMA HeldFiledMoves ==
  ASSUME NEW K, Typed(K), WordsIn, Moves, NEW t \in Tab, NEW k \in DOMAIN held'[t]
  PROVE  held'[t][k].sig # NoSig => held'[t][k].sig[1] \subseteq Shelf'
  <1> USE DEF Typed, WordsIn
  <1> DEFINE e == held'[t][k]
             Good == e.sig # NoSig => e.sig[1] \subseteq Shelf'
  <1>1. Shelf \subseteq Shelf'
    BY ShelfMoves
  <1>2. ASSUME NEW i \in DOMAIN listing[t].rows, e = listing[t].rows[i].draft PROVE Good
    BY <1>1, <1>2 DEF ListFiled, Filed
  <1>3. CASE k \in DOMAIN held[t]
    <2>1. PICK d : d = held[t][k] /\ IsDraft(d) /\ Filed(d)
      BY <1>3 DEF HeldTyped, HeldFiled
    <2>2. CASE Edits(t, k, d, e)
      BY <1>1, <2>1, <2>2 DEF Edits, Filed
    <2>3. CASE GetsSaved(t, k, d, e)
      <3>1. PICK r \in reqs : r.ans = "saved" /\ e = Saved(d, r)
        BY <2>3 DEF GetsSaved
      <3>2. e.sig = <<r.words, r.files>>
        BY <2>1, <3>1 DEF IsDraft, Saved
      <3>3. r.words \subseteq Shelf'
        BY <1>1, <3>1 DEF ReqFiled
      <3> QED
        BY <3>2, <3>3
    <2>4. CASE GetsCut(t, k, d, e)
      BY <2>1, <2>4, DetachedDraft DEF GetsCut
    <2>5. CASE GetsAdopted(t, k, d, e)
      <3>1. PICK i, x : e = Adopted(d, i, x) /\ d.id = Nowhere
        BY <2>5 DEF GetsAdopted
      <3>2. e.sig = NoSig
        BY <2>1, <3>1 DEF IsDraft, Adopted
      <3> QED
        BY <3>2
    <2>6. CASE GetsReplaced(t, k, d, e)
      BY <1>2, <2>6 DEF GetsReplaced
    <2> QED
      BY <1>3, <2>1, <2>2, <2>3, <2>4, <2>5, <2>6 DEF Moves, HeldMoves, Stays, Departs
  <1>4. CASE k \notin DOMAIN held[t]
    <2>1. CASE Begun(k, e)
      BY <2>1 DEF Begun, Draft
    <2>2. CASE Forked2(t, k, e)
      <3>1. PICK x \in DOMAIN held[t] : e = Detached(held[t][x])
        BY <2>2 DEF Forked2
      <3>2. PICK d : d = held[t][x] /\ IsDraft(d)
        BY DEF HeldTyped
      <3> QED
        BY <3>1, <3>2, DetachedDraft
    <2>3. CASE Fetched(t, k, e)
      BY <1>2, <2>3 DEF Fetched
    <2>4. CASE Loaded(t, k, e)
      <3>1. CASE \E i \in DOMAIN row : row[i].key = k /\ e = FromServer(i, row[i], row[i].files \ disk)
        <4>1. PICK i \in DOMAIN row : e = FromServer(i, row[i], row[i].files \ disk)
          BY <3>1
        <4>2. PICK x : x = e
          OBVIOUS
        <4>3. Filed(x)'
          BY <4>1, <4>2, FetchedFiled
        <4> QED
          BY <4>2, <4>3 DEF Filed
      <3>2. CASE k \in DOMAIN local /\ \E offline \in BOOLEAN : e = LocalDraft(k, offline)
        BY <3>2, RevivedDraft DEF Revived
      <3> QED
        BY <2>4, <3>1, <3>2 DEF Loaded
    <2> QED
      BY <1>4, <2>1, <2>2, <2>3, <2>4 DEF Moves, HeldMoves, Comes
  <1> QED
    BY <1>3, <1>4

LEMMA ListFiledMoves ==
  ASSUME NEW K, Typed(K), WordsIn, Moves
  PROVE  ListFiled'
  <1> SUFFICES ASSUME NEW t \in Tab, NEW i \in DOMAIN listing'[t].rows, listing'[t].rows[i].draft.sig # NoSig
               PROVE  listing'[t].rows[i].draft.sig[1] \subseteq Shelf'
    BY DEF ListFiled, Filed
  <1>1. CASE listing'[t] = listing[t]
    BY <1>1, ShelfMoves DEF WordsIn, ListFiled, Filed
  <1>2. CASE listing'[t] = NoList
    BY <1>2 DEF NoList
  <1>3. CASE listing'[t] = AnswerOf(t)
    <2>1. i \in DOMAIN row /\ listing'[t].rows[i].draft = FromServer(i, row[i], row[i].files \ disk)
      BY <1>3 DEF AnswerOf
    <2>2. PICK e : e = listing'[t].rows[i].draft
      OBVIOUS
    <2>3. Filed(e)'
      BY <2>1, <2>2, FetchedFiled
    <2> QED
      BY <2>2, <2>3 DEF Filed
  <1> QED
    BY <1>1, <1>2, <1>3 DEF Moves, ListMoves

LEMMA ReqFiledMoves ==
  ASSUME NEW K, Typed(K), WordsIn, Moves
  PROVE  ReqFiled'
  <1> SUFFICES ASSUME NEW q \in reqs', q.ans = "saved" PROVE q.words \subseteq Shelf'
    BY DEF ReqFiled
  <1>1. q \in reqs
    <2>1. ASSUME NEW r \in reqs, Lost(r, q) \/ Strays(r, q) PROVE FALSE
      BY <2>1 DEF Typed, ReqsTyped, IsReq, Lost, Strays
    <2>2. ASSUME NEW t \in Tab, NEW k, Asks(t, k, q) PROVE FALSE
      BY <2>2 DEF Asks, Asking
    <2> QED
      BY <2>1, <2>2 DEF Moves, ReqMoves
  <1> QED
    BY <1>1, ShelfMoves DEF WordsIn, ReqFiled

LEMMA ReqOverMoves ==
  ASSUME NEW K, Typed(K), Revs, WordsIn, Moves
  PROVE  ReqOver'
  <1> USE DEF Typed, Revs, WordsIn
  <1> SUFFICES ASSUME NEW q \in reqs', q.live, q.id = Nowhere, q.key \in gone'[q.tab]
               PROVE  q.words \subseteq Over'
    BY DEF ReqOver
  <1>1. PICK t, k : t = q.tab /\ k = q.key
    OBVIOUS
  <1>2. t \in Tab /\ t \in up' /\ k \in gone'[t]
    <2>1. ReqsTyped(K)' /\ PagesTyped'
      BY TypedMoves
    <2> QED
      BY <1>1, <2>1 DEF ReqsTyped, PagesTyped
  <1>3. PICK r \in reqs : /\ r.live /\ r.id = Nowhere /\ r.tab = t /\ r.key = k /\ r.words = q.words
                          /\ r \in reqs' \/ (UNCHANGED <<held, gone>>)
    <2>1. ASSUME NEW r \in reqs, Lost(r, q)
          PROVE  /\ r.live /\ r.id = Nowhere /\ r.tab = t /\ r.key = k /\ r.words = q.words
                 /\ UNCHANGED <<held, gone>>
      BY <1>1, <2>1 DEF ReqsTyped, IsReq, Lost
    <2>2. ASSUME NEW r \in reqs, Strays(r, q) PROVE FALSE
      BY <2>2 DEF ReqsTyped, IsReq, Strays
    <2>3. ASSUME NEW u \in Tab, NEW x, Asks(u, x, q) PROVE FALSE
      BY <1>1, <1>2, <2>3 DEF Asks, Asking
    <2>4. CASE q \in reqs
      BY <1>1, <2>4
    <2> QED
      BY <2>1, <2>2, <2>3, <2>4 DEF Moves, ReqMoves
  <1>4. CASE k \in gone[t]
    BY <1>3, <1>4, ShelfMoves DEF ReqOver
  <1>5. CASE k \notin gone[t]
    <2>1. r \in reqs' /\ k \in DOMAIN held[t] /\ k \notin DOMAIN held'[t]
      BY <1>2, <1>3, <1>5 DEF Moves, GoneMoves
    <2>2. PICK d : d = held[t][k]
      OBVIOUS
    <2>3. IsDraft(d) /\ r.words \subseteq d.words /\ d.sig = NoSig
      <3>1. IsDraft(d)
        BY <1>2, <2>1, <2>2 DEF HeldTyped
      <3>2. ReqOf(r, d)
        BY <1>3, <2>1, <2>2 DEF ReqsHeld
      <3> QED
        BY <1>3, <3>1, <3>2 DEF ReqOf
    <2>4. Dirty(d)
      BY <2>3, SomeSig DEF Dirty, Sig
    <2>5. Answers(r, t, k)
      BY <1>3 DEF Answers
    <2>6. LeftWith(t, d) \/ ThrownAway(t, k, d) \/ SentOff(t, k) \/ LetGo(t, k, d) \/ Forks(t, k, d)
      BY <1>2, <2>1, <2>2 DEF Moves, HeldMoves, Stays, Departs
    <2>7. ~LeftWith(t, d) /\ ~LetGo(t, k, d) /\ ~Forks(t, k, d)
      BY <1>2, <2>4 DEF LeftWith, LetGo, Forks
    <2>8. ~SentOff(t, k)
      BY <1>2, <2>5 DEF SentOff, PostsTyped
    <2>9. d.words \subseteq Over'
      BY <2>6, <2>7, <2>8 DEF ThrownAway, Over
    <2> QED
      BY <1>3, <2>3, <2>9
  <1> QED
    BY <1>4, <1>5

LEMMA LocalHeldMoves ==
  ASSUME NEW K, Typed(K), WordsIn, Moves
  PROVE  LocalHeld'
  <1> USE DEF Typed, WordsIn
  <1> SUFFICES ASSUME NEW k \in DOMAIN local', local'[k].owner \in up'
               PROVE  local'[k].words \subseteq DraftWords(held'[local'[k].owner]) \cup Shelf'
    BY DEF LocalHeld
  <1>1. PICK u : u = local'[k].owner
    OBVIOUS
  <1>2. CASE CopyStays(k)
    <2>1. k \in DOMAIN local /\ local'[k] = local[k]
      BY <1>2 DEF CopyStays
    <2>2. CASE u \in up
      <3>1. local[k].words \subseteq DraftWords(held[u]) \cup Shelf
        BY <1>1, <2>1, <2>2 DEF LocalHeld
      <3>2. u \in Tab
        BY <2>2 DEF PagesTyped
      <3>3. \A x \in DOMAIN held[u] : held[u][x].words \subseteq DraftWords(held'[u]) \cup Shelf'
        BY <1>1, <3>2, HeldMovesOn
      <3>4. DraftWords(held[u]) \subseteq DraftWords(held'[u]) \cup Shelf'
        <4>1. PICK S : S = DraftWords(held'[u]) \cup Shelf'
          OBVIOUS
        <4> QED
          BY <3>3, <4>1 DEF DraftWords
      <3> QED
        BY <1>1, <2>1, <3>1, <3>4, ShelfMoves
    <2>3. CASE u \notin up
      BY <1>1, <1>2, <2>1, <2>3 DEF CopyStays
    <2> QED
      BY <2>2, <2>3
  <1>3. ASSUME NEW t \in Tab, Copied(t, k)
        PROVE  local'[k].words \subseteq DraftWords(held'[local'[k].owner]) \cup Shelf'
    <2>1. local'[k].owner = t
      BY <1>3 DEF Copied, CopyOf
    <2>2. k \in DOMAIN held'[t] /\ local'[k].words = held'[t][k].words
      BY <1>3, <2>1 DEF Copied, CopyOf
    <2> QED
      BY <2>1, <2>2 DEF DraftWords
  <1> QED
    BY <1>2, <1>3 DEF Moves, LocalMoves

LEMMA DeletesOverMoves ==
  ASSUME NEW K, Typed(K), Revs, WordsIn, Moves
  PROVE  DeletesOver'
  <1> USE DEF Typed, Revs, WordsIn
  <1>1. row' = row /\ Over \subseteq Over'
    BY ShelfMoves DEF Moves, RowsQuiet
  <1> SUFFICES ASSUME NEW x \in deletes'
               PROVE  Behinds(x.id, x.rev) /\ (Current(x.id, x.rev) => row[x.id].words \subseteq Over')
    BY <1>1 DEF DeletesOver, DeleteOver, Behinds, Current
  <1>2. CASE x \in deletes
    BY <1>1, <1>2 DEF DeletesOver, DeleteOver
  <1>3. ASSUME NEW t \in Tab, NEW k \in DOMAIN held[t], held[t][k].words \subseteq thrown',
               x = [id |-> held[t][k].id, rev |-> Seen(held[t][k]), key |-> k]
        PROVE  Behinds(x.id, x.rev) /\ (Current(x.id, x.rev) => row[x.id].words \subseteq Over')
    <2>1. PICK d : d = held[t][k] /\ IsDraft(d) /\ HeldRev(d)
      BY DEF HeldTyped, HeldRevs
    <2>2. x.id = d.id /\ x.rev = Seen(d) /\ d.words \subseteq Over'
      BY <1>3, <2>1 DEF Over
    <2>3. CASE d.blind
      BY <2>2, <2>3, NoRow DEF Seen, Behinds, Current
    <2>4. CASE ~d.blind
      BY <2>1, <2>2, <2>4 DEF Seen, HeldRev
    <2> QED
      BY <2>1, <2>3, <2>4 DEF IsDraft
  <1>4. ASSUME NEW r \in reqs, r.live, r.ans = "saved", r.id = Nowhere, r.key \in gone[r.tab],
               x = [id |-> r.newid, rev |-> r.newrev, key |-> r.key]
        PROVE  Behinds(x.id, x.rev) /\ (Current(x.id, x.rev) => row[x.id].words \subseteq Over')
    <2>1. ReqRev(r) /\ r.words \subseteq Over'
      BY <1>1, <1>4 DEF ReqRevs, ReqOver
    <2> QED
      BY <1>4, <2>1 DEF ReqRev
  <1> QED
    BY <1>2, <1>3, <1>4 DEF Moves, DeleteMoves

\* Nobody writes in a draft that is being sent, and no list replaces it.
LEMMA SaidMoves ==
  ASSUME NEW K, Typed(K), Moves, NEW t \in Tab, post[t] # NoPost, post'[t] # NoPost,
         post'[t].key = post[t].key
  PROVE  held'[t][post[t].key].words = held[t][post[t].key].words
  <1> USE DEF Typed
  <1>1. PICK k, d, e : k = post[t].key /\ d = held[t][k] /\ e = held'[t][k]
    OBVIOUS
  <1>2. PostsTyped(K)'
    BY TypedMoves
  <1>3. k \in DOMAIN held'[t] /\ k \in DOMAIN held[t] /\ k = screen[t] /\ IsDraft(d)
    BY <1>1, <1>2 DEF PostsTyped, HeldTyped
  <1>4. CASE Edits(t, k, d, e)
    BY <1>1, <1>4 DEF Edits
  <1>5. CASE GetsSaved(t, k, d, e)
    BY <1>1, <1>3, <1>5 DEF GetsSaved, Saved, IsDraft
  <1>6. CASE GetsCut(t, k, d, e)
    BY <1>1, <1>3, <1>6, DetachedDraft DEF GetsCut
  <1>7. CASE GetsAdopted(t, k, d, e)
    BY <1>1, <1>3, <1>7 DEF GetsAdopted, Adopted, IsDraft
  <1>8. CASE GetsReplaced(t, k, d, e)
    BY <1>3, <1>8 DEF GetsReplaced
  <1> QED
    BY <1>1, <1>3, <1>4, <1>5, <1>6, <1>7, <1>8 DEF Moves, HeldMoves, Stays, Departs

LEMMA PostsSayMoves ==
  ASSUME NEW K, Typed(K), Revs, WordsIn, Moves
  PROVE  PostsSay'
  <1> USE DEF Typed, WordsIn
  <1>0. row' = row /\ sent \subseteq sent'
    BY DEF Moves, RowsQuiet, PastGrows
  <1> SUFFICES ASSUME NEW t \in Tab, post'[t] # NoPost
               PROVE  LET q == post'[t] IN
                      /\ held'[t][q.key].words = q.words
                      /\ q.phase = "out" => Behinds(q.id, q.rev) /\ (Current(q.id, q.rev) => row[q.id].words \subseteq q.words)
                      /\ q.phase = "answered" /\ q.ans = "sent" => q.words \subseteq sent'
    BY <1>0 DEF PostsSay, PostSays, Behinds, Current
  <1>1. PICK p, q : p = post[t] /\ q = post'[t]
    OBVIOUS
  <1>2. CASE q = p
    BY <1>0, <1>1, <1>2, SaidMoves DEF PostsSay, PostSays
  <1>3. CASE p = NoPost /\ Presses(t)
    <2>1. q = [phase |-> "waits", key |-> screen[t], words |-> held[t][screen[t]].words,
               files |-> held[t][screen[t]].files, id |-> Nowhere, rev |-> 0, ans |-> "none"]
      BY <1>1, <1>3 DEF Presses
    <2>2. held'[t][q.key].words = q.words /\ q.phase = "waits"
      BY <1>3, <2>1 DEF Presses
    <2> QED
      BY <1>1, <2>2
  <1>4. ASSUME p # NoPost
        PROVE  /\ p = [phase |-> p.phase, key |-> p.key, words |-> p.words, files |-> p.files, id |-> p.id,
                       rev |-> p.rev, ans |-> p.ans]
               /\ p.key \in DOMAIN held[t] /\ IsDraft(held[t][p.key]) /\ held[t][p.key].words = p.words
               /\ HeldRev(held[t][p.key])
    BY <1>1, <1>4 DEF PostsTyped, IsPost, HeldTyped, PostsSay, PostSays, Revs, HeldRevs
  <1>5. CASE p # NoPost /\ GoesOut(t)
    <2>1. PICK d : d = held[t][p.key]
      OBVIOUS
    <2>2. q = [phase |-> "out", key |-> p.key, words |-> p.words, files |-> p.files, id |-> d.id,
               rev |-> Seen(d), ans |-> p.ans]
      BY <1>1, <1>4, <1>5, <2>1 DEF GoesOut
    <2>3. q.key = p.key /\ q.words = p.words /\ q.id = d.id /\ q.rev = Seen(d) /\ q.phase = "out"
      BY <2>2
    <2>4. held'[t][q.key].words = q.words
      BY <1>1, <1>4, <1>5, <2>3, SaidMoves
    <2>5. Behinds(d.id, Seen(d)) /\ (Current(d.id, Seen(d)) => row[d.id].words \subseteq d.words)
      <3>1. CASE d.blind
        BY <3>1, NoRow DEF Seen, Behinds, Current
      <3>2. CASE ~d.blind
        BY <1>4, <1>5, <2>1, <3>2 DEF Seen, HeldRev
      <3> QED
        BY <3>1, <3>2
    <2> QED
      BY <1>1, <1>4, <1>5, <2>1, <2>3, <2>4, <2>5
  <1>6. CASE p # NoPost /\ GoesMissing(t)
    <2>1. q = [phase |-> "answered", key |-> p.key, words |-> p.words, files |-> p.files, id |-> p.id,
               rev |-> p.rev, ans |-> "lost"]
      BY <1>1, <1>4, <1>6 DEF GoesMissing
    <2>2. q.key = p.key /\ q.words = p.words /\ q.phase = "answered" /\ q.ans = "lost"
      BY <2>1
    <2>3. held'[t][q.key].words = q.words
      BY <1>1, <1>4, <1>6, <2>2, SaidMoves
    <2> QED
      BY <1>1, <2>2, <2>3
  <1>7. CASE p # NoPost /\ GoesOn(t)
    <2>1. q = [phase |-> p.phase, key |-> nextkey, words |-> p.words, files |-> p.files, id |-> p.id,
               rev |-> p.rev, ans |-> p.ans]
      BY <1>1, <1>4, <1>7 DEF GoesOn
    <2>2. p.phase = "waits"
      BY <1>1, <1>4, <1>7 DEF GoesOn, PostsTyped, IsPost
    <2>3. held'[t][nextkey].words = p.words
      <3>1. PICK d : d = held[t][p.key]
        OBVIOUS
      <3>2. held'[t][nextkey] = Detached(d) /\ IsDraft(d) /\ d.words = p.words
        BY <1>1, <1>4, <1>7, <3>1 DEF GoesOn, Forks
      <3> QED
        BY <3>2, DetachedDraft
    <2> QED
      BY <1>1, <2>1, <2>2, <2>3
  <1> QED
    BY <1>1, <1>2, <1>3, <1>5, <1>6, <1>7 DEF Moves, PostMoves

LEMMA WordsMoves ==
  ASSUME NEW K, Typed(K), Revs, WordsIn, Moves
  PROVE  WordsIn'
  <1>1. HeldFiled'
    BY HeldFiledMoves DEF HeldFiled, Filed
  <1> QED
    BY <1>1, WordsKeptMoves, ListFiledMoves, ReqFiledMoves, ReqOverMoves, LocalHeldMoves, DeletesOverMoves,
       PostsSayMoves DEF WordsIn

----------------------------------------------------------------------------
\* The server's steps take no word off the shelf.
ShelfGrows == /\ Shelf \subseteq Shelf' /\ Over \subseteq Over' /\ sent \subseteq sent'

LEMMA WordsAside ==
  ASSUME NEW K, Typed(K), WordsIn, Aside, RowsOn, ShelfGrows
  PROVE  /\ WordsKept' /\ HeldFiled' /\ ListFiled' /\ LocalHeld'
         /\ \A x \in deletes : DeleteOver(x)'
         /\ \A t \in Tab : post[t] # NoPost /\ post'[t] = post[t] => PostSays(t)'
  <1> USE DEF Typed, WordsIn, ShelfGrows
  <1>1. WordsKept'
    <2>1. Words \cup sent \cup thrown \cup overrun \subseteq Words' \cup sent' \cup thrown' \cup overrun'
      <3>1. Words = DraftWords(row) \cup DraftWords(local) \cup UNION {DraftWords(held[t]) : t \in Tab}
        BY DEF Words
      <3>2. Words' = DraftWords(row') \cup DraftWords(local) \cup UNION {DraftWords(held[t]) : t \in Tab}
        BY DEF Words, Aside
      <3> QED
        BY <3>1, <3>2 DEF Shelf, Over
    <2> QED
      BY <2>1 DEF WordsKept, Aside
  <1>2. HeldFiled'
    BY DEF HeldFiled, Filed, Aside
  <1>3. ListFiled'
    BY DEF ListFiled, Filed, Aside
  <1>4. LocalHeld'
    BY DEF LocalHeld, Aside
  <1>5. ASSUME NEW x \in deletes PROVE DeleteOver(x)'
    <2>1. Tagged(K, x.id, x.key) /\ x.rev \in Nat /\ DeleteOver(x)
      BY DEF DeletesTyped, DeletesOver
    <2>2. Behinds(x.id, x.rev)' /\ (Current(x.id, x.rev)' => Current(x.id, x.rev) /\ row'[x.id] = row[x.id])
      BY <2>1, OldRevs DEF DeleteOver
    <2> QED
      BY <2>1, <2>2 DEF DeleteOver
  <1>6. ASSUME NEW t \in Tab, post[t] # NoPost, post'[t] = post[t] PROVE PostSays(t)'
    <2>1. PICK p : p = post[t]
      OBVIOUS
    <2>2. Tagged(K, p.id, p.key) /\ p.rev \in Nat /\ held[t][p.key].words = p.words
          /\ (p.phase = "out" => Behinds(p.id, p.rev) /\ (Current(p.id, p.rev) => row[p.id].words \subseteq p.words))
          /\ (p.phase = "answered" /\ p.ans = "sent" => p.words \subseteq sent)
      BY <1>6, <2>1 DEF PostsTyped, IsPost, PostsSay, PostSays
    <2>3. p.phase = "out" =>
             Behinds(p.id, p.rev)' /\ (Current(p.id, p.rev)' => Current(p.id, p.rev) /\ row'[p.id] = row[p.id])
      BY <2>2, OldRevs
    <2> QED
      BY <1>6, <2>1, <2>2, <2>3 DEF PostSays, Aside, Behinds, Current
  <1> QED
    BY <1>1, <1>2, <1>3, <1>4, <1>5, <1>6

LEMMA WordsSaves ==
  ASSUME NEW K, Typed(K), Revs, WordsIn, NEW r \in reqs, ServerSaves(r)
  PROVE  WordsIn'
  <1>1. /\ r.ans = "none" /\ Aside /\ (Refuses(r) \/ \E id, rev : Takes(r, id, rev))
        /\ UNCHANGED <<deletes, post, sent, thrown>>
    BY ServerSavesHow
  <1>2. IsReq(r)
    BY DEF Typed, ReqsTyped
  <1>3. PICK q : /\ reqs' = Answer(r, reqs, q) /\ q.live = r.live /\ q.tab = r.tab /\ q.key = r.key
                 /\ q.id = r.id /\ q.words = r.words
                 /\ q.ans = "saved" => \E i \in DOMAIN row' : row'[i].words = r.words
    <2>1. CASE Refuses(r)
      <3>1. PICK a, q : a = Refusal(r) /\ q = [r EXCEPT !.ans = a]
        OBVIOUS
      <3>2. /\ q.ans = a /\ q.tab = r.tab /\ q.key = r.key /\ q.id = r.id /\ q.words = r.words /\ q.live = r.live
        BY <1>2, <3>1, RefusedReq
      <3> QED
        BY <2>1, <3>1, <3>2 DEF Refuses
    <2>2. ASSUME NEW id, NEW rev, Takes(r, id, rev)
          PROVE \E q : /\ reqs' = Answer(r, reqs, q) /\ q.live = r.live /\ q.tab = r.tab /\ q.key = r.key
                       /\ q.id = r.id /\ q.words = r.words
                       /\ q.ans = "saved" => \E i \in DOMAIN row' : row'[i].words = r.words
      <3>1. PICK a, ms, q : a = "saved" /\ ms = r.files \ disk /\ q = Answered(r, a, id, rev, ms)
        OBVIOUS
      <3>2. /\ q.tab = r.tab /\ q.key = r.key /\ q.id = r.id /\ q.words = r.words /\ q.live = r.live
        BY <1>2, <3>1, AnsweredReq
      <3>3. reqs' = Answer(r, reqs, q)
        BY <2>2, <3>1 DEF Takes
      <3>4. id \in DOMAIN row' /\ row'[id].words = r.words
        BY <1>1, <2>2, TakesKeeps
      <3> QED
        BY <3>2, <3>3, <3>4
    <2> QED
      BY <1>1, <2>1, <2>2
  <1>4. RowsOn /\ DOMAIN row \subseteq DOMAIN row' /\ overrun \subseteq overrun'
    <2>1. CASE Refuses(r)
      BY <2>1 DEF Refuses, RowsOn
    <2>2. ASSUME NEW id, NEW rev, Takes(r, id, rev) PROVE RowsOn /\ DOMAIN row \subseteq DOMAIN row' /\ overrun \subseteq overrun'
      <3>1. RowsOn
        BY <1>1, <2>2, TakesKeeps
      <3>2. DOMAIN row \subseteq DOMAIN row'
        BY <2>2 DEF Takes, Put
      <3>3. overrun \subseteq overrun'
        BY <2>2 DEF Takes
      <3> QED
        BY <3>1, <3>2, <3>3
    <2> QED
      BY <1>1, <2>1, <2>2
  <1>5. \A i \in DOMAIN row : row[i].words \subseteq row'[i].words \cup overrun'
    BY <1>4, RevsSaves
  <1>6. ShelfGrows
    <2>1. Over \subseteq Over' /\ sent \subseteq sent'
      BY <1>1, <1>4 DEF Over
    <2>2. ASSUME NEW i \in DOMAIN row PROVE row[i].words \subseteq Shelf'
      BY <1>4, <1>5 DEF Shelf, Over, DraftWords
    <2>3. DraftWords(row) \subseteq Shelf'
      BY <2>2 DEF DraftWords
    <2>4. Over' \subseteq Shelf'
      BY DEF Shelf
    <2> QED
      BY <2>1, <2>3, <2>4 DEF ShelfGrows, Shelf
  <1>7. ReqFiled'
    <2>1. q.ans = "saved" => q.words \subseteq Shelf'
      BY <1>3 DEF Shelf, DraftWords
    <2> QED
      BY <1>3, <1>6, <2>1 DEF ReqFiled, WordsIn, ShelfGrows, Answer
  <1>8. ReqOver'
    <2>1. \A x \in reqs : x.live /\ x.id = Nowhere /\ x.key \in gone[x.tab] => x.words \subseteq Over'
      BY <1>6 DEF WordsIn, ReqOver, ShelfGrows
    <2> QED
      BY <1>1, <1>3, <2>1 DEF ReqOver, Answer, Aside
  <1> QED
    BY <1>1, <1>4, <1>6, <1>7, <1>8, WordsAside DEF WordsIn, DeletesOver, PostsSay

\* A row that goes leaves its words on the shelf.
LEMMA RowsGoWords ==
  ASSUME NEW K, Typed(K), Revs, WordsIn, Aside, NEW i, row' = Restrict(row, DOMAIN row \ (DOMAIN row \cap {i})),
         Over \subseteq Over', sent \subseteq sent', i \in DOMAIN row => row[i].words \subseteq Over',
         reqs' = reqs, deletes' \subseteq deletes
  PROVE  /\ WordsKept' /\ HeldFiled' /\ ListFiled' /\ LocalHeld' /\ ReqFiled' /\ ReqOver' /\ DeletesOver'
         /\ \A t \in Tab : post[t] # NoPost /\ post'[t] = post[t] => PostSays(t)'
  <1>1. DOMAIN row' = DOMAIN row \ {i} /\ \A j \in DOMAIN row' : row'[j] = row[j]
    BY DEF Restrict
  <1>2. RowsOn
    BY <1>1 DEF RowsOn
  <1>3. ShelfGrows
    <2>1. Over' \subseteq Shelf'
      BY DEF Shelf
    <2>2. ASSUME NEW j \in DOMAIN row PROVE row[j].words \subseteq Shelf'
      <3>1. CASE j = i
        BY <2>1, <3>1
      <3>2. CASE j # i
        BY <1>1, <3>2 DEF Shelf, DraftWords
      <3> QED
        BY <3>1, <3>2
    <2>3. DraftWords(row) \subseteq Shelf'
      BY <2>2 DEF DraftWords
    <2> QED
      BY <2>1, <2>3 DEF ShelfGrows, Shelf
  <1>4. ReqFiled' /\ ReqOver'
    BY <1>3 DEF WordsIn, ReqFiled, ReqOver, ShelfGrows, Aside
  <1> QED
    BY <1>2, <1>3, <1>4, WordsAside DEF DeletesOver

LEMMA WordsSends ==
  ASSUME NEW K, Typed(K), Revs, WordsIn, NEW t \in Tab, NEW crash, ServerSends(t, crash)
  PROVE  WordsIn'
  <1>1. Aside /\ UNCHANGED <<reqs, deletes, thrown>> /\ post[t].phase = "out"
    BY DEF ServerSends, Aside, page, store
  <1>2. PICK p : p = post[t] /\ p # NoPost
    BY <1>1 DEF NoPost
  <1>3. /\ p = [phase |-> p.phase, key |-> p.key, words |-> p.words, files |-> p.files, id |-> p.id,
                rev |-> p.rev, ans |-> p.ans]
        /\ PostSays(t) /\ post = [u \in Tab |-> post[u]]
    BY <1>2 DEF Typed, PostsTyped, IsPost, WordsIn, PostsSay
  <1>4. PICK a : /\ post' = [post EXCEPT ![t].phase = "answered", ![t].ans = a]
                 /\ a = "sent" => p.words \subseteq sent'
    BY <1>2 DEF ServerSends
  <1>5. /\ post'[t] = [phase |-> "answered", key |-> p.key, words |-> p.words, files |-> p.files, id |-> p.id,
                       rev |-> p.rev, ans |-> a]
        /\ \A u \in Tab \ {t} : post'[u] = post[u]
    BY <1>2, <1>3, <1>4
  <1>6. PostSays(t)'
    <2>1. PICK q : q = post'[t]
      OBVIOUS
    <2>2. q.key = p.key /\ q.words = p.words /\ q.phase = "answered" /\ q.ans = a
      BY <1>5, <2>1
    <2>3. held[t][p.key].words = p.words
      BY <1>2, <1>3 DEF PostSays
    <2> QED
      BY <1>1, <1>4, <2>1, <2>2, <2>3 DEF PostSays, Aside
  <1>7. CASE p.files \subseteq disk
    <2>1. /\ sent' = sent \cup p.words
          /\ row' = Restrict(row, DOMAIN row \ (DOMAIN row \cap {p.id}))
          /\ overrun' = overrun \cup UNION {row[i].words : i \in {j \in DOMAIN row \cap {p.id} : row[j].rev # p.rev}}
      BY <1>2, <1>7 DEF ServerSends, Consumed
    <2>2. Over \subseteq Over' /\ sent \subseteq sent'
      BY <1>1, <2>1 DEF Over
    <2>3. ASSUME p.id \in DOMAIN row PROVE row[p.id].words \subseteq Over'
      <3>1. CASE row[p.id].rev = p.rev
        BY <1>1, <1>2, <1>3, <2>1, <2>3, <3>1 DEF PostSays, Current, Over
      <3>2. CASE row[p.id].rev # p.rev
        BY <2>1, <2>3, <3>2 DEF Over
      <3> QED
        BY <3>1, <3>2
    <2>4. /\ WordsKept' /\ HeldFiled' /\ ListFiled' /\ LocalHeld' /\ ReqFiled' /\ ReqOver' /\ DeletesOver'
          /\ \A u \in Tab : post[u] # NoPost /\ post'[u] = post[u] => PostSays(u)'
      <3>1. PICK i : i = p.id
        OBVIOUS
      <3> QED
        BY <1>1, <2>1, <2>2, <2>3, <3>1, RowsGoWords
    <2>5. PostsSay'
      BY <1>2, <1>5, <1>6, <2>4 DEF PostsSay
    <2> QED
      BY <2>4, <2>5 DEF WordsIn
  <1>8. CASE ~(p.files \subseteq disk)
    <2>1. UNCHANGED <<row, sent, overrun>>
      BY <1>2, <1>8 DEF ServerSends
    <2>2. RowsOn /\ ShelfGrows
      BY <1>1, <2>1 DEF RowsOn, ShelfGrows, Shelf, Over
    <2>3. /\ WordsKept' /\ HeldFiled' /\ ListFiled' /\ LocalHeld' /\ (\A x \in deletes : DeleteOver(x)')
          /\ \A u \in Tab : post[u] # NoPost /\ post'[u] = post[u] => PostSays(u)'
      BY <1>1, <2>2, WordsAside
    <2>4. ReqFiled' /\ ReqOver' /\ DeletesOver'
      BY <1>1, <2>2, <2>3 DEF WordsIn, ReqFiled, ReqOver, DeletesOver, ShelfGrows, Aside
    <2>5. PostsSay'
      BY <1>2, <1>5, <1>6, <2>3 DEF PostsSay
    <2> QED
      BY <2>3, <2>4, <2>5 DEF WordsIn
  <1> QED
    BY <1>7, <1>8

LEMMA WordsDeletes ==
  ASSUME NEW K, Typed(K), Revs, WordsIn, NEW x \in deletes, NEW crash, ServerDeletes(x, crash)
  PROVE  WordsIn'
  <1>1. /\ Aside /\ UNCHANGED <<reqs, post, sent, thrown>> /\ deletes' \subseteq deletes
        /\ row' = Restrict(row, DOMAIN row \ (DOMAIN row \cap {x.id}))
        /\ overrun' = overrun \cup UNION {row[i].words : i \in {j \in DOMAIN row \cap {x.id} : row[j].rev # x.rev}}
    BY DEF ServerDeletes, Aside, page, store
  <1>2. Over \subseteq Over' /\ sent \subseteq sent'
    BY <1>1 DEF Over
  <1>3. ASSUME x.id \in DOMAIN row PROVE row[x.id].words \subseteq Over'
    <2>1. CASE row[x.id].rev = x.rev
      BY <1>2, <1>3, <2>1 DEF WordsIn, DeletesOver, DeleteOver, Current
    <2>2. CASE row[x.id].rev # x.rev
      BY <1>1, <1>3, <2>2 DEF Over
    <2> QED
      BY <2>1, <2>2
  <1>4. /\ WordsKept' /\ HeldFiled' /\ ListFiled' /\ LocalHeld' /\ ReqFiled' /\ ReqOver' /\ DeletesOver'
        /\ \A t \in Tab : post[t] # NoPost /\ post'[t] = post[t] => PostSays(t)'
    <2>1. PICK i : i = x.id
      OBVIOUS
    <2> QED
      BY <1>1, <1>2, <1>3, <2>1, RowsGoWords
  <1> QED
    BY <1>1, <1>4 DEF WordsIn, PostsSay

LEMMA WordsRestart ==
  ASSUME NEW K, Typed(K), WordsIn, NEW days, NEW readable, Restart(days, readable)
  PROVE  WordsIn'
  <1>1. Aside /\ UNCHANGED <<row, reqs, deletes, post, sent, thrown, overrun>>
    BY DEF Restart, Aside, page, wire, store
  <1>2. RowsOn /\ ShelfGrows
    BY <1>1 DEF RowsOn, ShelfGrows, Shelf, Over
  <1>3. ReqFiled' /\ ReqOver'
    BY <1>1, <1>2 DEF WordsIn, ReqFiled, ReqOver, ShelfGrows, Aside
  <1> QED
    BY <1>1, <1>2, <1>3, WordsAside DEF WordsIn, DeletesOver, PostsSay

LEMMA StepWords ==
  ASSUME NEW K, Typed(K), Revs, WordsIn, [Next]_vars
  PROVE  WordsIn'
  <1>1. CASE Moves
    BY <1>1, WordsMoves
  <1>2. CASE ServerWrites
    BY <1>2, WordsSaves, WordsSends, WordsDeletes, WordsRestart DEF ServerWrites
  <1> QED
    BY <1>1, <1>2, StepMoves

\* No word is lost: whatever somebody typed is in a row, in a page, in this browser's
\* storage or in mail that was sent, unless its user threw it away or it is counted among
\* what the code does not guard against: any number of tabs, saves, forks and crashes.
THEOREM NoWordLost == Spec => []WordsKept
  <1> DEFINE Inv == (\E K : Typed(K)) /\ Revs /\ WordsIn
  <1>1. Init => Inv
    <2> SUFFICES ASSUME Init PROVE Inv
      OBVIOUS
    <2>1. Revs
      BY DEF Init, Revs, HeldRevs, ReqRevs, ReqsHeld, ListRevs, LocalRevs, NoList
    <2>2. WordsKept
      BY DEF Init, WordsKept
    <2>3. HeldFiled /\ ListFiled /\ ReqFiled /\ ReqOver /\ LocalHeld /\ DeletesOver /\ PostsSay
      BY DEF Init, HeldFiled, ListFiled, ReqFiled, ReqOver, LocalHeld, DeletesOver, PostsSay, NoList
    <2> QED
      BY <2>1, <2>2, <2>3, InitTyped DEF WordsIn
  <1>2. Inv /\ [Next]_vars => Inv'
    <2> SUFFICES ASSUME NEW K, Typed(K), Revs, WordsIn, [Next]_vars PROVE Inv'
      OBVIOUS
    <2>1. (\E L : Typed(L))'
      BY StepTyped
    <2> QED
      BY <2>1, StepRevs, StepWords
  <1>3. Inv => WordsKept
    BY DEF WordsIn
  <1> QED
    BY <1>1, <1>2, <1>3, PTL DEF Spec

----------------------------------------------------------------------------
\* What is done with: the row of key k that tab t's page was the last to save, if there is
\* one, is the row of its draft or of the save that is out, for as long as nothing was lost.
OwnRow(t, k) == {i \in own[t] \cap DOMAIN row : row[i].key = k}
Saves(r)     == IF r.id = Nowhere THEN r.newid ELSE r.id

ReqOwns(r, i)  == i = Saves(r) /\ (\/ r.ans = "none" /\ row[i].rev <= r.base
                                   \/ r.ans = "saved" /\ row[i].rev <= r.newrev)
HeldOwns(d, i) == d.id = i /\ row[i].rev <= d.rev

ReqSure  == \A r \in reqs : /\ ~r.live \/ r.ans = "lost" => r.key \in unsure
                            /\ r.ans = "none" => r.newid = Nowhere
                            /\ r.ans \in {"404", "409"} => r.id # Nowhere
HeldSure == \A t \in up : \A k \in DOMAIN held[t] \ unsure : \A i \in OwnRow(t, k) :
                /\ \A r \in reqs : Answers(r, t, k) => ReqOwns(r, i)
                /\ (\A r \in reqs : ~Answers(r, t, k)) => HeldOwns(held[t][k], i)
OwnSure  == \A t \in up : \A i \in own[t] \cap DOMAIN row :
                row[i].key \in unsure \cup DOMAIN held[t] \cup gone[t]

\* A save of a draft that is done with is of a row that is on its way out.
ReqGone  == \A r \in reqs : r.live /\ r.id \in DOMAIN row /\ r.key \in gone[r.tab] \ unsure =>
                \E x \in deletes : x.id = r.id

\* A send names the row its tab owns, and one that succeeded has taken it.
PostOwns(t) ==
    LET p == post[t] IN
    /\ p.phase # "waits" /\ p.key \notin unsure => \A i \in OwnRow(t, p.key) : p.id = i
    /\ p.phase = "answered" /\ p.ans = "sent" => p.id \notin DOMAIN row
PostSure == \A t \in Tab : post[t] # NoPost => PostOwns(t)

Sure == ReqSure /\ HeldSure /\ OwnSure /\ ReqGone /\ PostSure /\ StaysGone

\* A request that was not lost, of a draft that is held, stays out or is answered for good.
LEMMA SureEnds ==
  ASSUME NEW K, Typed(K), Sure, Moves, NEW t \in up', NEW k \in DOMAIN held[t] \ unsure', t \in up, t \in Tab,
         NEW i \in OwnRow(t, k), NEW r \in reqs, Answers(r, t, k)
  PROVE  /\ ReqOwns(r, i)
         /\ \/ r \in reqs'
            \/ /\ r \notin reqs' /\ r.ans = "saved" /\ k \in DOMAIN held'[t]
               /\ held'[t][k] = Saved(held[t][k], r)
  <1>1. unsure \subseteq unsure'
    BY DEF Moves, PastGrows
  <1>2. ReqOwns(r, i)
    BY <1>1 DEF Sure, HeldSure
  <1>3. k \notin gone[t]
    BY DEF Typed, PagesTyped
  <1>4. ASSUME r \notin reqs'
        PROVE  r.ans = "saved" /\ k \in DOMAIN held'[t] /\ held'[t][k] = Saved(held[t][k], r)
    <2>1. Ended(r, t, k)
      BY <1>4 DEF Moves, ReqEnds, Answers
    <2>2. r.ans \in {"none", "saved"}
      BY <1>2 DEF ReqOwns
    <2> QED
      BY <1>3, <2>1, <2>2 DEF Ended
  <1> QED
    BY <1>2, <1>4

LEMMA HeldOwnsMoves ==
  ASSUME NEW K, Typed(K), Revs, Sure, Moves, NEW t \in Tab, t \in up, t \in up',
         NEW k \in DOMAIN held[t] \ unsure', k \in DOMAIN held'[t], NEW i \in OwnRow(t, k),
         \A r \in reqs : Answers(r, t, k) => r \notin reqs'
  PROVE  HeldOwns(held'[t][k], i)
  <1> USE DEF Typed, Revs, Sure
  <1>1. PICK d, e : d = held[t][k] /\ e = held'[t][k]
    OBVIOUS
  <1>2. IsDraft(d) /\ i \in DOMAIN row /\ i # Nowhere /\ row[i].rev \in Nat
    BY <1>1, NoRow DEF HeldTyped, OwnRow
  <1>3. CASE \E r \in reqs : Answers(r, t, k)
    <2>1. PICK r \in reqs : Answers(r, t, k)
      BY <1>3
    <2>2. ReqOwns(r, i) /\ r.ans = "saved" /\ e = Saved(d, r)
      BY <1>1, <2>1, SureEnds
    <2>3. ReqRev(r) /\ IsReq(r)
      BY DEF ReqRevs, ReqsTyped
    <2>4. e.id = r.newid /\ e.rev = r.newrev
      BY <1>2, <2>2 DEF Saved, IsDraft
    <2>5. i = r.newid /\ row[i].rev <= r.newrev
      BY <2>2, <2>3 DEF ReqOwns, Saves, ReqRev
    <2> QED
      BY <1>1, <2>4, <2>5 DEF HeldOwns
  <1>4. CASE \A r \in reqs : ~Answers(r, t, k)
    <2>0. k \notin unsure
      BY DEF Moves, PastGrows
    <2>1. d.id = i /\ row[i].rev <= d.rev
      BY <1>1, <1>4, <2>0 DEF HeldSure, HeldOwns
    <2>2. CASE Edits(t, k, d, e)
      BY <1>1, <2>1, <2>2 DEF Edits, HeldOwns
    <2>3. CASE GetsSaved(t, k, d, e)
      BY <1>4, <2>3 DEF GetsSaved
    <2>4. CASE GetsCut(t, k, d, e)
      BY <1>2, <1>4, <2>1, <2>4 DEF GetsCut
    <2>5. CASE GetsAdopted(t, k, d, e)
      BY <1>2, <2>1, <2>5 DEF GetsAdopted
    <2>6. CASE GetsReplaced(t, k, d, e)
      <3>1. e.id = d.id /\ d.rev < e.rev /\ IsDraft(e)
        BY <2>6 DEF GetsReplaced, ListsTyped
      <3>2. d.rev \in Nat /\ e.rev \in Nat
        BY <1>2, <3>1 DEF IsDraft
      <3>3. row[i].rev <= e.rev
        BY <1>2, <2>1, <3>1, <3>2
      <3> QED
        BY <1>1, <2>1, <3>1, <3>3 DEF HeldOwns
    <2> QED
      BY <1>1, <2>2, <2>3, <2>4, <2>5, <2>6 DEF Moves, HeldMoves, Stays, Departs
  <1> QED
    BY <1>3, <1>4

LEMMA HeldSureMoves ==
  ASSUME NEW K, Typed(K), Revs, Sure, Moves
  PROVE  HeldSure'
  <1> USE DEF Typed, Revs, Sure
  <1>0. row' = row /\ up' \subseteq Tab /\ unsure \subseteq unsure'
    BY DEF Moves, RowsQuiet, PagesTyped, PastGrows
  <1> SUFFICES ASSUME NEW t \in up', NEW k \in DOMAIN held'[t] \ unsure',
                      NEW i \in own'[t] \cap DOMAIN row, row[i].key = k
               PROVE  /\ \A q \in reqs' : Answers(q, t, k) => ReqOwns(q, i)
                      /\ (\A q \in reqs' : ~Answers(q, t, k)) => HeldOwns(held'[t][k], i)
    BY <1>0 DEF HeldSure, OwnRow, ReqOwns, HeldOwns
  <1>1. t \in Tab /\ own'[t] = own[t] /\ t \in up /\ i \in OwnRow(t, k)
    BY <1>0 DEF Moves, OwnMoves, PagesTyped, OwnRow
  <1>2. k \in DOMAIN held[t]
    <2>1. SUFFICES ASSUME k \notin DOMAIN held[t] PROVE FALSE
      OBVIOUS
    <2>2. k \in gone[t]
      BY <1>0, <1>1, <2>1 DEF OwnSure
    <2>3. k \in Keys /\ k # nextkey
      BY <1>1 DEF RowsTyped, Keys, Counted
    <2>4. Comes(t, k)
      BY <1>1, <2>1 DEF Moves, HeldMoves
    <2> QED
      BY <1>1, <2>2, <2>3, <2>4 DEF Comes, Begun, Forked2, Fetched, Loaded
  <1>3. (\A r \in reqs : Answers(r, t, k) => r \notin reqs') => HeldOwns(held'[t][k], i)
    BY <1>1, <1>2, HeldOwnsMoves
  <1>4. ASSUME NEW q \in reqs', Answers(q, t, k) PROVE ReqOwns(q, i)
    <2>1. CASE q \in reqs
      BY <1>1, <1>2, <1>4, <2>1, SureEnds
    <2>2. ASSUME NEW r \in reqs, Lost(r, q) \/ Strays(r, q) PROVE FALSE
      <3>1. q.key \in unsure'
        BY <2>2 DEF Lost, Strays
      <3> QED
        BY <1>4, <3>1 DEF Answers
    <2>3. ASSUME NEW u \in Tab, NEW x, Asks(u, x, q), q \notin reqs PROVE ReqOwns(q, i)
      <3>1. PICK e : e = held'[t][k]
        OBVIOUS
      <3>2. q = Asking(t, k, e) /\ \A r \in reqs' : Answers(r, t, k) => r = q
        BY <1>4, <2>3, <3>1 DEF Asks, Asking, Answers
      <3>3. HeldOwns(e, i)
        BY <1>3, <2>3, <3>1, <3>2
      <3>4. i # Nowhere
        BY NoRow
      <3>5. q.id = e.id /\ q.base = e.rev /\ q.ans = "none"
        BY <3>2 DEF Asking
      <3> QED
        BY <3>3, <3>4, <3>5 DEF ReqOwns, HeldOwns, Saves
    <2> QED
      BY <2>1, <2>2, <2>3 DEF Moves, ReqMoves
  <1>5. ASSUME \A q \in reqs' : ~Answers(q, t, k) PROVE HeldOwns(held'[t][k], i)
    BY <1>3, <1>5
  <1> QED
    BY <1>4, <1>5

LEMMA ReqSureMoves ==
  ASSUME NEW K, Typed(K), Sure, Moves
  PROVE  ReqSure'
  <1> SUFFICES ASSUME NEW q \in reqs'
               PROVE  /\ ~q.live \/ q.ans = "lost" => q.key \in unsure'
                      /\ q.ans = "none" => q.newid = Nowhere
                      /\ q.ans \in {"404", "409"} => q.id # Nowhere
    BY DEF ReqSure
  <1>1. CASE q \in reqs
    BY <1>1 DEF Sure, ReqSure, Moves, PastGrows
  <1>2. ASSUME NEW r \in reqs, Lost(r, q)
        PROVE  q.ans = "lost" /\ q.key \in unsure'
    BY <1>2 DEF Lost, Typed, ReqsTyped, IsReq
  <1>3. ASSUME NEW r \in reqs, Strays(r, q)
        PROVE  q.ans = "none" /\ q.key \in unsure' /\ q.newid = Nowhere
    BY <1>3 DEF Strays, Typed, ReqsTyped, IsReq, Sure, ReqSure
  <1>4. ASSUME NEW t, NEW k, Asks(t, k, q)
        PROVE  q.ans = "none" /\ q.newid = Nowhere /\ q.live
    BY <1>4 DEF Asks, Asking, Nowhere
  <1> QED
    BY <1>1, <1>2, <1>3, <1>4 DEF Moves, ReqMoves

LEMMA OwnSureMoves ==
  ASSUME NEW K, Typed(K), Sure, Moves
  PROVE  OwnSure'
  <1> USE DEF Typed, Sure
  <1>0. row' = row /\ up' \subseteq Tab /\ unsure \subseteq unsure'
    BY DEF Moves, RowsQuiet, PagesTyped, PastGrows
  <1> SUFFICES ASSUME NEW t \in up', NEW i \in own'[t] \cap DOMAIN row, row[i].key \notin unsure'
               PROVE  row[i].key \in DOMAIN held'[t] \cup gone'[t]
    BY <1>0 DEF OwnSure
  <1>1. PICK k : k = row[i].key
    OBVIOUS
  <1>2. t \in Tab /\ own'[t] = own[t] /\ t \in up /\ i \in OwnRow(t, k)
    BY <1>0, <1>1 DEF Moves, OwnMoves, PagesTyped, OwnRow
  <1>3. k \in DOMAIN held[t] \cup gone[t]
    BY <1>0, <1>1, <1>2 DEF OwnSure
  <1>4. CASE k \in gone[t]
    BY <1>1, <1>2, <1>4 DEF Moves, GoneMoves
  <1>5. CASE k \in DOMAIN held[t]
    <2>1. ~Forks(t, k, held[t][k])
      <3>1. SUFFICES ASSUME NEW r \in reqs \ reqs', Answers(r, t, k), r.ans = "409" PROVE FALSE
        BY DEF Forks
      <3>2. ReqOwns(r, i)
        BY <1>1, <1>2, <1>5, <3>1, SureEnds
      <3> QED
        BY <3>1, <3>2 DEF ReqOwns
    <2> QED
      BY <1>1, <1>2, <1>5, <2>1 DEF Moves, HeldMoves, Stays, Departs, LeftWith, ThrownAway, SentOff, LetGo
  <1> QED
    BY <1>3, <1>4, <1>5

\* What a delete is for tells it by its row.
LEMMA DeleteStays ==
  ASSUME NEW K, Typed(K), Moves, NEW x \in deletes, NEW k, K[x.id] = k, k \notin unsure'
  PROVE  x \in deletes'
  BY DEF Typed, DeletesTyped, Tagged, Moves, DeleteMoves

LEMMA ReqGoneMoves ==
  ASSUME NEW K, Typed(K), Revs, Sure, Moves
  PROVE  ReqGone'
  <1> USE DEF Typed, Revs, Sure
  <1>0. row' = row /\ unsure \subseteq unsure'
    BY DEF Moves, RowsQuiet, PastGrows
  <1> SUFFICES ASSUME NEW q \in reqs', q.live, q.id \in DOMAIN row, q.key \in gone'[q.tab] \ unsure'
               PROVE  \E x \in deletes' : x.id = q.id
    BY <1>0 DEF ReqGone
  <1>1. PICK t, k : t = q.tab /\ k = q.key
    OBVIOUS
  <1>2. q \in reqs
    <2>1. ASSUME NEW r \in reqs, Lost(r, q) \/ Strays(r, q) PROVE FALSE
      BY <2>1 DEF Lost, Strays
    <2>2. ASSUME NEW u \in Tab, NEW x, Asks(u, x, q) PROVE FALSE
      BY <2>2 DEF Asks, Asking
    <2> QED
      BY <2>1, <2>2 DEF Moves, ReqMoves
  <1>3. /\ t \in Tab /\ t \in up /\ Answers(q, t, k) /\ q.id # Nowhere /\ K[q.id] = k /\ t \in up'
        /\ k \in gone'[t] /\ k \notin unsure'
    <2>1. ReqsTyped(K)'
      BY TypedMoves
    <2> QED
      BY <1>1, <1>2, <2>1, NoRow DEF ReqsTyped, Tagged, Answers, PagesTyped
  <1>4. CASE k \in gone[t]
    <2>1. PICK x \in deletes : x.id = q.id
      BY <1>0, <1>1, <1>2, <1>3, <1>4 DEF ReqGone
    <2>2. x \in deletes'
      BY <1>3, <2>1, DeleteStays
    <2> QED
      BY <2>1, <2>2
  <1>5. CASE k \notin gone[t]
    <2>1. k \in DOMAIN held[t] /\ k \notin DOMAIN held'[t]
      BY <1>3, <1>5 DEF Moves, GoneMoves
    <2>2. PICK d : d = held[t][k]
      OBVIOUS
    <2>3. ReqOf(q, d)
      BY <1>1, <1>2, <2>1, <2>2 DEF ReqsHeld
    <2>4. d.id = q.id
      BY <2>3 DEF ReqOf
    <2>5. LeftWith(t, d) \/ ThrownAway(t, k, d) \/ SentOff(t, k) \/ LetGo(t, k, d) \/ Forks(t, k, d)
      BY <1>3, <2>1, <2>2 DEF Moves, HeldMoves, Stays, Departs
    <2>6. ~LeftWith(t, d) /\ ~LetGo(t, k, d) /\ ~Forks(t, k, d)
      BY <1>3, <2>4 DEF LeftWith, LetGo, Forks
    <2>7. ~SentOff(t, k)
      BY <1>2, <1>3 DEF SentOff, PostsTyped
    <2>8. [id |-> d.id, rev |-> Seen(d), key |-> k] \in deletes'
      BY <1>3, <2>4, <2>5, <2>6, <2>7 DEF ThrownAway
    <2> QED
      BY <2>4, <2>8
  <1> QED
    BY <1>4, <1>5

LEMMA PostSureMoves ==
  ASSUME NEW K, Typed(K), Sure, Moves
  PROVE  PostSure'
  <1> USE DEF Typed, Sure
  <1>0. row' = row /\ unsure \subseteq unsure'
    BY DEF Moves, RowsQuiet, PastGrows
  <1> SUFFICES ASSUME NEW t \in Tab, post'[t] # NoPost
               PROVE  LET q == post'[t] IN
                      /\ q.phase # "waits" /\ q.key \notin unsure' =>
                           \A i \in own'[t] \cap DOMAIN row : row[i].key = q.key => q.id = i
                      /\ q.phase = "answered" /\ q.ans = "sent" => q.id \notin DOMAIN row
    BY <1>0 DEF PostSure, PostOwns, OwnRow
  <1>1. PICK p, q : p = post[t] /\ q = post'[t]
    OBVIOUS
  <1>2. own'[t] = own[t] \/ own'[t] = {}
    BY DEF Moves, OwnMoves
  <1>3. CASE q = p
    BY <1>0, <1>1, <1>2, <1>3 DEF PostSure, PostOwns, OwnRow
  <1>4. CASE p = NoPost /\ Presses(t)
    BY <1>1, <1>4 DEF Presses
  <1>5. ASSUME p # NoPost
        PROVE  /\ p = [phase |-> p.phase, key |-> p.key, words |-> p.words, files |-> p.files, id |-> p.id,
                       rev |-> p.rev, ans |-> p.ans]
               /\ p.key \in DOMAIN held[t] /\ t \in up
               /\ p.phase # "waits" => \A r \in reqs : ~Answers(r, t, p.key)
    BY <1>1, <1>5 DEF PostsTyped, IsPost, PagesTyped
  <1>6. CASE p # NoPost /\ GoesOut(t)
    <2>1. PICK d : d = held[t][p.key]
      OBVIOUS
    <2>2. q = [phase |-> "out", key |-> p.key, words |-> p.words, files |-> p.files, id |-> d.id,
               rev |-> Seen(d), ans |-> p.ans]
      BY <1>1, <1>5, <1>6, <2>1 DEF GoesOut
    <2>3. q.key = p.key /\ q.id = d.id /\ q.phase = "out"
      BY <2>2
    <2>4. ASSUME q.key \notin unsure', NEW i \in own[t] \cap DOMAIN row, row[i].key = q.key PROVE d.id = i
      <3>1. \A r \in reqs : ~Answers(r, t, p.key)
        BY <1>1, <1>6 DEF GoesOut
      <3>2. i \in OwnRow(t, p.key) /\ p.key \in DOMAIN held[t] \ unsure /\ t \in up
        BY <1>0, <1>5, <1>6, <2>3, <2>4 DEF OwnRow
      <3> QED
        BY <2>1, <3>1, <3>2 DEF HeldSure, HeldOwns
    <2> QED
      BY <1>1, <1>2, <2>3, <2>4
  <1>7. CASE p # NoPost /\ GoesMissing(t)
    <2>1. q = [phase |-> "answered", key |-> p.key, words |-> p.words, files |-> p.files, id |-> p.id,
               rev |-> p.rev, ans |-> "lost"]
      BY <1>1, <1>5, <1>7 DEF GoesMissing
    <2>2. q.key \in unsure' /\ q.ans = "lost"
      BY <1>1, <1>7, <2>1 DEF GoesMissing
    <2> QED
      BY <1>1, <2>2
  <1>8. CASE p # NoPost /\ GoesOn(t)
    <2>1. q.phase = "waits"
      BY <1>1, <1>5, <1>8 DEF GoesOn, PostsTyped, IsPost
    <2> QED
      BY <1>1, <2>1
  <1> QED
    BY <1>1, <1>3, <1>4, <1>6, <1>7, <1>8 DEF Moves, PostMoves

LEMMA StaysGoneMoves ==
  ASSUME NEW K, Typed(K), Revs, Sure, Moves
  PROVE  StaysGone'
  <1> USE DEF Typed, Revs, Sure
  <1>0. row' = row /\ up' \subseteq Tab /\ unsure \subseteq unsure'
    BY DEF Moves, RowsQuiet, PagesTyped, PastGrows
  <1> SUFFICES ASSUME NEW t \in up', NEW k \in gone'[t] \ unsure',
                      NEW i \in DOMAIN row \cap own'[t], row[i].key = k
               PROVE  \/ \E x \in deletes' : x.id = i
                      \/ \E r \in reqs' : r.live /\ r.tab = t /\ r.key = k /\ r.id = Nowhere /\ r.newid = i
    BY <1>0 DEF StaysGone, Row
  <1>1. t \in Tab /\ own'[t] = own[t] /\ t \in up /\ i \in OwnRow(t, k) /\ k \notin unsure /\ i # Nowhere /\ K[i] = k
    BY <1>0, NoRow DEF Moves, OwnMoves, PagesTyped, OwnRow, RowsTyped
  <1>2. CASE k \in gone[t]
    <2>1. \/ \E x \in deletes : x.id = i
          \/ \E r \in reqs : r.live /\ r.tab = t /\ r.key = k /\ r.id = Nowhere /\ r.newid = i
      BY <1>1, <1>2 DEF StaysGone, Row, OwnRow
    <2>2. ASSUME NEW x \in deletes, x.id = i PROVE x \in deletes'
      BY <1>1, <2>2, DeleteStays
    <2>3. ASSUME NEW r \in reqs, r.live, r.tab = t, r.key = k, r.id = Nowhere, r.newid = i, r \notin reqs'
          PROVE  \E x \in deletes' : x.id = i
      <3>1. Ended(r, t, k)
        BY <2>3 DEF Moves, ReqEnds
      <3>2. r.ans \notin {"404", "409", "lost"}
        BY <1>1, <2>3 DEF ReqSure
      <3>3. [id |-> r.newid, rev |-> r.newrev, key |-> r.key] \in deletes'
        BY <1>2, <2>3, <3>1, <3>2 DEF Ended, Abandoned
      <3> QED
        BY <2>3, <3>3
    <2> QED
      BY <2>1, <2>2, <2>3
  <1>3. CASE k \notin gone[t]
    <2>1. k \in DOMAIN held[t] /\ k \notin DOMAIN held'[t]
      BY <1>1, <1>3 DEF Moves, GoneMoves
    <2>2. PICK d : d = held[t][k]
      OBVIOUS
    <2>3. ThrownAway(t, k, d) \/ SentOff(t, k) \/ LetGo(t, k, d)
      BY <1>1, <2>1, <2>2 DEF Moves, HeldMoves, Stays, Departs, LeftWith, Forks
    <2>4. ASSUME NEW r \in reqs, Answers(r, t, k)
          PROVE  /\ r.id # Nowhere => d.id = i
                 /\ r.id = Nowhere => Dirty(d) /\ r.newid = i /\ r \in reqs'
      <3>1. ReqOwns(r, i) /\ r \in reqs'
        BY <1>1, <2>1, <2>4, SureEnds DEF Answers
      <3>2. ReqOf(r, d)
        BY <2>1, <2>2, <2>4 DEF ReqsHeld, Answers
      <3>3. d.sig = NoSig => Dirty(d)
        BY SomeSig DEF Dirty, Sig
      <3> QED
        BY <1>1, <3>1, <3>2, <3>3 DEF ReqOwns, Saves, ReqOf, OwnRow
    <2>5. (\A r \in reqs : ~Answers(r, t, k)) => d.id = i
      BY <1>1, <2>1, <2>2 DEF HeldSure, HeldOwns
    <2>6. CASE d.id = i
      <3>1. ~LetGo(t, k, d)
        BY <1>1, <2>6 DEF LetGo, OwnRow
      <3>2. CASE ThrownAway(t, k, d)
        BY <1>1, <2>6, <3>2 DEF ThrownAway
      <3>3. CASE SentOff(t, k)
        BY <1>1, <3>3 DEF SentOff, PostSure, PostOwns, OwnRow
      <3> QED
        BY <2>3, <3>1, <3>2, <3>3
    <2>7. CASE \E r \in reqs : Answers(r, t, k) /\ r.id = Nowhere
      <3>1. PICK r \in reqs : Answers(r, t, k) /\ r.id = Nowhere
        BY <2>7
      <3>2. r.newid = i /\ r \in reqs'
        BY <1>1, <2>1, <2>4, <3>1, SureEnds
      <3> QED
        BY <3>1, <3>2 DEF Answers
    <2> QED
      BY <2>4, <2>5, <2>6, <2>7
  <1> QED
    BY <1>2, <1>3

LEMMA SureMoves ==
  ASSUME NEW K, Typed(K), Revs, Sure, Moves
  PROVE  Sure'
  BY HeldSureMoves, ReqSureMoves, OwnSureMoves, ReqGoneMoves, PostSureMoves, StaysGoneMoves DEF Sure

\* Rows that only go take nothing of this away.
LEMMA SureRest ==
  ASSUME NEW K, Typed(K), Sure, Aside, UNCHANGED <<reqs, own>>, unsure \subseteq unsure',
         \A i \in DOMAIN row' : i \in DOMAIN row /\ row'[i] = row[i],
         \A x \in deletes : x \in deletes' \/ x.id \notin DOMAIN row'
  PROVE  /\ ReqSure' /\ HeldSure' /\ OwnSure' /\ ReqGone' /\ StaysGone'
         /\ \A t \in Tab : post[t] # NoPost /\ post'[t] = post[t] => PostOwns(t)'
  <1> USE DEF Sure, Aside
  <1>1. ReqSure' /\ OwnSure'
    BY DEF ReqSure, OwnSure
  <1>2. HeldSure'
    BY DEF HeldSure, OwnRow, ReqOwns, HeldOwns, Saves, Answers
  <1>3. ReqGone'
    BY DEF ReqGone
  <1>4. StaysGone'
    <2> SUFFICES ASSUME NEW t \in up, NEW k \in gone[t] \ unsure', NEW i \in DOMAIN row' \cap own[t], row'[i].key = k
                 PROVE  \/ \E x \in deletes' : x.id = i
                        \/ \E r \in reqs : r.live /\ r.tab = t /\ r.key = k /\ r.id = Nowhere /\ r.newid = i
      BY DEF StaysGone, Row
    <2>1. k \in gone[t] \ unsure /\ i \in Row(k) \cap own[t]
      BY DEF Row
    <2> QED
      BY <2>1 DEF StaysGone
  <1>5. ASSUME NEW t \in Tab, post[t] # NoPost, post'[t] = post[t] PROVE PostOwns(t)'
    <2>1. PostOwns(t)
      BY <1>5 DEF PostSure
    <2> QED
      BY <1>5, <2>1 DEF PostOwns, OwnRow
  <1> QED
    BY <1>1, <1>2, <1>3, <1>4, <1>5

LEMMA SureSends ==
  ASSUME NEW K, Typed(K), Sure, NEW t \in Tab, NEW crash, ServerSends(t, crash)
  PROVE  Sure'
  <1>1. Aside /\ UNCHANGED <<reqs, own, deletes>> /\ unsure \subseteq unsure' /\ post[t].phase = "out"
    BY DEF ServerSends, Aside, page, store
  <1>2. PICK p : p = post[t] /\ p # NoPost
    BY <1>1 DEF NoPost
  <1>3. /\ p = [phase |-> p.phase, key |-> p.key, words |-> p.words, files |-> p.files, id |-> p.id,
                rev |-> p.rev, ans |-> p.ans]
        /\ PostOwns(t) /\ post = [u \in Tab |-> post[u]]
    BY <1>2 DEF Typed, PostsTyped, IsPost, Sure, PostSure
  <1>4. PICK a : /\ post' = [post EXCEPT ![t].phase = "answered", ![t].ans = a]
                 /\ a = "sent" => row' = Restrict(row, DOMAIN row \ (DOMAIN row \cap {p.id}))
    BY <1>2 DEF ServerSends, Consumed
  <1>5. /\ post'[t] = [phase |-> "answered", key |-> p.key, words |-> p.words, files |-> p.files, id |-> p.id,
                       rev |-> p.rev, ans |-> a]
        /\ \A u \in Tab \ {t} : post'[u] = post[u]
    BY <1>2, <1>3, <1>4
  <1>6. \A i \in DOMAIN row' : i \in DOMAIN row /\ row'[i] = row[i]
    <2>1. row' = row \/ \E X : row' = Restrict(row, DOMAIN row \ X)
      BY DEF ServerSends
    <2> QED
      BY <2>1 DEF Restrict
  <1>7. /\ ReqSure' /\ HeldSure' /\ OwnSure' /\ ReqGone' /\ StaysGone'
        /\ \A u \in Tab : post[u] # NoPost /\ post'[u] = post[u] => PostOwns(u)'
    BY <1>1, <1>6, SureRest
  <1>8. PostOwns(t)'
    <2>1. PICK q : q = post'[t]
      OBVIOUS
    <2>2. q.phase = "answered" /\ q.key = p.key /\ q.id = p.id /\ q.ans = a
      BY <1>5, <2>1
    <2>3. a = "sent" => p.id \notin DOMAIN row'
      BY <1>4 DEF Restrict
    <2>4. p.key \notin unsure => \A i \in OwnRow(t, p.key) : p.id = i
      BY <1>1, <1>2, <1>3 DEF PostOwns
    <2> QED
      BY <1>1, <1>6, <2>1, <2>2, <2>3, <2>4 DEF PostOwns, OwnRow
  <1>9. PostSure'
    BY <1>2, <1>5, <1>7, <1>8 DEF PostSure
  <1> QED
    BY <1>7, <1>9 DEF Sure

LEMMA SureDeletes ==
  ASSUME NEW K, Typed(K), Sure, NEW x \in deletes, NEW crash, ServerDeletes(x, crash)
  PROVE  Sure'
  <1>1. /\ Aside /\ UNCHANGED <<reqs, post, own, unsure>> /\ deletes' = deletes \ {x}
        /\ row' = Restrict(row, DOMAIN row \ (DOMAIN row \cap {x.id}))
    BY DEF ServerDeletes, Aside, page, store
  <1>2. \A i \in DOMAIN row' : i \in DOMAIN row /\ row'[i] = row[i] /\ i # x.id
    BY <1>1 DEF Restrict
  <1>3. /\ ReqSure' /\ HeldSure' /\ OwnSure' /\ ReqGone' /\ StaysGone'
        /\ \A t \in Tab : post[t] # NoPost /\ post'[t] = post[t] => PostOwns(t)'
    BY <1>1, <1>2, SureRest
  <1> QED
    BY <1>1, <1>3 DEF Sure, PostSure

LEMMA SureRestart ==
  ASSUME NEW K, Typed(K), Sure, NEW days, NEW readable, Restart(days, readable)
  PROVE  Sure'
  <1>1. Aside /\ UNCHANGED <<row, reqs, deletes, post, own, unsure>>
    BY DEF Restart, Aside, page, wire, store
  <1> QED
    BY <1>1, SureRest DEF Sure, PostSure

\* A save that is refused was not of a row its tab owns.
LEMMA SureRefuses ==
  ASSUME NEW K, Typed(K), Revs, Sure, NEW r \in reqs, r.ans = "none", Aside, UNCHANGED <<deletes, post, unsure>>,
         Refuses(r)
  PROVE  Sure'
  <1> USE DEF Typed, Sure, Aside
  <1>1. IsReq(r) /\ ReqRev(r)
    BY DEF ReqsTyped, Revs, ReqRevs
  <1>2. PICK a, q : a = Refusal(r) /\ q = [r EXCEPT !.ans = a]
    OBVIOUS
  <1>3. q.ans = a /\ q.tab = r.tab /\ q.key = r.key /\ q.id = r.id /\ q.live = r.live /\ q.newid = r.newid
    BY <1>1, <1>2, RefusedReq
  <1>4. a \in {"404", "409"} /\ reqs' = Answer(r, reqs, q) /\ row' = row /\ own' = own /\ r.id # Nowhere
    BY <1>2 DEF Refuses
  <1>5. (\A x \in reqs' : x \in reqs \/ (r.live /\ x = q)) /\ (\A x \in reqs \ {r} : x \in reqs')
    BY <1>4 DEF Answer
  <1>6. ASSUME NEW t \in up, NEW k \in DOMAIN held[t] \ unsure, NEW i \in OwnRow(t, k) PROVE ~Answers(r, t, k)
    <2> SUFFICES ASSUME Answers(r, t, k) PROVE FALSE
      OBVIOUS
    <2>1. ReqOwns(r, i)
      BY DEF HeldSure
    <2>2. i = r.id /\ r.id \in DOMAIN row /\ row[r.id].rev <= r.base
      BY <1>4, <2>1 DEF ReqOwns, Saves, OwnRow
    <2>3. r.base <= row[r.id].rev
      BY <1>1, <2>2 DEF ReqRev, Behinds
    <2>4. row[r.id].rev \in Nat /\ r.base \in Nat
      BY <1>1, <2>2 DEF IsReq, RowsTyped, IsSavedRow
    <2>5. row[r.id].rev = r.base
      BY <2>2, <2>3, <2>4
    <2> QED
      BY <1>2, <1>4, <2>2, <2>5 DEF Refusal
  <1>7. HeldSure'
    <2> SUFFICES ASSUME NEW t \in up, NEW k \in DOMAIN held[t] \ unsure, NEW i \in OwnRow(t, k)
                 PROVE  /\ \A x \in reqs' : Answers(x, t, k) => ReqOwns(x, i)
                        /\ (\A x \in reqs' : ~Answers(x, t, k)) => HeldOwns(held[t][k], i)
      BY <1>4 DEF HeldSure, OwnRow, Answers, ReqOwns, HeldOwns
    <2>1. /\ \A x \in reqs : Answers(x, t, k) => ReqOwns(x, i)
          /\ (\A x \in reqs : ~Answers(x, t, k)) => HeldOwns(held[t][k], i)
      BY DEF HeldSure
    <2>2. ~Answers(r, t, k) /\ ~(r.live /\ Answers(q, t, k))
      BY <1>3, <1>6 DEF Answers
    <2> QED
      BY <1>5, <2>1, <2>2
  <1>8. ReqSure'
    BY <1>3, <1>4, <1>5 DEF ReqSure
  <1>9. OwnSure' /\ PostSure'
    BY <1>4 DEF OwnSure, PostSure, PostOwns, OwnRow
  <1>10. ReqGone'
    BY <1>3, <1>4, <1>5 DEF ReqGone
  <1>11. StaysGone'
    BY <1>3, <1>4, <1>5 DEF StaysGone, Row
  <1> QED
    BY <1>7, <1>8, <1>9, <1>10, <1>11

\* One that is taken is of the row it makes or replaces, and of nobody's any more but its tab's.
LEMMA SureTakes ==
  ASSUME NEW K, Typed(K), Revs, Sure, NEW r \in reqs, r.ans = "none", Aside, UNCHANGED <<deletes, post, unsure>>,
         NEW id, NEW rev, Takes(r, id, rev)
  PROVE  Sure'
  <1> USE DEF Typed, Sure, Aside
  <1>1. IsReq(r) /\ r.newid = Nowhere /\ (~r.live => r.key \in unsure)
    BY DEF ReqsTyped, ReqSure
  <1>2. PICK x : x = [rev |-> rev, words |-> r.words, files |-> r.files, key |-> r.key]
    OBVIOUS
  <1>3. row' = Put(row, id, x) /\ x.rev = rev /\ x.key = r.key
    BY <1>2 DEF Takes
  <1>4. DOMAIN row' = DOMAIN row \cup {id} /\ row'[id] = x /\ \A i \in DOMAIN row \ {id} : row'[i] = row[i]
    BY <1>3 DEF Put
  <1>5. PICK a, ms, q : a = "saved" /\ ms = r.files \ disk /\ q = Answered(r, a, id, rev, ms)
    OBVIOUS
  <1>6. /\ q.ans = "saved" /\ q.tab = r.tab /\ q.key = r.key /\ q.id = r.id /\ q.live = r.live
        /\ q.newid = id /\ q.newrev = rev
    BY <1>1, <1>5, AnsweredReq
  <1>7. reqs' = Answer(r, reqs, q)
    BY <1>5 DEF Takes
  <1>8. /\ \A y \in reqs' : y \in reqs \ {r} \/ (r.live /\ y = q)
        /\ \A y \in reqs \ {r} : y \in reqs'
        /\ r.live => q \in reqs'
    BY <1>7 DEF Answer
  <1>9. /\ r.id = Nowhere => id = nextid
        /\ r.id # Nowhere => id = r.id /\ id \in DOMAIN row
        /\ id # Nowhere /\ rev \in Nat
    <2>1. nextid # 0 /\ r.base \in Nat
      BY <1>1 DEF Counted, IsReq
    <2> QED
      BY <2>1 DEF Takes, Nowhere
  <1>10. /\ RowsOn
         /\ \A y \in reqs : y.id \in DOMAIN row' => y.id \in DOMAIN row
    <2>1. RowsOn
      BY TakesKeeps
    <2>2. ASSUME NEW y \in reqs PROVE y.id \in DOMAIN row' => y.id \in DOMAIN row
      <3>1. ReqRev(y)
        BY DEF Revs, ReqRevs
      <3> QED
        BY <2>1, <3>1, ReqRevOn
    <2> QED
      BY <2>1, <2>2
  <1>11. /\ own' = [t \in Tab |-> IF t = r.tab /\ r.live THEN own[t] \cup {id} ELSE own[t] \ {id}]
         /\ up \subseteq Tab
    BY DEF Takes, PagesTyped
  <1>12. ASSUME NEW t \in Tab, NEW i \in own'[t] \cap DOMAIN row', i # id
         PROVE  i \in own[t] \cap DOMAIN row /\ row'[i] = row[i] /\ i # Nowhere
    <2>1. i \in own[t] \cap DOMAIN row /\ row'[i] = row[i]
      BY <1>4, <1>11, <1>12
    <2> QED
      BY <2>1, NoRow
  <1>13. \A t \in Tab : id \in own'[t] => t = r.tab /\ r.live
    BY <1>11
  <1>14. r.live => r.tab \in up /\ r.key \in DOMAIN held[r.tab] \cup gone[r.tab]
    BY DEF ReqsTyped
  <1>15. ReqSure'
    BY <1>6, <1>8 DEF ReqSure
  <1>16. HeldSure'
    <2> SUFFICES ASSUME NEW t \in up, NEW k \in DOMAIN held[t] \ unsure,
                        NEW i \in own'[t] \cap DOMAIN row', row'[i].key = k
                 PROVE  /\ \A y \in reqs' : Answers(y, t, k) =>
                              /\ i = Saves(y)
                              /\ \/ y.ans = "none" /\ row'[i].rev <= y.base
                                 \/ y.ans = "saved" /\ row'[i].rev <= y.newrev
                        /\ (\A y \in reqs' : ~Answers(y, t, k)) => held[t][k].id = i /\ row'[i].rev <= held[t][k].rev
      BY DEF HeldSure, OwnRow, ReqOwns, HeldOwns
    <2>1. CASE i = id
      <3>1. t = r.tab /\ r.live /\ k = r.key /\ row'[i].rev = rev
        BY <1>3, <1>4, <1>11, <1>13, <2>1
      <3>2. \A y \in reqs' : Answers(y, t, k) => y = q
        BY <1>8, <3>1 DEF ReqsTyped, Answers
      <3>3. q \in reqs' /\ Answers(q, t, k)
        BY <1>6, <1>8, <3>1 DEF Answers
      <3>4. Saves(q) = id
        BY <1>6, <1>9 DEF Saves
      <3> QED
        BY <1>6, <1>9, <2>1, <3>1, <3>2, <3>3, <3>4
    <2>2. CASE i # id
      <3>1. i \in own[t] \cap DOMAIN row /\ row'[i] = row[i] /\ i # Nowhere
        BY <1>11, <1>12, <2>2
      <3>2. i \in OwnRow(t, k)
        BY <3>1 DEF OwnRow
      <3>3. /\ \A y \in reqs : Answers(y, t, k) => ReqOwns(y, i)
            /\ (\A y \in reqs : ~Answers(y, t, k)) => HeldOwns(held[t][k], i)
        BY <3>2 DEF HeldSure
      <3>4. ~Answers(r, t, k)
        <4>1. Saves(r) # i
          BY <1>1, <1>9, <2>2, <3>1 DEF Saves
        <4> QED
          BY <3>3, <4>1 DEF ReqOwns
      <3>5. ~(r.live /\ Answers(q, t, k))
        BY <1>6, <3>4 DEF Answers
      <3> QED
        BY <1>8, <3>1, <3>3, <3>4, <3>5 DEF ReqOwns, HeldOwns
    <2> QED
      BY <2>1, <2>2
  <1>17. OwnSure'
    <2> SUFFICES ASSUME NEW t \in up, NEW i \in own'[t] \cap DOMAIN row'
                 PROVE  row'[i].key \in unsure \cup DOMAIN held[t] \cup gone[t]
      BY DEF OwnSure
    <2>1. CASE i = id
      BY <1>3, <1>4, <1>11, <1>13, <1>14, <2>1
    <2>2. CASE i # id
      BY <1>11, <1>12, <2>2 DEF OwnSure
    <2> QED
      BY <2>1, <2>2
  <1>18. ReqGone'
    <2> SUFFICES ASSUME NEW y \in reqs', y.live, y.id \in DOMAIN row', y.key \in gone[y.tab] \ unsure
                 PROVE  \E z \in deletes : z.id = y.id
      BY DEF ReqGone
    <2>1. CASE y \in reqs
      BY <1>10, <2>1 DEF ReqGone
    <2>2. CASE y = q
      BY <1>6, <1>10, <2>2 DEF ReqGone
    <2> QED
      BY <1>8, <2>1, <2>2
  <1>19. PostSure'
    <2> SUFFICES ASSUME NEW t \in Tab, post[t] # NoPost
                 PROVE  /\ post[t].phase # "waits" /\ post[t].key \notin unsure =>
                             \A i \in own'[t] \cap DOMAIN row' : row'[i].key = post[t].key => post[t].id = i
                        /\ post[t].phase = "answered" /\ post[t].ans = "sent" => post[t].id \notin DOMAIN row'
      BY DEF PostSure, PostOwns, OwnRow
    <2>1. PICK p : p = post[t]
      OBVIOUS
    <2>2. PostOwns(t) /\ Tagged(K, p.id, p.key) /\ (p.phase # "waits" => ~Answers(r, t, p.key))
      BY <2>1 DEF PostSure, PostsTyped
    <2>3. ASSUME p.phase # "waits", p.key \notin unsure, NEW i \in own'[t] \cap DOMAIN row', row'[i].key = p.key
          PROVE  p.id = i
      <3>1. i # id
        BY <1>3, <1>4, <1>13, <2>2, <2>3 DEF Answers
      <3>2. i \in OwnRow(t, p.key)
        BY <1>12, <2>3, <3>1 DEF OwnRow
      <3> QED
        BY <2>1, <2>2, <2>3, <3>2 DEF PostOwns
    <2>4. ASSUME p.phase = "answered", p.ans = "sent" PROVE p.id \notin DOMAIN row'
      <3>1. p.id \notin DOMAIN row
        BY <2>1, <2>2, <2>4 DEF PostOwns
      <3>2. p.id # nextid
        BY <2>2 DEF Tagged, Counted
      <3> QED
        BY <1>4, <1>9, <3>1, <3>2
    <2> QED
      BY <2>1, <2>3, <2>4
  <1>20. StaysGone'
    <2> SUFFICES ASSUME NEW t \in up, NEW k \in gone[t] \ unsure, NEW i \in DOMAIN row' \cap own'[t], row'[i].key = k
                 PROVE  \/ \E y \in deletes : y.id = i
                        \/ \E y \in reqs' : y.live /\ y.tab = t /\ y.key = k /\ y.id = Nowhere /\ y.newid = i
      BY DEF StaysGone, Row
    <2>1. CASE i = id
      <3>1. t = r.tab /\ r.live /\ k = r.key
        BY <1>3, <1>4, <1>11, <1>13, <2>1
      <3>2. CASE r.id = Nowhere
        BY <1>6, <1>8, <2>1, <3>1, <3>2
      <3>3. CASE r.id # Nowhere
        BY <1>9, <2>1, <3>1, <3>3 DEF ReqGone
      <3> QED
        BY <3>2, <3>3
    <2>2. CASE i # id
      <3>1. i \in own[t] \cap DOMAIN row /\ row'[i] = row[i] /\ i # Nowhere
        BY <1>11, <1>12, <2>2
      <3>2. \/ \E y \in deletes : y.id = i
            \/ \E y \in reqs : y.live /\ y.tab = t /\ y.key = k /\ y.id = Nowhere /\ y.newid = i
        BY <3>1 DEF StaysGone, Row
      <3> QED
        BY <1>1, <1>8, <3>1, <3>2
    <2> QED
      BY <2>1, <2>2
  <1> QED
    BY <1>15, <1>16, <1>17, <1>18, <1>19, <1>20

LEMMA StepSure ==
  ASSUME NEW K, Typed(K), Revs, Sure, [Next]_vars
  PROVE  Sure'
  <1>1. CASE Moves
    BY <1>1, SureMoves
  <1>2. ASSUME NEW r \in reqs, ServerSaves(r) PROVE Sure'
    <2>1. /\ r.ans = "none" /\ Aside /\ UNCHANGED <<deletes, post, unsure>>
          /\ Refuses(r) \/ \E id, rev : Takes(r, id, rev)
      BY <1>2, ServerSavesHow
    <2> QED
      BY <2>1, SureRefuses, SureTakes
  <1>3. CASE ServerWrites
    BY <1>2, <1>3, SureSends, SureDeletes, SureRestart DEF ServerWrites
  <1> QED
    BY <1>1, <1>3, StepMoves

\* What a tab has sent or thrown away does not come back: a row under its key that this page
\* was the last to save is on its way out, or the answer is that will have it deleted, unless
\* something of that draft was lost on the way and the page was never told its fate.
THEOREM NothingComesBack == Spec => []StaysGone
  <1> DEFINE Inv == (\E K : Typed(K)) /\ Revs /\ Sure
  <1>1. Init => Inv
    <2> SUFFICES ASSUME Init PROVE Inv
      OBVIOUS
    <2>1. Revs
      BY DEF Init, Revs, HeldRevs, ReqRevs, ReqsHeld, ListRevs, LocalRevs, NoList
    <2>2. ReqSure /\ HeldSure /\ OwnSure /\ ReqGone /\ PostSure /\ StaysGone
      BY DEF Init, ReqSure, HeldSure, OwnSure, ReqGone, PostSure, StaysGone
    <2> QED
      BY <2>1, <2>2, InitTyped DEF Sure
  <1>2. Inv /\ [Next]_vars => Inv'
    <2> SUFFICES ASSUME NEW K, Typed(K), Revs, Sure, [Next]_vars PROVE Inv'
      OBVIOUS
    <2>1. (\E L : Typed(L))'
      BY StepTyped
    <2> QED
      BY <2>1, StepRevs, StepSure
  <1>3. Inv => StaysGone
    BY DEF Sure
  <1> QED
    BY <1>1, <1>2, <1>3, PTL DEF Spec
=============================================================================
