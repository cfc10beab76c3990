---------------------------- MODULE SettingsRow ----------------------------
(***************************************************************************)
(* The settings rows of the grammar checker and of dictation: one JSON     *)
(* value each, read, changed and written back by every request that        *)
(* touches one.  The row is read FOR UPDATE, which locks nothing while     *)
(* there is no row: of two first writers one loses on the primary key.     *)
(***************************************************************************)
EXTENDS FiniteSets, Naturals

CONSTANTS
    Request,
    Op(_),         \* what a request asks: [kind |-> "ignore", word |-> w],
                   \* [kind |-> "put", words |-> ws] or [kind |-> "enable", on |-> b]
    Fold(_),       \* a word's casefold
    MaxWords

VARIABLES
    row,           \* the Setting row: {} or the one value it holds
    lock,          \* who has read it FOR UPDATE
    at,            \* how far each request is
    read,          \* the row as it read it
    reply          \* what each was told

vars == <<row, lock, at, read, reply>>

Default == [enabled |-> TRUE, words |-> {}]

\* parse_stored: no row reads as the defaults.
parse_stored(r) == IF r = {} THEN Default ELSE CHOOSE v \in r : TRUE

\* validate_words, deduplicated by casefold with the first spelling kept
AddWord(v, w) == IF \E x \in v.words : Fold(x) = Fold(w) THEN v.words ELSE v.words \cup {w}

merge(v, o) ==
    CASE o.kind = "ignore" -> [v EXCEPT !.words = AddWord(v, o.word)]
      [] o.kind = "put"    -> [v EXCEPT !.words = o.words]
      [] o.kind = "enable" -> [v EXCEPT !.enabled = o.on]

Change(q, v)  == merge(v, Op(q))
Refuses(q, v) == Cardinality(Change(q, v).words) > MaxWords

Init ==
    /\ row = {} /\ lock = {}
    /\ at = [q \in Request |-> "first"] /\ read = [q \in Request |-> {}]
    /\ reply = [q \in Request |-> "none"]

\* Variant: the row is read without a lock.
read_plain(q) == UNCHANGED lock

\* Only a row that is there can be locked.
for_update(q) == IF row = {} THEN UNCHANGED lock ELSE lock = {} /\ lock' = {q}

\* _write: the row, FOR UPDATE ...
Read(q) ==
    /\ at[q] \in {"first", "again"}
    /\ for_update(q)
    /\ read' = [read EXCEPT ![q] = row]
    /\ at' = [at EXCEPT ![q] = IF @ = "first" THEN "read" ELSE "reread"]
    /\ UNCHANGED <<row, reply>>

Told(q, what) == reply' = [reply EXCEPT ![q] = what] /\ at' = [at EXCEPT ![q] = "done"]

\* ... the change, and the commit.  An insert meets a row that has come meanwhile.
Write(q) ==
    LET v == parse_stored(read[q]) IN
    /\ at[q] \in {"read", "reread"} /\ lock' = lock \ {q}
    /\ \/ Refuses(q, v) /\ Told(q, "refused") /\ UNCHANGED row
       \/ ~Refuses(q, v) /\ (read[q] # {} \/ row = {})
          /\ row' = {Change(q, v)} /\ Told(q, "ok")
       \/ ~Refuses(q, v) /\ read[q] = {} /\ row # {} /\ UNCHANGED row          \* _save: once more
          /\ IF at[q] = "read" THEN at' = [at EXCEPT ![q] = "again"] /\ UNCHANGED reply
             ELSE Told(q, "error")
    /\ UNCHANGED read

Next == \E q \in Request : Read(q) \/ Write(q)
Spec == Init /\ [][Next]_vars

\* However requests overlap, the row is what they make of it one after another, each
\* is answered once, and a word that was added stays until somebody takes it out;
\* losing the race to insert the row is never an error (_save, _write).
Atomic == INSTANCE AtomicSettings WITH value <- parse_stored(row)
Serialised == Atomic!Spec
=============================================================================
