----------------------------- MODULE MCJournal -----------------------------
(* Small instances of Journal for TLC. *)
EXTENDS Journal

CONSTANTS i1, i2, i3, k1, k2

\* Where no reminder is set at the start, installs are interchangeable.
Interchangeable == Permutations(Install)
=============================================================================
