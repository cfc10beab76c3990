----------------------------- MODULE MCOutbox -----------------------------
(* Small instances of Outbox for TLC. *)
EXTENDS Outbox, TLC

CONSTANTS m1, m2, a1, a2, w1, w2

\* Messages and windows are interchangeable in every safety run.
Interchangeable == Permutations(Msg) \cup Permutations(Window) \cup Permutations(Agent)
=============================================================================
