--------------------------- MODULE AtomicSettings ---------------------------
(***************************************************************************)
(* What a settings row promises: requests change it one at a time, each    *)
(* from what the one before it left, and each is answered once.            *)
(***************************************************************************)
CONSTANTS Request, Change(_, _), Refuses(_, _), Default
VARIABLES value, reply

Init == value = Default /\ reply = [q \in Request |-> "none"]

Answer(q) ==
    /\ reply[q] = "none"
    /\ \/ ~Refuses(q, value) /\ value' = Change(q, value)
          /\ reply' = [reply EXCEPT ![q] = "ok"]
       \/ Refuses(q, value) /\ UNCHANGED value
          /\ reply' = [reply EXCEPT ![q] = "refused"]

Next == \E q \in Request : Answer(q)
Spec == Init /\ [][Next]_<<value, reply>>
=============================================================================
