---------------------------- MODULE MCPlacement ----------------------------
(* Small accounts for TLC: where the messages are, and what is refused.     *)
EXTENDS Placement, TLC

InInbox   == [m \in Msg |-> Inbox]
NoRefusal == {}
NoWayBack == {<<b, Inbox>> : b \in Box}
Both      == BOOLEAN
Offered   == {TRUE}
=============================================================================
