------------------------------ MODULE MCTwins ------------------------------
(* One mail in one folder, a window it has left, and a full recheck.        *)
EXTENDS Content

MailId(m)      == 5
MailHeaders(m) == m
Rechecked      == {[arrive |-> 1, leave |-> 0, slide |-> 1, config |-> 1, recheck |-> 1, fail |-> 1]}
=============================================================================
