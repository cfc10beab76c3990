------------------------------ MODULE MCRepair ------------------------------
(* One mail the server has in the inbox, and an old placeholder in Archive.  *)
EXTENDS Repair

OneLetter(b) == "letter"
OneStart ==
    {[rows |-> <<[bytes |-> "x", status |-> "full", own |-> TRUE]>>,
      real |-> {[row |-> 1, folder |-> "inbox", uid |-> 1]}, more |-> {},
      ahead |-> {<<1, "arch">>}, from |-> "inbox"]}
OnePress == {[press |-> 1, remind |-> 1, world |-> 1, fail |-> 1]}
=============================================================================
