------------------------------ MODULE MCDrafts ------------------------------
(* Small browsers for TLC: what may happen, in one behaviour or another.    *)
EXTENDS Drafts, TLC

Budget(word, file, open, fork, send, throw, lost, load, offline, restart) ==
    [word |-> word, file |-> file, open |-> open, fork |-> fork, send |-> send, throw |-> throw,
     lost |-> lost, load |-> load, offline |-> offline, restart |-> restart]
\* Tabs are alike, and nothing chooses among them.
Alike == Permutations(Tab)
Budgeted ==
    {Budget(2, 0, 1, 1, 1, 1, 0, 0, 0, 0), Budget(2, 0, 1, 1, 0, 0, 1, 0, 0, 0), Budget(2, 1, 1, 1, 0, 0, 0, 0, 0, 0),
     Budget(1, 1, 1, 0, 0, 1, 0, 0, 0, 0), Budget(1, 1, 1, 0, 0, 0, 0, 0, 0, 1), Budget(1, 1, 1, 0, 1, 0, 0, 0, 0, 0),
     Budget(1, 0, 1, 1, 1, 0, 1, 0, 0, 0), Budget(1, 0, 1, 0, 0, 1, 1, 0, 0, 0), Budget(2, 0, 1, 1, 0, 0, 0, 1, 1, 0)}
====================================
