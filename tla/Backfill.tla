------------------------------ MODULE Backfill ------------------------------
(***************************************************************************)
(* Two columns an upgrade adds to a mailbox that is full already:          *)
(* messages.search_tsv, which keyword search reads once every row has it,  *)
(* and messages.body_sig, by which the Cleanup panel groups.               *)
(*                                                                         *)
(* The first is kept by a trigger and the second by the code that stores   *)
(* mail, which an agent of the old version, still running, knows nothing   *)
(* of.  What was there before is filled in batch by batch, in the          *)
(* background, while mail is stored and read back anew (core/searchindex,  *)
(* core/bodysig, app/workers).                                             *)
(***************************************************************************)
EXTENDS Naturals, FiniteSets

CONSTANTS
    Message,
    Batch,          \* BATCH
    Budgets         \* bounds: store, rewrite, remove, fail

VARIABLES
    migrated,       \* init_db has added the columns and the trigger
    newer,          \* the agent running is of the new version
    content,        \* each message's text, as a version; 0 if there is no row
    search_tsv,     \* the version each column says, or NULL
    body_sig,
    index,          \* search_index_loop: the ids of its batch
    prints,         \* body_sig_loop: the batch as it was read
    ready,          \* _index_ready, in the server's memory
    left            \* what is left of the budget

columns == <<content, search_tsv, body_sig>>
vars == <<migrated, newer, columns, index, prints, ready, left>>

NULL     == 99
Rows     == {m \in Message : content[m] # 0}
Idle     == [m \in {} |-> 0]
Spend(k) == left[k] > 0 /\ left' = [left EXCEPT ![k] = @ - 1]

Init ==
    /\ migrated = FALSE /\ newer = FALSE
    /\ content \in [Message -> {0, 1}]
    /\ search_tsv = [m \in Message |-> NULL] /\ body_sig = search_tsv
    /\ index = {} /\ prints = Idle /\ ready = FALSE
    /\ left \in Budgets

\* init_db: in one transaction, under the lock ALTER TABLE takes.
init_db ==
    /\ ~migrated /\ migrated' = TRUE
    /\ UNCHANGED <<newer, columns, index, prints, ready, left>>

Upgraded ==
    /\ migrated /\ ~newer /\ newer' = TRUE
    /\ UNCHANGED <<migrated, columns, index, prints, ready, left>>

\* meerail_messages_search_tsv: on INSERT and on UPDATE OF search_text, whoever writes.
trg_messages_search_tsv(m, v) == search_tsv' = [search_tsv EXCEPT ![m] = IF migrated THEN v ELSE NULL]

\* _store_content: the new version prints what it stores.
Stored(m, v) ==
    /\ content' = [content EXCEPT ![m] = v]
    /\ trg_messages_search_tsv(m, v)
    /\ body_sig' = [body_sig EXCEPT ![m] = IF newer THEN v ELSE @]

Store(m) ==
    /\ m \notin Rows /\ Spend("store") /\ Stored(m, 1)
    /\ UNCHANGED <<migrated, newer, index, prints, ready>>

\* replace_content, and search_text rebuilt when an attachment's text has come
Rewrite(m) ==
    /\ m \in Rows /\ Spend("rewrite") /\ Stored(m, content[m] + 1)
    /\ UNCHANGED <<migrated, newer, index, prints, ready>>

Remove(m) ==
    /\ m \in Rows /\ Spend("remove")
    /\ content' = [content EXCEPT ![m] = 0]
    /\ search_tsv' = [search_tsv EXCEPT ![m] = NULL] /\ body_sig' = [body_sig EXCEPT ![m] = NULL]
    /\ UNCHANGED <<migrated, newer, index, prints, ready>>

\* The next of them by id
Oldest(owed) == {m \in owed : Cardinality({n \in owed : n < m}) < Batch}

(***************************************************************************)
(* search_index_loop                                                       *)
(***************************************************************************)
Owed == {m \in Rows : search_tsv[m] = NULL}

PickIndex ==
    /\ migrated /\ index = {} /\ Owed # {} /\ index' = Oldest(Owed)
    /\ UNCHANGED <<migrated, newer, columns, prints, ready, left>>

\* Variant: what the text said when the batch was picked (before any rewrite).
as_picked(m) == 1

\* Computed in the database, from the column as it is when the row is written.
from_column(m) == content[m]

build_batch ==
    /\ index # {} /\ index' = {}
    /\ search_tsv' = [m \in Message |-> IF m \in index \cap Rows THEN from_column(m) ELSE search_tsv[m]]
    /\ UNCHANGED <<migrated, newer, content, body_sig, prints, ready, left>>

\* A batch that fails is logged, and there is another within the hour.
IndexFails ==
    /\ index # {} /\ Spend("fail") /\ index' = {}
    /\ UNCHANGED <<migrated, newer, columns, prints, ready>>

(***************************************************************************)
(* body_sig_loop                                                           *)
(***************************************************************************)
Unprinted == {m \in Rows : body_sig[m] = NULL}

ReadBodies ==
    /\ migrated /\ prints = Idle /\ Unprinted # {}
    /\ prints' = [m \in Oldest(Unprinted) |-> content[m]]
    /\ UNCHANGED <<migrated, newer, columns, index, ready, left>>

\* UPDATE ... WHERE id = b_id, with what was computed from what was read
PrintBodies ==
    /\ prints # Idle /\ prints' = Idle
    /\ body_sig' = [m \in Message |->
          IF m \in DOMAIN prints \cap Rows THEN prints[m] ELSE body_sig[m]]
    /\ UNCHANGED <<migrated, newer, content, search_tsv, index, ready, left>>

PrintsFail ==
    /\ prints # Idle /\ Spend("fail") /\ prints' = Idle
    /\ UNCHANGED <<migrated, newer, columns, index, ready>>

(***************************************************************************)
(* app/routers/search.py                                                   *)
(***************************************************************************)
\* _index_built: asked until the answer is yes, and never again.
_index_built ==
    /\ migrated /\ ~ready /\ ready' = (Owed = {})
    /\ UNCHANGED <<migrated, newer, columns, index, prints, left>>

RestartServer ==
    /\ ready /\ Spend("fail") /\ ready' = FALSE /\ index' = {} /\ prints' = Idle
    /\ UNCHANGED <<migrated, newer, columns>>

Next ==
    \/ init_db \/ Upgraded \/ PickIndex \/ build_batch \/ IndexFails
    \/ ReadBodies \/ PrintBodies \/ PrintsFail \/ _index_built \/ RestartServer
    \/ \E m \in Message : Store(m) \/ Rewrite(m) \/ Remove(m)

Spec == Init /\ [][Next]_vars

\* Once keyword search trusts the index it finds every message by what that says now,
\* whoever stored it and however the backfill, rewrites and restarts overlapped: the
\* latch of _index_built never has to be taken back.
IndexHonest == ready => \A m \in Rows : search_tsv[m] = content[m]

\* The same of the fingerprints, which are computed from bodies read earlier.
PrintsHonest == \A m \in Rows : body_sig[m] \in {content[m], NULL} \/ ~newer
=============================================================================
