------------------------------ MODULE Threads ------------------------------
(***************************************************************************)
(* Conversations, and the reminders that park them.                        *)
(*                                                                         *)
(* Mail arrives in any order and is put in a conversation as it is stored  *)
(* (assign_thread): by what it references and what references it, merging  *)
(* what it joins, or else by its subject.  Two messages may wear one       *)
(* Message-ID; the second is filed under its bytes and threads without it. *)
(* A reminder files a whole conversation in Archive and brings it back,    *)
(* from the worker's tick or by hand; it names the conversation by the     *)
(* thread id it had when the reminder was set.                             *)
(*                                                                         *)
(* One account, one folder per message.  How a move reaches the mail       *)
(* server is in Placement, the reminders of other installs in Journal.     *)
(***************************************************************************)
EXTENDS Integers, Sequences, FiniteSets, FiniteSetsExt

CONSTANTS
    N,              \* messages are 1..N, numbered by their Date headers
    Id(_),          \* a message's Message-ID: a number, as are thread ids
    Refs(_),        \* what its References and In-Reply-To name
    Subject(_),     \* its subject without Re: and Fwd:, or "" for none to go by
    IsReply(_),     \* does its subject present it as a reply?
    Window,         \* SUBJECT_MATCH_WINDOW
    AnchorsToo,     \* may the message a reminder was set on be deleted for good?
    Budgets         \* bounds: remind, touch, clear, fail, relist, rethread, delete

VARIABLES
    thread,         \* thread_id of what is stored, 0 otherwise
    shared,         \* mail filed under its bytes (dedup_key), its id being taken
    box,            \* the folder a message shows in
    archive,        \* the id of the Archive row
    reminders,      \* Reminder rows, by id
    tick,           \* reminders a tick of run_due has read and not got to
    clear,          \* a clear_reminder that has read and not committed
    taken,          \* history: reminders the user took back
    reordered,      \* history: was mail threaded anew, or after its id's first holder went?
    left            \* what is left of the budget

mail  == <<thread, shared, box>>
vars  == <<mail, archive, reminders, tick, clear, taken, reordered, left>>

Msg   == 1..N
Stored == {m \in Msg : thread[m] # 0}
Key(m) == 100 + m                          \* content_key
NoClear  == [ids |-> {}, restore |-> FALSE]
Spend(k) == left[k] > 0 /\ left' = [left EXCEPT ![k] = @ - 1]

Init ==
    /\ thread = [m \in Msg |-> 0] /\ shared = {} /\ box = [m \in Msg |-> "none"]
    /\ archive = 1 /\ reminders = <<>> /\ tick = {} /\ clear = NoClear /\ taken = {} /\ reordered = FALSE
    /\ left \in Budgets

(***************************************************************************)
(* assign_thread, on the thread ids t of what is stored.                   *)
(***************************************************************************)
In(t) == {m \in Msg : t[m] # 0}

\* The conversations of what m names; an ambiguous parent is no parent.
parents(t, m) ==
    UNION {th \in {{t[n] : n \in {x \in In(t) : Id(x) = i}} : i \in Refs(m)} : Cardinality(th) = 1}

\* The conversations of what names m, asked for under an id that is m's alone.
children(t, m, shared_id) ==
    {t[n] : n \in {x \in In(t) : ~shared_id /\ Id(m) \in Refs(x)}}

\* Variant: the conversations a message bridges are left as they are.
no_merge(t, keep, found) == t

\* _merge_threads, of every conversation found
merge(t, keep, found) == [n \in Msg |-> IF t[n] \in found THEN keep ELSE t[n]]

\* Conversations of m's subject, by the Date of their first message of it.
subject_roots(t, m) ==
    LET same(th) == {n \in In(t) : t[n] = th /\ Subject(n) = Subject(m)}
        threads  == {t[n] : n \in {x \in In(t) : Subject(x) = Subject(m)}}
    IN {<<Min(same(th)), th>> : th \in threads}

near(t, m) == {r \in subject_roots(t, m) : r[1] - m <= Window /\ m - r[1] <= Window}

assign_thread(t, m, shared_id) ==
    LET found == parents(t, m) \cup children(t, m, shared_id) IN
    IF found # {}
    THEN [merge(t, Min(found), found) EXCEPT ![m] = Min(found)]
    ELSE IF Subject(m) # "" /\ IsReply(m) /\ near(t, m) # {}
    THEN [t EXCEPT ![m] = (CHOOSE r \in near(t, m) : \A x \in near(t, m) : r[1] <= x[1])[2]]
    ELSE [t EXCEPT ![m] = IF shared_id THEN Key(m) ELSE Id(m)]

\* Is the id held by another message?  (ingest_raw: same_message said no)
id_taken(m) == \E n \in Stored \ shared : Id(n) = Id(m)

ingest_raw(m) ==
    /\ m \notin Stored
    /\ thread' = assign_thread(thread, m, id_taken(m))
    /\ shared' = IF id_taken(m) THEN shared \cup {m} ELSE shared
    /\ box' = [box EXCEPT ![m] = "inbox"]
    /\ UNCHANGED <<archive, reminders, tick, clear, taken, reordered, left>>

\* core/mail/rethread.py: all ids dropped, and the mail replayed in Date order.
rethread_account ==
    LET none == [m \in Msg |-> 0]
        replay[k \in 0..N] ==
            IF k = 0 THEN none
            ELSE IF k \in Stored THEN assign_thread(replay[k-1], k, k \in shared)
            ELSE replay[k-1]
    IN thread' = replay[N]

Rethread ==
    /\ rethread_account /\ reordered' = TRUE /\ Spend("rethread")
    /\ UNCHANGED <<shared, box, archive, reminders, tick, clear, taken>>

(***************************************************************************)
(* Reminders.                                                              *)
(***************************************************************************)
Pending(i) == reminders[i].state = "pending"
Ids        == DOMAIN reminders

pending_for(m) ==
    LET found == {i \in Ids : Pending(i) /\ reminders[i].thread = thread[m]} IN
    IF found = {} THEN {} ELSE {Min(found)}

conversation(m) == {n \in Stored : thread[n] = thread[m]}

\* set_reminder: a second one on a conversation only moves the deadline.
set_reminder(m) ==
    /\ m \in Stored
    /\ IF pending_for(m) # {}
       THEN /\ reminders' = [i \in Ids |-> IF i \in pending_for(m)
                                THEN [reminders[i] EXCEPT !.due = FALSE, !.error = FALSE]
                                ELSE reminders[i]]
            /\ UNCHANGED box
       ELSE LET conv == conversation(m) IN
            /\ reminders' = Append(reminders,
                  [message |-> m, thread |-> thread[m], due |-> FALSE, error |-> FALSE,
                   state |-> "pending", park |-> archive,
                   parked |-> [n \in conv |-> IF box[n] = "archive" THEN "inbox" ELSE box[n]]])
            /\ box' = [n \in Msg |-> IF n \in conv THEN "archive" ELSE box[n]]
    /\ Spend("remind")
    /\ UNCHANGED <<thread, shared, archive, tick, clear, taken, reordered>>

\* Variant: what comes back is the conversation as it is named now.
fire_thread(i) ==
    LET back == {n \in Stored : thread[n] = reminders[i].thread /\ box[n] = "archive"} IN
    [n \in Msg |-> IF n \in back THEN "inbox" ELSE box[n]]

\* fire: what was parked and is still where it was parked, to where it came from.
fire(i) ==
    LET r    == reminders[i]
        back == {n \in DOMAIN r.parked : n \in Stored /\ box[n] = "archive" /\ r.park = archive}
    IN [n \in Msg |-> IF n \in back THEN r.parked[n] ELSE box[n]]

Done(i) == [reminders EXCEPT ![i].state = "done", ![i].error = FALSE]

ComesDue(i) ==
    /\ Pending(i) /\ ~reminders[i].due
    /\ reminders' = [reminders EXCEPT ![i].due = TRUE]
    /\ UNCHANGED <<mail, archive, tick, clear, taken, reordered, left>>

\* Variant: a reminder that has failed waits for the user.
due_clean == {i \in Ids : Pending(i) /\ reminders[i].due /\ ~reminders[i].error}

due == {i \in Ids : Pending(i) /\ reminders[i].due}

\* run_due reads what is due without a lock ...
ReadDue ==
    /\ tick = {} /\ tick' = due
    /\ UNCHANGED <<mail, archive, reminders, clear, taken, reordered, left>>

\* ... and each again, locked, before firing it; a failure is noted on the row.
FireDue(i) ==
    /\ i \in tick /\ tick' = tick \ {i}
    /\ \/ Pending(i) /\ box' = fire(i) /\ reminders' = Done(i) /\ UNCHANGED left
       \/ Pending(i) /\ Spend("fail") /\ UNCHANGED box      \* _note_failure
          /\ reminders' = [reminders EXCEPT ![i].error = TRUE]
       \/ ~Pending(i) /\ UNCHANGED <<box, reminders, left>>
    /\ UNCHANGED <<thread, shared, archive, clear, taken, reordered>>

\* clear_reminder takes no lock: what it read may have fired by the time it commits.
ReadClear(m, restore) ==
    /\ clear = NoClear /\ m \in Stored /\ pending_for(m) # {}      \* else 404
    /\ clear' = [ids |-> pending_for(m), restore |-> restore]
    /\ Spend("clear")
    /\ UNCHANGED <<mail, archive, reminders, tick, taken, reordered>>

CommitClear(i) ==
    /\ i \in clear.ids /\ clear' = NoClear
    /\ IF reminders[i].state = "gone" THEN UNCHANGED <<box, reminders>>     \* no row to update
       ELSE IF clear.restore THEN box' = fire(i) /\ reminders' = Done(i)
       ELSE reminders' = [reminders EXCEPT ![i].state = "cancelled", ![i].error = FALSE]
            /\ UNCHANGED box
    /\ taken' = taken \cup {i}
    /\ UNCHANGED <<thread, shared, archive, tick, reordered, left>>

(***************************************************************************)
(* What else happens to the mail.                                          *)
(***************************************************************************)
\* Filed by hand.
Touch(m, b) ==
    /\ m \in Stored /\ b \in {"inbox", "archive", "other"} \ {box[m]} /\ box' = [box EXCEPT ![m] = b]
    /\ Spend("touch")
    /\ UNCHANGED <<thread, shared, archive, reminders, tick, clear, taken, reordered>>

\* Deleted for good.  A reminder set on it goes by ON DELETE CASCADE.
Gone == [message |-> 0, thread |-> 0, due |-> FALSE, error |-> FALSE, state |-> "gone",
         park |-> 0, parked |-> <<>>]
Delete(m) ==
    /\ m \in Stored
    /\ AnchorsToo \/ \A i \in Ids : Pending(i) => reminders[i].message # m
    /\ thread' = [thread EXCEPT ![m] = 0] /\ box' = [box EXCEPT ![m] = "none"]
    /\ shared' = shared \ {m}
    /\ reminders' = [i \in Ids |-> IF reminders[i].message = m THEN Gone ELSE reminders[i]]
    /\ reordered' = (reordered \/ \E n \in Msg \ {m} : Id(n) = Id(m))
    /\ Spend("delete")
    /\ UNCHANGED <<archive, tick, clear, taken>>

\* Archive leaves LIST for longer than the grace and comes back as a new row.
Relist ==
    /\ archive' = archive + 1 /\ Spend("relist")
    /\ UNCHANGED <<mail, reminders, tick, clear, taken, reordered>>

Next ==
    \/ Rethread \/ ReadDue \/ Relist
    \/ \E m \in Msg : \/ ingest_raw(m) \/ set_reminder(m) \/ Delete(m)
                       \/ \E restore \in BOOLEAN : ReadClear(m, restore)
                       \/ \E b \in {"inbox", "archive", "other"} : Touch(m, b)
    \/ \E i \in Ids : ComesDue(i) \/ FireDue(i) \/ CommitClear(i)

Spec == Init /\ [][Next]_vars

\* The worker wakes every minute and goes through what it read; clocks go on.
Fairness ==
    /\ WF_vars(ReadDue) /\ WF_vars(\E i \in Ids : FireDue(i))
    /\ WF_vars(\E i \in Ids : ComesDue(i))

(***************************************************************************)
(* Properties.                                                             *)
(***************************************************************************)
Alone(m) == \A n \in Msg \ {m} : Id(n) # Id(m)

\* In whatever order mail arrives, a message and the message it names, under an id
\* only one message wears, are in one conversation (assign_thread, _merge_threads,
\* rethread_account).
Whole == \A m, n \in Stored : Id(n) \in Refs(m) /\ Alone(n) => thread[m] = thread[n]

\* What ties mail together: subjects, and references, where a reference to an id
\* that two messages wear is to one of them, w.
Tied(x, y, w) == \/ Id(y) \in Refs(x) /\ (Alone(y) \/ y = w)
                 \/ Subject(x) = Subject(y) /\ Subject(x) # ""
Reach(m, w) ==
    LET step[k \in 0..N] ==
            IF k = 0 THEN {m}
            ELSE step[k-1] \cup {n \in Msg : \E x \in step[k-1] : Tied(x, n, w) \/ Tied(n, x, w)}
    IN step[N]
Kin == [p \in Msg \X Msg |-> Reach(p[1], p[2])]

\* Two messages that have nothing but their Message-ID in common are never in one
\* conversation, where archiving either would file both (ingest_raw, assign_thread).
StaysApart ==
    \A m, n \in Stored :
        m # n /\ Id(m) = Id(n) /\ thread[m] = thread[n] => n \in Kin[<<m, m>>] \cup Kin[<<m, n>>]

\* The same of mail as it arrives: until the conversations are reordered.
Apart == reordered \/ StaysApart

\* Mail that belongs together is together, and only that.
Grouped == Whole /\ Apart

\* A reminder that is over, unless the user took it back, has brought back all of
\* what it parked that nobody has filed elsewhere since, whatever has become of the
\* conversation (fire); but not once Archive itself has been listed anew.
BroughtBack ==
    \A i \in Ids : Pending(i) /\ ~(reminders'[i].state = "pending") /\ i \notin taken'
             /\ reminders[i].park = archive =>
        \A n \in DOMAIN reminders[i].parked :
            n \in Stored /\ box[n] = "archive" => thread'[n] = 0 \/ box'[n] # "archive"
Promise == [][BroughtBack]_vars

\* "Nothing retires a reminder except firing it or the user taking it back."
NothingRetires ==
    [][\A i \in Ids : Pending(i) /\ reminders'[i].state # "pending"
          => reminders'[i].state \in {"done", "cancelled"}]_vars

\* A conversation has one reminder waiting: asked for again, it is the same one.
OnePromise ==
    \A i, j \in Ids : i # j /\ Pending(i) /\ Pending(j) =>
        ~ \E m \in Stored : m \in DOMAIN reminders[i].parked /\ m \in DOMAIN reminders[j].parked
                            /\ box[m] = "archive"

\* What is put off comes back: no failure, however often, and no race with a
\* reminder taken back, keeps a reminder waiting for good (run_due).
NoneWaits == \A i \in Ids : ~Pending(i)
ComesBack == []<>NoneWaits
=============================================================================
