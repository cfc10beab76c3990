------------------------------ MODULE Indexer ------------------------------
(***************************************************************************)
(* The queue of attachments whose text Tika is to read.                    *)
(*                                                                         *)
(* A drain reads a batch, ends its transaction, puts each file to Tika and *)
(* writes what came of it.  The agent has one such thread, and an import   *)
(* drains the same queue beside it.  Some files Tika cannot read, some it  *)
(* never finishes and some take it down: what went wrong has to be told    *)
(* apart from what the service did on its own.  Meanwhile a message may be *)
(* stored again (its attachment rows replaced) or pruned to its headers.   *)
(***************************************************************************)
EXTENDS Integers, Sequences, FiniteSets

CONSTANTS
    Drain,         \* the indexer's thread and imports, each on a session of its own
    Agent,         \* the first of the two
    Msg,
    Files,         \* the attachments there are: a sequence of [msg, kind]
    Batch,         \* EXTRACT_BATCH
    MaxAtt,        \* bound: attachment rows
    Budgets        \* bounds: die, hang, slow, replace, strip

VARIABLES
    atts,          \* Attachment rows: [msg, kind, status]
    search,        \* the attachments whose text is in each message's search_text
    rollup,        \* Message.extract_status
    tika,          \* "up", "down", or "hung": taking requests and answering none
    drain,         \* what each drain is doing
    losses,        \* history: how often Tika went with a file in its hands
    stalled,       \* history: files Tika hung on, and was answering again when asked
    left           \* what is left of the budget

rows == <<atts, search, rollup>>
vars == <<rows, tika, drain, losses, stalled, left>>

Atts       == DOMAIN atts
Of(m)      == {i \in Atts : atts[i].msg = m}
Pending(i) == atts[i].status = "pending"
Spend(k)   == left[k] > 0 /\ left' = [left EXCEPT ![k] = @ - 1]

Idle ==
    [pc |-> "idle", batch |-> {}, hand |-> 0,   \* what is left of the batch, and the file at Tika
     again |-> FALSE,                           \* is it there for the second time?
     text |-> {}, reject |-> {},                \* extracted, rejected
     search |-> [m \in {} |-> {}],              \* what it has written and not committed
     done |-> {}]                               \* of which rows

\* What a file does to Tika: a "good" and a "bad" one are answered, a "slow" one never
\* in time, and a "killer" takes a JVM with it.
New(f) == [msg |-> f.msg, kind |-> f.kind, status |-> "pending"]

Init ==
    /\ atts = [i \in DOMAIN Files |-> New(Files[i])]
    /\ search = [m \in Msg |-> {}] /\ rollup = [m \in Msg |-> "pending"]
    /\ tika = "up" /\ drain = [d \in Drain |-> Idle]
    /\ losses = [i \in 1..MaxAtt |-> 0] /\ stalled = {}
    /\ left \in Budgets

At(d, pc)  == drain[d].pc = pc
Goto(d, s) == drain' = [drain EXCEPT ![d] = s]

(***************************************************************************)
(* extract_pending: the batch, and the files put to Tika.                  *)
(***************************************************************************)
ReadBatch(d) ==
    /\ At(d, "idle")
    /\ LET waiting == {i \in Atts : Pending(i)} IN
       \E b \in SUBSET waiting :
          /\ b # {} /\ Cardinality(b) <= Batch /\ (Cardinality(b) = Batch \/ b = waiting)
          /\ Goto(d, [Idle EXCEPT !.pc = "next", !.batch = b])
    /\ UNCHANGED <<rows, tika, losses, stalled, left>>

\* What a file's verdict leaves of the batch.
Keep(d, i)   == [drain[d] EXCEPT !.pc = "next", !.text = @ \cup {i}, !.again = FALSE, !.hand = 0]
Reject(d, i) == [drain[d] EXCEPT !.pc = "next", !.reject = @ \cup {i}, !.again = FALSE, !.hand = 0]
Stop(d)      == [drain[d] EXCEPT !.pc = "next", !.batch = {}, !.again = FALSE, !.hand = 0]

\* The next file goes in, unless the connection is refused.
Ask(d) ==
    /\ At(d, "next") /\ drain[d].batch # {}
    /\ IF tika = "down" THEN Goto(d, Stop(d))
       ELSE \E i \in drain[d].batch :
            Goto(d, [drain[d] EXCEPT !.pc = "asking", !.batch = @ \ {i}, !.hand = i])
    /\ UNCHANGED <<rows, tika, losses, stalled, left>>

\* A file that crashed Tika goes in once more when Tika answers again.
AskAgain(d) ==
    /\ At(d, "waiting") /\ tika = "up"
    /\ Goto(d, [drain[d] EXCEPT !.pc = "asking", !.again = TRUE])
    /\ UNCHANGED <<rows, tika, losses, stalled, left>>

\* wait_for_health ran out: Tika is taking longer than a minute.
GiveUp(d) ==
    /\ At(d, "waiting") /\ tika # "up" /\ Goto(d, Stop(d))
    /\ Spend("slow")
    /\ UNCHANGED <<rows, tika, losses, stalled>>

Answer(d) ==
    LET i == drain[d].hand IN
    /\ At(d, "asking") /\ tika = "up"
    /\ \/ atts[i].kind = "good" /\ Goto(d, Keep(d, i))
       \/ atts[i].kind = "bad"  /\ Goto(d, Reject(d, i))                         \* UNPROCESSABLE
    /\ UNCHANGED <<rows, tika, losses, stalled, left>>

\* Variant: a file that times out waits for a better day.
patient(d, i) == Stop(d)

\* TIMEOUT, and Tika says it is up: it is this file.
timed_out(d, i) == Reject(d, i)

\* TIMEOUT: of the file, or of a Tika that hangs; health() tells which, if Tika has
\* not come round in between.
TimesOut(d) ==
    LET i == drain[d].hand IN
    /\ At(d, "asking") /\ (atts[i].kind = "slow" \/ tika = "hung")
    /\ \/ tika # "up" /\ Goto(d, Stop(d)) /\ UNCHANGED <<tika, stalled>>
       \/ tika = "up" /\ UNCHANGED <<tika, stalled>>
          /\ Goto(d, IF drain[d].again THEN Stop(d) ELSE timed_out(d, i))
       \/ tika = "hung" /\ tika' = "up" /\ stalled' = stalled \cup {i}
          /\ Goto(d, IF drain[d].again THEN Stop(d) ELSE timed_out(d, i))
    /\ UNCHANGED <<rows, losses, left>>

\* Variant: the file that was in it did it.
burnt(d) == Reject(d, drain[d].hand)

\* CRASHED: once, and the file is put to Tika again; twice, and it is a poison pill.
crashed(d) ==
    IF drain[d].again THEN Reject(d, drain[d].hand) ELSE [drain[d] EXCEPT !.pc = "waiting"]

\* The fork goes with its file, or the server with every file it was holding.
Lose(D) ==
    /\ drain'  = [d \in Drain |-> IF d \in D THEN crashed(d) ELSE drain[d]]
    /\ losses' = [i \in DOMAIN losses |->
                    losses[i] + Cardinality({d \in D : drain[d].hand = i})]

Asking == {d \in Drain : At(d, "asking")}

Kill(d) ==
    /\ At(d, "asking") /\ atts[drain[d].hand].kind = "killer" /\ tika = "up"
    /\ \/ Lose({d}) /\ UNCHANGED tika
       \/ Lose(Asking) /\ tika' = "down"
    /\ UNCHANGED <<rows, stalled, left>>

(***************************************************************************)
(* extract_pending: what came of it is written.                            *)
(***************************************************************************)
Check(d) ==
    /\ At(d, "next") /\ drain[d].batch = {}
    /\ IF drain[d].text \cup drain[d].reject = {} THEN Goto(d, Idle)
       ELSE Goto(d, [drain[d] EXCEPT !.pc = "checked",
                \* a row may have been deleted or emptied since the batch was read
                !.done = {i \in drain[d].text \cup drain[d].reject : Pending(i)}])
    /\ UNCHANGED <<rows, tika, losses, stalled, left>>

Touched(d) == {atts[i].msg : i \in drain[d].done}

\* A row deleted between the check and the write: StaleDataError, and all is undone.
Stale(d) ==
    /\ At(d, "checked") /\ \E i \in drain[d].done : atts[i].status = "deleted"
    /\ Goto(d, Idle)
    /\ UNCHANGED <<rows, tika, losses, stalled, left>>

\* The attachments as this session sees them: committed, or written by itself.
Resolved(d, i) ==
    IF i \notin drain[d].done THEN atts[i].status
    ELSE IF i \in drain[d].text THEN "done" ELSE "error"

\* Variant: what is new is added, what was there is thought to be.
new_texts(d, m) == {i \in Of(m) : i \in drain[d].done \cap drain[d].text}

\* rebuild_search_text
rebuild(d, m) == {i \in Of(m) : Resolved(d, i) = "done"}

Flush(d) ==
    /\ At(d, "checked") /\ \A i \in drain[d].done : atts[i].status # "deleted"
    /\ Goto(d, [drain[d] EXCEPT !.pc = "flushed", !.search = [m \in Touched(d) |->
                  [was   |-> search[m],
                   texts |-> rebuild(d, m),
                   over  |-> \A i \in Of(m) : Resolved(d, i) # "pending"]]])
    /\ UNCHANGED <<rows, tika, losses, stalled, left>>

\* A column that is as it was read is not written.
Commit(d) ==
    /\ At(d, "flushed") /\ Goto(d, Idle)
    /\ atts' = [i \in Atts |-> [atts[i] EXCEPT !.status = Resolved(d, i)]]
    /\ search' = [m \in Msg |->
            IF m \in Touched(d) /\ drain[d].search[m].texts # drain[d].search[m].was
            THEN drain[d].search[m].texts ELSE search[m]]
    /\ rollup' = [m \in Msg |-> IF m \in Touched(d) /\ drain[d].search[m].over
                                THEN "done" ELSE rollup[m]]
    /\ UNCHANGED <<tika, losses, stalled, left>>

(***************************************************************************)
(* Tika, and what else happens to the messages.                            *)
(***************************************************************************)
TikaDies ==
    /\ tika # "down" /\ tika' = "down" /\ Lose(Asking)
    /\ Spend("die")
    /\ UNCHANGED <<rows, stalled>>

TikaHangs ==
    /\ tika = "up" /\ tika' = "hung" /\ Spend("hang")
    /\ UNCHANGED <<rows, drain, losses, stalled>>

TikaRecovers ==
    /\ tika # "up" /\ tika' = "up"
    /\ UNCHANGED <<rows, drain, losses, stalled, left>>

\* A drain that has written a row holds it until it commits.
Locked(m) == \E d \in Drain : At(d, "flushed") /\ m \in Touched(d)

\* replace_content: the rows go, and the new bytes bring their own.
without_rows(m) == [i \in Atts |-> IF i \in Of(m) THEN [atts[i] EXCEPT !.status = "deleted"] ELSE atts[i]]

Fresh(m) ==
    LET upto[n \in 0..Len(Files)] ==
            IF n = 0 THEN <<>>
            ELSE IF Files[n].msg = m THEN Append(upto[n-1], Files[n]) ELSE upto[n-1]
    IN upto[Len(Files)]

Replace(m) ==
    /\ ~Locked(m) /\ Len(atts) + Len(Fresh(m)) <= MaxAtt
    /\ atts' = without_rows(m) \o [i \in DOMAIN Fresh(m) |-> New(Fresh(m)[i])]
    /\ search' = [search EXCEPT ![m] = {}] /\ rollup' = [rollup EXCEPT ![m] = "pending"]
    /\ Spend("replace")
    /\ UNCHANGED <<tika, drain, losses, stalled>>

\* strip_content, by the agent's indexer between two drains
Strip(m) ==
    /\ ~Locked(m) /\ At(Agent, "idle")
    /\ atts' = [i \in Atts |-> IF i \in Of(m) /\ atts[i].status # "deleted"
                               THEN [atts[i] EXCEPT !.status = "skipped"] ELSE atts[i]]
    /\ search' = [search EXCEPT ![m] = {}] /\ rollup' = [rollup EXCEPT ![m] = "none"]
    /\ Spend("strip")
    /\ UNCHANGED <<tika, drain, losses, stalled>>

DrainStep(d) ==
    \/ ReadBatch(d) \/ Ask(d) \/ AskAgain(d) \/ Answer(d) \/ TimesOut(d) \/ Kill(d)
    \/ Check(d) \/ Stale(d) \/ Flush(d) \/ Commit(d)

Next ==
    \/ \E d \in Drain : DrainStep(d) \/ GiveUp(d)
    \/ TikaDies \/ TikaHangs \/ TikaRecovers
    \/ \E m \in Msg : Replace(m) \/ Strip(m)

Spec == Init /\ [][Next]_vars

\* A drain goes on, and a Tika that has gone is restarted.
Fairness == WF_vars(TikaRecovers) /\ \A d \in Drain : WF_vars(DrainStep(d))

(***************************************************************************)
(* Properties.                                                             *)
(***************************************************************************)
\* A file that could have been read is given up only if Tika went twice with it in
\* its hands, or hung on it and was well again when asked (_extract_one).
NoBystander ==
    \A d \in Drain, i \in Atts : i \in drain[d].reject /\ atts[i].kind = "good"
        => losses[i] >= 2 \/ i \in stalled

\* A search finds a message by exactly the attachments it still has the text of, and
\* it counts as read when none is waiting (rebuild_search_text, extract_pending): while
\* one drain runs.  Two that cross write over each other's text.
Searchable ==
    \A m \in Msg :
        /\ search[m] = {i \in Of(m) : atts[i].status = "done"}
        /\ rollup[m] = "pending" <=> \E i \in Of(m) : Pending(i)

\* No file, whatever it does to Tika, keeps the queue from running empty.
NoneOwed == \A i \in Atts : ~Pending(i)
Drained == []<>NoneOwed
=============================================================================
