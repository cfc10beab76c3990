------------------------------- MODULE Guard -------------------------------
(***************************************************************************)
(* What keeps drafts and recordings on the operator's own machines.        *)
(*                                                                         *)
(* Before a text is sent to the grammar checker, or a recording to the     *)
(* dictation service, the host is looked up and a public address refused.  *)
(* Verdicts are kept per URL, for a while, and threads share them; a host  *)
(* that does not resolve is a service that is down, and asked again soon.  *)
(***************************************************************************)
EXTENDS Integers

CONSTANTS
    Thread,
    GUARD_TTL, UNRESOLVED_TTL,
    MaxClock        \* bound: the clock

VARIABLES
    clock,
    dns,            \* what the host resolves to
    true_at,        \* history: when each verdict was last the truth
    cache,          \* [until, verdict]
    thread          \* a request of each thread: how far, its now, its verdict

vars == <<clock, dns, true_at, cache, thread>>

Verdict == {"private", "public", "unresolved"}
Idle    == [at |-> "idle", now |-> 0, verdict |-> "public"]
Set(t, r) == thread' = [thread EXCEPT ![t] = r]

Init ==
    /\ clock = 0 /\ dns \in Verdict
    /\ true_at = [v \in Verdict |-> IF v = dns THEN 0 ELSE -100]
    /\ cache = [until |-> 0, verdict |-> "public"]
    /\ thread = [t \in Thread |-> Idle]

\* _guard: the cache is asked first; a verdict in it decides.
Ask(t) ==
    /\ thread[t].at = "idle"
    /\ \/ cache.until > clock /\ Set(t, [at |-> "decided", now |-> clock, verdict |-> cache.verdict])
       \/ cache.until <= clock /\ Set(t, [Idle EXCEPT !.at = "lookup", !.now = clock])
    /\ UNCHANGED <<clock, dns, true_at, cache>>

\* _resolves_publicly
Lookup(t) ==
    /\ thread[t].at = "lookup"
    /\ Set(t, [thread[t] EXCEPT !.at = "store", !.verdict = dns])
    /\ UNCHANGED <<clock, dns, true_at, cache>>

TTL(v) == IF v = "unresolved" THEN UNRESOLVED_TTL ELSE GUARD_TTL

\* Variant: the verdict counts from when it is written down.
from_store(t) == clock + TTL(thread[t].verdict)

\* It counts from before it was looked up.
expires(t) == thread[t].now + TTL(thread[t].verdict)

Store(t) ==
    /\ thread[t].at = "store"
    /\ cache' = [until |-> expires(t), verdict |-> thread[t].verdict]
    /\ Set(t, [thread[t] EXCEPT !.at = "decided"])
    /\ UNCHANGED <<clock, dns, true_at>>

\* Sent, refused, or reported as down.
Done(t) ==
    /\ thread[t].at = "decided" /\ Set(t, Idle)
    /\ UNCHANGED <<clock, dns, true_at, cache>>

Tick ==
    /\ clock < MaxClock /\ clock' = clock + 1
    /\ true_at' = [true_at EXCEPT ![dns] = clock + 1]
    /\ UNCHANGED <<dns, cache, thread>>

Move(v) ==
    /\ v # dns /\ dns' = v
    /\ true_at' = [true_at EXCEPT ![v] = clock]
    /\ UNCHANGED <<clock, cache, thread>>

Next ==
    \/ Tick \/ \E v \in Verdict : Move(v)
    \/ \E t \in Thread : Ask(t) \/ Lookup(t) \/ Store(t) \/ Done(t)
Spec == Init /\ [][Next]_vars

\* Whatever a request goes by was so less than its TTL before the request looked, or
\* later: nothing is sent to a host that has been public for longer, and a service
\* that is back is not called down for longer, however slow a lookup was and however
\* the threads' lookups overtake each other.
FreshVerdict ==
    \A t \in Thread : thread[t].at = "decided" =>
        true_at[thread[t].verdict] > thread[t].now - TTL(thread[t].verdict)
=============================================================================
