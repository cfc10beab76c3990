------------------------------ MODULE Watchdog -------------------------------
(***************************************************************************)
(* The deadline on every IMAP call: src/agent/imap.py, Bridge._call and    *)
(* _watch_forever. A sync thread that raises recovers by itself; one that  *)
(* blocks for good recovers from nothing, so a second thread shuts the     *)
(* socket down under a call that has outlived its deadline. What it shuts  *)
(* down is a duplicate of the descriptor, which Bridge._hold takes while   *)
(* the connection is still being made.                                     *)
(*                                                                         *)
(* One Bridge. The case it exists for is modelled: the server has gone     *)
(* silent and neither the socket timeout nor keepalive ends the read.      *)
(***************************************************************************)
EXTENDS Naturals, FiniteSets, Sequences

CONSTANTS
  Security,   \* what imap_security may be: a subset of {"ssl", "starttls", "plain"}
  Early,      \* TRUE: the trouble may begin before the socket is held
  MaxConnect  \* connections made in a behaviour

VARIABLES
  security,   \* of this account
  at,         \* where the sync thread is: "down", a call of Calls, or "ready"
  blocked,    \* it is inside that call
  deadline,   \* Bridge._deadline: "none", "set", or "passed" on the clock
  watched,    \* the Bridge is in _watched
  held,       \* Bridge._sock is a duplicate of the connection's descriptor
  client,     \* Bridge.client is set
  up,         \* the kernel's socket: exists and has not been shut down
  silent,     \* the other side will never answer again
  overdue,    \* the watchdog has put the Bridge on this round's list
  made        \* connections so far

bridge == <<watched, held, client>>
vars == <<security, at, blocked, deadline, bridge, up, silent, overdue, made>>

\* The constructor is one call to the watchdog and two to the world: a name
\* is resolved and TCP connected, then handshake and greeting are read.
Calls == {"resolve", "greet", "starttls", "login", "command", "logout"}

Socketed(call) == call # "resolve"

Init ==
  /\ security \in Security
  /\ at = "down" /\ blocked = FALSE /\ deadline = "none"
  /\ watched = FALSE /\ held = FALSE /\ client = FALSE
  /\ up = FALSE /\ silent = FALSE /\ overdue = FALSE /\ made = 0

(***************************************************************************)
(* The sync thread                                                         *)
(***************************************************************************)

\* Bridge.connect: registered before the first byte.
connect ==
  /\ at = "down" /\ made < MaxConnect /\ made' = made + 1
  /\ at' = "resolve" /\ blocked' = TRUE /\ deadline' = "set"
  /\ watched' = TRUE /\ held' = FALSE /\ client' = FALSE
  /\ up' = FALSE /\ silent' = FALSE
  /\ UNCHANGED <<security, overdue>>

\* _TLSConnection.open hands the socket over before the handshake. The plain
\* and STARTTLS connections are built inside imapclient, and held once the
\* constructor is back.
_hold == held' = (held \/ security = "ssl")

open ==
  /\ at = "resolve" /\ at' = "greet" /\ up' = TRUE
  /\ _hold
  /\ UNCHANGED <<security, blocked, deadline, watched, client, silent, overdue, made>>

\* A variant: the raw client, for the commands of the write-back.
unguarded(call) ==
  /\ at' = call /\ blocked' = TRUE
  /\ deadline' = IF call = "command" THEN "none" ELSE "set"

\* Bridge._call: the deadline is set on the way in and cleared on the way
\* out, however the call ended.
_call(call) ==
  /\ at' = call /\ blocked' = TRUE /\ deadline' = "set"

Follows(call) ==
  CASE call = "greet" -> IF security = "starttls" THEN {"starttls"} ELSE {"login"}
    [] call = "starttls" -> {"login"}
    [] call \in {"login", "command"} -> {"command", "logout"}
    [] OTHER -> {}

\* The constructor's client is kept and its socket held, unless it was when
\* TCP came up; after that both are there already.
Returns ==
  /\ blocked /\ Socketed(at) /\ at # "logout" /\ up /\ ~silent
  /\ blocked' = FALSE /\ deadline' = "none"
  /\ client' = TRUE /\ held' = TRUE
  /\ UNCHANGED <<security, at, watched, up, silent, overdue, made>>

\* The next call goes through the client abort may have taken away: that is
\* an exception too.
Calling ==
  /\ ~blocked /\ client
  /\ \E call \in Follows(at) : _call(call)
  /\ UNCHANGED <<security, bridge, up, silent, overdue, made>>

\* A dead socket, or no client: the pass fails, the retry loop makes a new
\* connection, a Bridge of its own: a watchdog still about to abort the old
\* one finds nothing to shut down. The name was not found: the same.
Ended ==
  /\ at' = "down" /\ blocked' = FALSE /\ deadline' = "none"
  /\ watched' = FALSE /\ held' = FALSE /\ client' = FALSE
  /\ up' = FALSE /\ silent' = FALSE /\ overdue' = FALSE
  /\ UNCHANGED <<security, made>>

Fails ==
  /\ \/ blocked /\ Socketed(at) /\ ~up
     \/ blocked /\ at = "resolve"
     \/ ~blocked /\ at # "down" /\ ~client
  /\ Ended

\* logout answers or is cut off, and is not a failure either way.
logout ==
  /\ at = "logout" /\ blocked /\ (~up \/ ~silent)
  /\ Ended

(***************************************************************************)
(* The world, and the clock                                                *)
(***************************************************************************)

\* The connection is black-holed, under a call that is already waiting.
GoesSilent ==
  /\ blocked /\ Socketed(at) /\ up /\ ~silent
  /\ Early \/ held
  /\ silent' = TRUE
  /\ UNCHANGED <<security, at, blocked, deadline, bridge, up, overdue, made>>

\* A call runs past its deadline: because nothing will ever answer, or
\* because the answer is merely slow.
Passes ==
  /\ deadline = "set"
  /\ Early \/ held
  /\ deadline' = "passed"
  /\ UNCHANGED <<security, at, blocked, bridge, up, silent, overdue, made>>

(***************************************************************************)
(* The watchdog's thread                                                   *)
(***************************************************************************)

\* _watch_forever looks, and acts after it has let go of the lock: the call
\* may have ended by then and another begun.
_watch_forever ==
  /\ watched /\ deadline = "passed" /\ ~overdue
  /\ overdue' = TRUE
  /\ UNCHANGED <<security, at, blocked, deadline, bridge, up, silent, made>>

\* Bridge.abort shuts down what is held, drops the client, and takes the
\* Bridge off the list.
abort ==
  /\ overdue /\ overdue' = FALSE
  /\ up' = (up /\ ~held)
  /\ held' = FALSE /\ client' = FALSE
  /\ watched' = FALSE /\ deadline' = "none"
  /\ UNCHANGED <<security, at, blocked, silent, made>>

-----------------------------------------------------------------------------

Sync == open \/ Returns \/ Calling \/ Fails \/ logout

Next == connect \/ Sync \/ GoesSilent \/ Passes \/ _watch_forever \/ abort

Spec == Init /\ [][Next]_vars

\* Both threads run, the clock moves, and a name is resolved or not found in
\* the end. That a server answers is assumed of none that has gone silent.
Fairness ==
  /\ WF_vars(Sync) /\ WF_vars(Passes /\ silent)
  /\ WF_vars(_watch_forever) /\ WF_vars(abort)

-----------------------------------------------------------------------------

\* No call parks the sync thread for good: one whose server will never
\* answer ends all the same, and the retry loop has its exception.
Unparked == silent ~> ~silent
=============================================================================
