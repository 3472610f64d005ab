------------------------------ MODULE PageSocket ------------------------------
(***************************************************************************)
(* The socket of a page: the hook useWebSocket of the frontend.            *)
(*                                                                         *)
(* A visit is a time during which the page gives the hook one url: a run,  *)
(* a group, the signed-in user.  Each visit starts a line of its own, which *)
(* is a timer or a socket and never two of them: a timer opens a socket,   *)
(* and the end of a socket sets a timer.  All the lines share the refs of  *)
(* the hook.  The page may move to another url, or to none, at any time;   *)
(* the end of a socket it has closed comes later.                          *)
(***************************************************************************)
EXTENDS Naturals

CONSTANTS
  MaxAttempts,  \* maxReconnectAttempts
  \* Bounds of the model:
  MaxVisits,
  MaxFailures   \* of the network or the server

ASSUME ConstantsAssumption == MaxAttempts \in Nat /\ MaxVisits \in Nat /\ MaxFailures \in Nat

VARIABLES
  now,       \* the last visit
  at,        \* the visit that goes on, 0 when the page gives no url
  line,      \* what each visit's line is at
  held,      \* wsRef: the visit whose socket it is, 0 for null
  timer,     \* reconnectTimeoutRef: the visit whose timer was set last
  attempts,  \* reconnectAttemptsRef
  connected, \* isConnected
  failures,  \* of sockets that the page had not closed
  inARow     \* those since a socket has opened last

vars == <<now, at, line, held, timer, attempts, connected, failures, inARow>>

Visits == 1..MaxVisits

Live == {"connecting", "open"}
Timed == {"starting", "retrying"}
Ended == {"cancelled", "refused", "exhausted"}

TypeOK ==
  /\ now \in 0..MaxVisits
  /\ at \in {0, now}
  /\ line \in [Visits -> {"none", "closing"} \cup Live \cup Timed \cup Ended]
  /\ \A v \in Visits : v > now => line[v] = "none"
  /\ held \in 0..now /\ timer \in 0..now
  /\ attempts \in 0..MaxAttempts
  /\ connected \in BOOLEAN
  /\ failures \in 0..MaxFailures /\ inARow \in 0..failures

Init ==
  /\ now = 0 /\ at = 0
  /\ line = [v \in Visits |-> "none"]
  /\ held = 0 /\ timer = 0
  /\ attempts = 0
  /\ connected = FALSE
  /\ failures = 0 /\ inARow = 0
-----------------------------------------------------------------------------
(* The page. *)

\* The clean-up of a visit's effect, with disconnect: its first timer and
\* the retry that was set last are cleared, the socket in the ref is closed.
AfterCleanup(v) ==
  IF \/ v = at /\ line[v] = "starting"
     \/ v = timer /\ line[v] = "retrying"
  THEN "cancelled"
  ELSE IF v = held THEN "closing" ELSE line[v]

Disconnect_KeepsCount ==
  /\ held' = 0
  /\ connected' = FALSE
  /\ UNCHANGED <<timer, attempts, failures, inARow>>
Disconnect ==
  /\ held' = 0
  /\ attempts' = 0
  /\ connected' = FALSE
  /\ UNCHANGED <<timer, failures, inARow>>

\* The page gives another url: the effect is cleaned up, when there was
\* one, and run again.
Visit ==
  /\ now < MaxVisits
  /\ now' = now + 1
  /\ at' = now + 1
  /\ \/ /\ at # 0
        /\ line' = [v \in Visits |-> IF v = now + 1 THEN "starting" ELSE AfterCleanup(v)]
        /\ Disconnect
     \/ /\ at = 0
        /\ line' = [line EXCEPT ![now + 1] = "starting"]
        /\ UNCHANGED <<held, timer, attempts, connected, failures, inARow>>

\* It is left, or its user has logged out.
Leave ==
  /\ at # 0
  /\ at' = 0
  /\ line' = [v \in Visits |-> AfterCleanup(v)]
  /\ Disconnect
  /\ UNCHANGED now
-----------------------------------------------------------------------------
(* Timers and sockets. *)

\* A timer calls the connect of its visit, which closes the socket in the
\* ref, whichever that is.
Connect_OneTimer(v) ==
  /\ line[v] \in Timed
  /\ line' = [w \in Visits |-> IF w = v THEN "connecting"
                               ELSE IF w = timer /\ line[w] = "retrying" THEN "cancelled"
                               ELSE IF w = held THEN "closing" ELSE line[w]]
  /\ held' = v
  /\ UNCHANGED <<now, at, timer, attempts, connected, failures, inARow>>
Connect(v) ==
  /\ line[v] \in Timed
  /\ line' = [w \in Visits |-> IF w = v THEN "connecting"
                               ELSE IF w = held THEN "closing" ELSE line[w]]
  /\ held' = v
  /\ UNCHANGED <<now, at, timer, attempts, connected, failures, inARow>>

Open_KeepsCount(v) ==
  /\ line[v] = "connecting"
  /\ line' = [line EXCEPT ![v] = "open"]
  /\ connected' = TRUE
  /\ inARow' = 0
  /\ UNCHANGED <<now, at, held, timer, attempts, failures>>
Open(v) ==
  /\ line[v] = "connecting"
  /\ line' = [line EXCEPT ![v] = "open"]
  /\ attempts' = 0
  /\ connected' = TRUE
  /\ inARow' = 0
  /\ UNCHANGED <<now, at, held, timer, failures>>

\* onclose, with a code after which the hook tries again, or with one after
\* which it does not (1008, 1000).
Retry_OnceMore(v) ==
  IF attempts =< MaxAttempts
  THEN /\ attempts' = attempts + 1
       /\ line' = [line EXCEPT ![v] = "retrying"]
       /\ timer' = v
  ELSE /\ line' = [line EXCEPT ![v] = "exhausted"]
       /\ UNCHANGED <<attempts, timer>>
Retry(v) ==
  IF attempts < MaxAttempts
  THEN /\ attempts' = attempts + 1
       /\ line' = [line EXCEPT ![v] = "retrying"]
       /\ timer' = v
  ELSE /\ line' = [line EXCEPT ![v] = "exhausted"]
       /\ UNCHANGED <<attempts, timer>>

Refused(v) ==
  /\ line' = [line EXCEPT ![v] = "refused"]
  /\ UNCHANGED <<attempts, timer>>

OnClose_KeepsRef ==
  /\ connected' = FALSE
  /\ UNCHANGED <<now, at, held>>
OnClose ==
  /\ connected' = FALSE
  /\ held' = 0
  /\ UNCHANGED <<now, at>>

\* The server or the network ends it.
Fail(v) ==
  /\ line[v] \in Live
  /\ failures < MaxFailures
  /\ failures' = failures + 1
  /\ inARow' = inARow + 1
  /\ Retry(v)
  /\ OnClose

\* The endpoint accepts every connection before it looks at the session.
Refuse(v) ==
  /\ line[v] = "open"
  /\ Refused(v)
  /\ OnClose
  /\ UNCHANGED <<failures, inARow>>

\* What the page has closed comes to an end.  It calls close() without a
\* code, which the browser reports as 1005, not as 1000, unless the server
\* refused it meanwhile.
Closed(v) ==
  /\ line[v] = "closing"
  /\ Retry(v) \/ Refused(v)
  /\ OnClose
  /\ UNCHANGED <<failures, inARow>>
-----------------------------------------------------------------------------
Socket(v) == Open(v) \/ Fail(v) \/ Refuse(v) \/ Closed(v)

Next == Visit \/ Leave \/ \E v \in Visits : Connect(v) \/ Socket(v)

Spec == Init /\ [][Next]_vars

\* Timers go off, a connection under way is made or fails, a closing one
\* closes.  Nobody has to visit, leave or fail.
FairSpec ==
  /\ Spec
  /\ \A v \in Visits : WF_vars(Connect(v)) /\ WF_vars(Open(v)) /\ WF_vars(Closed(v))
-----------------------------------------------------------------------------
(* What is true of the page's socket. *)

\* The ref of the hook is a socket that is not closed or closing, so that
\* the heartbeat has somewhere to go; and on a page that has never moved it
\* is the page's socket, whenever there is one, whatever failed before.
HoldsItsSocket ==
  /\ held # 0 => line[held] \in Live
  /\ at = 1 /\ line[1] \in Live => held = 1

\* A page that has never moved gives up only after more failures in a row
\* than there are attempts: what failed before a socket opened is forgotten.
GivesUpLate ==
  at = 1 /\ line[1] = "exhausted" => inARow > MaxAttempts

\* When it has moved, the lines of its visits close one another's sockets,
\* each time at the cost of an attempt, and of the hook's five it takes few
\* failures to exhaust what is left: more than one after one move, and
\* still one after two.
NeverWithoutFailure ==
  at # 0 /\ line[at] = "exhausted" =>
    /\ at =< 2 => failures > 1
    /\ at =< 3 => failures > 0

\* That ends: when the page stays and the network fails no more, no timer
\* and no closing socket is left, and the page's own socket is open, unless
\* it was refused or given up.
ComesToRest ==
  <>[](/\ \A v \in Visits : line[v] \in {"none", "open"} \cup Ended
       /\ at # 0 => line[at] \in {"open", "refused", "exhausted"})
=============================================================================
