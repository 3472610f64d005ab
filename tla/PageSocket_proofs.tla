-------------------------- MODULE PageSocket_proofs --------------------------
(***************************************************************************)
(* What is true of a page's socket for any number of visits, attempts and  *)
(* failures.  How few failures may exhaust the attempts of a page that     *)
(* moves is counted with a tally of what the lines of its visits can still *)
(* cost one another.                                                       *)
(***************************************************************************)
EXTENDS PageSocket, Integers, TLAPS

USE ConstantsAssumption DEF ConstantsAssumption

\* On a page that has never moved nobody closes the socket, and every
\* attempt was paid for with a failure since a socket has opened last.
FirstVisit ==
  /\ now = 0 => attempts = 0
  /\ at = 1 =>
       /\ line[1] # "closing"
       /\ inARow >= attempts
       /\ line[1] = "exhausted" => inARow > MaxAttempts

PInv == TypeOK /\ HoldsItsSocket /\ FirstVisit

LEMMA InvInit == Init => PInv
<1> SUFFICES ASSUME Init PROVE PInv
  OBVIOUS
<1>1. TypeOK
  <2>1. line \in [Visits -> {"none", "closing"} \cup Live \cup Timed \cup Ended]
    BY DEF Init
  <2>2. \A v \in Visits : v > now => line[v] = "none"
    BY DEF Init
  <2>3. /\ now \in 0..MaxVisits /\ at \in {0, now}
        /\ held \in 0..now /\ timer \in 0..now
        /\ attempts \in 0..MaxAttempts
        /\ failures \in 0..MaxFailures /\ inARow \in 0..failures
    BY DEF Init
  <2>4. connected \in BOOLEAN
    BY DEF Init
  <2> QED BY <2>1, <2>2, <2>3, <2>4 DEF TypeOK
<1>2. HoldsItsSocket
  BY DEF Init, HoldsItsSocket
<1>3. FirstVisit
  BY DEF Init, FirstVisit
<1> QED BY <1>1, <1>2, <1>3 DEF PInv

\* The page: what was held is closed, and the ref is cleared.
LEMMA VisitKeeps ==
  ASSUME PInv, Visit
  PROVE  PInv'
<1> USE DEF PInv, Visits
<1>1. now' = now + 1 /\ at' = now + 1 /\ now' \in 0..MaxVisits
  BY DEF Visit, TypeOK
<1>2. line' \in [Visits -> {"none", "closing"} \cup Live \cup Timed \cup Ended]
  BY DEF Visit, TypeOK, AfterCleanup, Timed, Ended
<1>3. \A v \in Visits : v > now' => line'[v] = "none"
  BY <1>1 DEF Visit, TypeOK, AfterCleanup, Timed, Ended, Live
<1>4. held' \in 0..now' /\ timer' \in 0..now' /\ attempts' \in 0..MaxAttempts
  BY <1>1 DEF Visit, TypeOK, Disconnect
<1>5. /\ connected' \in BOOLEAN
      /\ failures' \in 0..MaxFailures /\ inARow' \in 0..failures'
  BY DEF Visit, TypeOK, Disconnect
<1>6. TypeOK'
  BY <1>1, <1>2, <1>3, <1>4, <1>5 DEF TypeOK
<1>7. line'[now + 1] = "starting"
  BY DEF Visit, TypeOK
<1>8. held' # 0 => line'[held'] \in Live
  BY DEF Visit, TypeOK, HoldsItsSocket, Disconnect
<1>9. at' = 1 => line'[1] = "starting" /\ attempts' = 0
  BY <1>1, <1>7 DEF Visit, TypeOK, FirstVisit, Disconnect
<1>10. HoldsItsSocket'
  BY <1>8, <1>9 DEF HoldsItsSocket, Live
<1>11. FirstVisit'
  BY <1>1, <1>6, <1>9 DEF FirstVisit, TypeOK
<1> QED BY <1>6, <1>10, <1>11

LEMMA LeaveKeeps ==
  ASSUME PInv, Leave
  PROVE  PInv'
<1> USE DEF PInv, Visits
<1>1. now' = now /\ at' = 0 /\ held' = 0 /\ attempts' = 0
  BY DEF Leave, Disconnect
<1>2. line' \in [Visits -> {"none", "closing"} \cup Live \cup Timed \cup Ended]
  BY DEF Leave, TypeOK, AfterCleanup, Ended
<1>3. \A v \in Visits : v > now' => line'[v] = "none"
  BY <1>1 DEF Leave, TypeOK, AfterCleanup
<1>4. /\ connected' \in BOOLEAN /\ timer' = timer
      /\ failures' = failures /\ inARow' = inARow
  BY DEF Leave, Disconnect
<1>5. TypeOK'
  BY <1>1, <1>2, <1>3, <1>4 DEF TypeOK
<1>6. HoldsItsSocket'
  BY <1>1 DEF HoldsItsSocket
<1>7. FirstVisit'
  BY <1>1 DEF FirstVisit
<1> QED BY <1>5, <1>6, <1>7

\* A timer: of a page that never moved the ref is null when it goes off,
\* since its line is no socket.
LEMMA ConnectKeeps ==
  ASSUME PInv, NEW v \in Visits, Connect(v)
  PROVE  PInv'
<1> USE DEF PInv, Visits
<1>1. v =< now
  BY DEF Connect, TypeOK, Timed
<1>2. line' \in [Visits -> {"none", "closing"} \cup Live \cup Timed \cup Ended]
  BY DEF Connect, TypeOK, Live
<1>3. \A w \in Visits : w > now' => line'[w] = "none"
  BY <1>1 DEF Connect, TypeOK
<1>4. TypeOK'
  BY <1>1, <1>2, <1>3 DEF Connect, TypeOK
<1>5. held' = v /\ line'[v] = "connecting"
  BY DEF Connect, TypeOK
<1>6. at' = 1 => now = 1 /\ v = 1
  BY <1>1 DEF Connect, TypeOK
<1>7. HoldsItsSocket'
  BY <1>5, <1>6 DEF HoldsItsSocket, Live
<1>8. FirstVisit'
  BY <1>5, <1>6 DEF FirstVisit, Connect
<1> QED BY <1>4, <1>7, <1>8

\* What an event of a socket does to the types: it puts one line, begun
\* before, into another state.
LEMMA SocketTypes ==
  ASSUME PInv, NEW v \in Visits, Socket(v)
  PROVE  /\ TypeOK'
         /\ v =< now /\ now' = now /\ at' = at
         /\ line' = [line EXCEPT ![v] = line'[v]]
<1> USE DEF PInv, Visits
<1>1. v =< now
  BY DEF Socket, Open, Fail, Refuse, Closed, TypeOK, Live
<1>2. now' = now /\ at' = at
  BY DEF Socket, Open, Fail, Refuse, Closed, OnClose
<1>3. \E s \in Live \cup Timed \cup Ended : line' = [line EXCEPT ![v] = s]
  BY DEF Socket, Open, Fail, Refuse, Closed, Retry, Refused, Live, Timed, Ended
<1>4. line' = [line EXCEPT ![v] = line'[v]]
  BY <1>3 DEF TypeOK
<1>5. line' \in [Visits -> {"none", "closing"} \cup Live \cup Timed \cup Ended]
  BY <1>3 DEF TypeOK
<1>6. \A w \in Visits : w > now' => line'[w] = "none"
  BY <1>1, <1>2, <1>4 DEF TypeOK
<1>7. held' \in {0, held} /\ timer' \in {timer, v}
  BY DEF Socket, Open, Fail, Refuse, Closed, Retry, Refused, OnClose
<1>8. attempts' \in 0..MaxAttempts
  BY DEF Socket, Open, Fail, Refuse, Closed, Retry, Refused, OnClose, TypeOK
<1>9. connected' \in BOOLEAN
  BY DEF Socket, Open, Fail, Refuse, Closed, OnClose
<1>10. failures' \in 0..MaxFailures /\ inARow' \in 0..failures'
  BY DEF Socket, Open, Fail, Refuse, Closed, TypeOK
<1>11. TypeOK'
  BY <1>1, <1>2, <1>5, <1>6, <1>7, <1>8, <1>9, <1>10 DEF TypeOK
<1> QED BY <1>1, <1>2, <1>4, <1>11

\* The end of a socket clears the ref, whichever it is, and only a failure
\* ends the socket of a page that never moved without refusing it.
LEMMA SocketKeeps ==
  ASSUME PInv, NEW v \in Visits, Socket(v)
  PROVE  PInv'
<1> USE DEF PInv, Visits
<1> TypeOK' /\ v =< now /\ now' = now /\ at' = at
  BY SocketTypes
<1>1. at = 1 => v = 1
  BY DEF TypeOK
<1>2. CASE Open(v)
  <2>1. held' = held /\ line'[v] = "open" /\ line[v] = "connecting" /\ attempts' = 0
        /\ inARow' = 0 /\ line' = [line EXCEPT ![v] = "open"]
    BY <1>2 DEF Open, TypeOK
  <2>2. HoldsItsSocket'
    BY <1>1, <2>1 DEF HoldsItsSocket, TypeOK, Live
  <2>3. FirstVisit'
    BY <1>1, <2>1 DEF FirstVisit, TypeOK
  <2> QED BY <2>2, <2>3
<1>3. CASE Fail(v) \/ Refuse(v) \/ Closed(v)
  <2>1. held' = 0
    BY <1>3 DEF Fail, Refuse, Closed, OnClose
  <2>2. line'[v] \in {"retrying", "exhausted", "refused"}
    BY <1>3 DEF Fail, Refuse, Closed, Retry, Refused, TypeOK
  <2>3. HoldsItsSocket'
    BY <1>1, <2>1, <2>2 DEF HoldsItsSocket, Live
  <2>4. now = 0 => attempts' = 0
    BY DEF TypeOK
  <2>5. CASE Fail(v)
    <3>1. at = 1 => inARow' = inARow + 1 /\ attempts' =< attempts + 1
      BY <2>5 DEF Fail, Retry, TypeOK
    <3>2. line'[v] = "exhausted" => attempts >= MaxAttempts
      BY <2>5 DEF Fail, Retry, TypeOK
    <3> QED BY <1>1, <2>2, <2>3, <2>4, <3>1, <3>2 DEF FirstVisit, TypeOK
  <2>6. CASE Refuse(v)
    <3>1. line'[v] = "refused" /\ attempts' = attempts /\ inARow' = inARow
      BY <2>6 DEF Refuse, Refused, TypeOK
    <3> QED BY <1>1, <2>3, <2>4, <3>1 DEF FirstVisit
  <2>7. CASE Closed(v)
    BY <1>1, <2>3, <2>4, <2>7 DEF Closed, FirstVisit
  <2> QED BY <1>3, <2>5, <2>6, <2>7
<1> QED BY <1>2, <1>3 DEF Socket

LEMMA Invariant == Spec => []PInv
<1>1. PInv /\ [Next]_vars => PInv'
  <2> SUFFICES ASSUME PInv, [Next]_vars PROVE PInv'
    OBVIOUS
  <2>1. CASE UNCHANGED vars
    BY <2>1 DEF vars, PInv, TypeOK, HoldsItsSocket, FirstVisit
  <2> QED BY <2>1, VisitKeeps, LeaveKeeps, ConnectKeeps, SocketKeeps DEF Next
<1> QED BY <1>1, InvInit, PTL DEF Spec

\* Types: whatever closes, opens and goes off in whatever order.
THEOREM TypesHold == Spec => []TypeOK
<1>1. PInv => TypeOK
  BY DEF PInv
<1> QED BY Invariant, <1>1, PTL

\* The ref of the hook never is a closed socket, and on a page that never
\* moved it is the socket whenever there is one.
THEOREM TheSocketIsHeld == Spec => []HoldsItsSocket
<1>1. PInv => HoldsItsSocket
  BY DEF PInv
<1> QED BY Invariant, <1>1, PTL

\* A page that never moved gives up only after more failures in a row than
\* there are attempts.
THEOREM AttemptsAreUsed == Spec => []GivesUpLate
<1>1. PInv => GivesUpLate
  BY DEF PInv, FirstVisit, GivesUpLate
<1> QED BY Invariant, <1>1, PTL
-----------------------------------------------------------------------------
(* The attempts a page that has moved may lose without a failure.  Without  *)
(* one, an attempt is lost when a closing socket ends, and a socket is      *)
(* closed when a timer of another line goes off.  So the closings that can  *)
(* still come are those under way and one for every two lines that can      *)
(* still meet; the socket in the ref is a line that can be met.  Inductive: *)
(* together with the attempts lost they are few, and only a failure makes   *)
(* them more: by one attempt for each visit at most.                        *)

Count(v, S) == IF v \in Visits /\ line[v] \in S THEN 1 ELSE 0

Closing == Count(1, {"closing"}) + Count(2, {"closing"}) + Count(3, {"closing"})

Timers == Count(1, Timed) + Count(2, Timed) + Count(3, Timed)

\* The pairs among up to four lines.
Meetings(n) == IF n =< 1 THEN 0 ELSE IF n = 2 THEN 1 ELSE IF n = 3 THEN 3 ELSE 6

StillToClose ==
  IF held = 0 THEN Meetings(Closing + Timers) + Closing
  ELSE Meetings(Closing + Timers + 1)

Tally == attempts + StillToClose

FewAttempts ==
  /\ at = 1 => Tally =< failures
  /\ now = 1 /\ at = 0 => Tally =< failures + 1
  /\ at = 2 /\ failures = 0 => Tally =< 2
  /\ at = 2 /\ failures = 1 => Tally =< 4
  /\ now = 2 /\ at = 0 /\ failures = 0 => Tally =< 3
  /\ at = 3 /\ failures = 0 => Tally =< 5

CInv == FewAttempts /\ NeverWithoutFailure

\* One line more meets all the others.
LEMMA OneLineMore ==
  /\ \A m \in 0..3 : Meetings(m) \in Nat /\ Meetings(m + 1) = Meetings(m) + m
  /\ Meetings(4) \in Nat
<1>1. /\ Meetings(0) = 0 /\ Meetings(1) = 0 /\ Meetings(2) = 1
      /\ Meetings(3) = 3 /\ Meetings(4) = 6
  BY DEF Meetings
<1>2. \A m \in 0..3 : m = 0 \/ m = 1 \/ m = 2 \/ m = 3
  OBVIOUS
<1>3. 0 + 1 = 1 /\ 1 + 1 = 2 /\ 2 + 1 = 3 /\ 3 + 1 = 4
  OBVIOUS
<1>4. \A m \in 0..3 : Meetings(m) \in Nat /\ Meetings(m + 1) = Meetings(m) + m
  BY <1>1, <1>2, <1>3
<1> QED BY <1>1, <1>4

\* The lines that are closing or wait for a timer: no more than the visits,
\* and one less when another line has a socket.
LEMMA Lines ==
  ASSUME TypeOK, now =< 3
  PROVE  /\ Closing \in Nat /\ Timers \in Nat
         /\ Closing + Timers =< now
         /\ \A v \in Visits : line[v] \in Live => Closing + Timers + 1 =< now
<1> DEFINE n(v) == Count(v, {"closing"}) + Count(v, Timed)
<1>1. \A v : Count(v, {"closing"}) \in {0, 1} /\ Count(v, Timed) \in {0, 1}
  BY DEF Count
<1>2. \A v : n(v) \in {0, 1}
  BY DEF Count, Timed
<1>3. \A v \in {1, 2, 3} : v > now => n(v) = 0
  BY DEF Count, TypeOK, Timed
<1>4. \A v \in Visits : line[v] \in Live => v =< now /\ n(v) = 0
  <2>1. \A v \in Visits : v \in Nat /\ now \in Nat
    BY DEF Visits, TypeOK
  <2>2. \A v \in Visits : line[v] \in Live => ~(v > now)
    BY DEF TypeOK, Live
  <2>3. \A v : line[v] \in Live => n(v) = 0
    BY DEF Count, Live, Timed
  <2> QED BY <2>1, <2>2, <2>3
<1>5. Closing + Timers = n(1) + n(2) + n(3)
  BY <1>1 DEF Closing, Timers
<1>6. now \in 0..3 /\ Visits \subseteq Nat \ {0}
  BY DEF TypeOK, Visits
<1>7. Closing \in Nat /\ Timers \in Nat
  BY <1>1 DEF Closing, Timers
<1> HIDE DEF n
<1>8. Closing + Timers =< now
  BY <1>2, <1>3, <1>5, <1>6
<1>9. ASSUME NEW v \in Visits, line[v] \in Live
      PROVE  Closing + Timers + 1 =< now
  <2>1. v \in {1, 2, 3}
    BY <1>4, <1>6, <1>9
  <2> QED BY <1>2, <1>3, <1>4, <1>5, <1>6, <1>9, <2>1
<1> QED BY <1>7, <1>8, <1>9

\* What a line's change does to the numbers.
LEMMA LineChanged ==
  ASSUME TypeOK, NEW v \in Visits, v =< 3, NEW s,
         line' = [line EXCEPT ![v] = s]
  PROVE  /\ Closing' = Closing - Count(v, {"closing"})
                         + (IF s = "closing" THEN 1 ELSE 0)
         /\ Timers' = Timers - Count(v, Timed) + (IF s \in Timed THEN 1 ELSE 0)
<1>1. \A w, S : w # v => Count(w, S)' = Count(w, S)
  BY DEF Count, TypeOK
<1>2. \A S : Count(v, S)' = IF s \in S THEN 1 ELSE 0
  BY DEF Count, TypeOK
<1>3. \A w, S : Count(w, S) \in {0, 1}
  BY DEF Count
<1>4. v \in {1, 2, 3}
  BY DEF Visits
<1>5. Closing' = Count(1, {"closing"})' + Count(2, {"closing"})'
                   + Count(3, {"closing"})'
  BY DEF Closing
<1>6. Timers' = Count(1, Timed)' + Count(2, Timed)' + Count(3, Timed)'
  BY DEF Timers, Timed
<1>7. Count(v, {"closing"})' = IF s = "closing" THEN 1 ELSE 0
  BY <1>2
<1>8. Count(v, Timed)' = IF s \in Timed THEN 1 ELSE 0
  BY DEF Count, TypeOK, Timed
<1>9. \A w : w # v => /\ Count(w, {"closing"})' = Count(w, {"closing"})
                      /\ Count(w, Timed)' = Count(w, Timed)
  BY DEF Count, TypeOK, Timed
<1> QED BY <1>3, <1>4, <1>5, <1>6, <1>7, <1>8, <1>9 DEF Closing, Timers

\* When the page moves, at most every line is closing or waits.
LEMMA LinesNext == (TypeOK /\ now =< 3 =>
                      /\ Closing \in Nat /\ Timers \in Nat
                      /\ Closing + Timers =< now)'
<1>1. TypeOK /\ now =< 3 => /\ Closing \in Nat /\ Timers \in Nat
                            /\ Closing + Timers =< now
  BY Lines
<1> QED BY <1>1, PTL

\* A timer goes off: what it closes, it met.
LEMMA ConnectTally ==
  ASSUME PInv, now =< 3, NEW v \in Visits, Connect(v)
  PROVE  Tally' =< Tally
<1> USE DEF PInv
<1>1. /\ line[v] \in Timed /\ held' = v /\ attempts' = attempts
      /\ line' = [w \in Visits |-> IF w = v THEN "connecting"
                                   ELSE IF w = held THEN "closing" ELSE line[w]]
  BY DEF Connect
<1>2. v # 0 /\ v =< now /\ now \in Nat /\ attempts \in Nat /\ v \in Nat
  BY <1>1 DEF TypeOK, Visits, Timed
<1>3. Count(v, {"closing"}) = 0 /\ Count(v, Timed) = 1
  BY <1>1 DEF Count, Timed
<1>4. Closing \in Nat /\ Timers \in Nat /\ Closing + Timers =< 3
  BY Lines, <1>2
<1>5. CASE held = 0
  <2>1. line' = [line EXCEPT ![v] = "connecting"]
    <3>1. \A w \in Visits : w # held
      BY <1>5 DEF Visits
    <3>2. line' = [w \in Visits |-> IF w = v THEN "connecting" ELSE line[w]]
      BY <1>1, <3>1
    <3> QED BY <3>2 DEF TypeOK
  <2>2. Closing' = Closing /\ Timers' = Timers - 1
    <3>1. v =< 3
      BY <1>2
    <3>2. /\ Closing' = Closing - Count(v, {"closing"})
                          + (IF "connecting" = "closing" THEN 1 ELSE 0)
          /\ Timers' = Timers - Count(v, Timed)
                         + (IF "connecting" \in Timed THEN 1 ELSE 0)
      BY <2>1, <3>1, LineChanged
    <3>3. "connecting" # "closing" /\ "connecting" \notin Timed
      BY DEF Timed
    <3> QED BY <1>3, <1>4, <3>2, <3>3
  <2>3. /\ StillToClose = Meetings(Closing + Timers) + Closing
        /\ StillToClose' = Meetings(Closing + Timers)
    BY <1>1, <1>2, <1>4, <1>5, <2>2 DEF StillToClose
  <2> QED BY <1>1, <1>2, <1>4, <2>3, OneLineMore DEF Tally
<1>6. CASE held # 0
  <2>1. /\ held \in {1, 2, 3} /\ held # v /\ v \in {1, 2, 3} /\ held \in Visits
        /\ line[held] \in Live
    BY <1>1, <1>2, <1>6 DEF TypeOK, Visits, HoldsItsSocket, Live, Timed
  <2>2. Count(held, {"closing"}) = 0 /\ Count(held, Timed) = 0
    BY <2>1 DEF Count, Live, Timed
  <2>3. /\ Count(v, {"closing"})' = 0 /\ Count(v, Timed)' = 0
    BY <1>1 DEF Count, Timed
  <2>4. \A w : w = held => Count(w, {"closing"})' = 1 /\ Count(w, Timed)' = 0
    BY <1>1, <2>1 DEF Count, Timed
  <2>5. \A w : w # v /\ w # held => /\ Count(w, {"closing"})' = Count(w, {"closing"})
                                    /\ Count(w, Timed)' = Count(w, Timed)
    BY <1>1 DEF Count, Timed
  <2>6. \A w, S : Count(w, S) \in {0, 1}
    BY DEF Count
  <2>7. /\ Closing' = Count(1, {"closing"})' + Count(2, {"closing"})'
                        + Count(3, {"closing"})'
        /\ Timers' = Count(1, Timed)' + Count(2, Timed)' + Count(3, Timed)'
    BY DEF Closing, Timers, Timed
  <2>8. Closing' = Closing + 1 /\ Timers' = Timers - 1
    BY <1>3, <2>1, <2>2, <2>3, <2>4, <2>5, <2>6, <2>7 DEF Closing, Timers
  <2>9. Closing' + Timers' + 1 = Closing + Timers + 1
    BY <1>4, <2>8
  <2>10. StillToClose' = StillToClose
    BY <1>1, <1>2, <1>6, <2>9 DEF StillToClose
  <2>11. StillToClose \in Int
    BY <1>4, <1>6, OneLineMore DEF StillToClose
  <2> QED BY <1>1, <1>2, <2>10, <2>11 DEF Tally
<1> QED BY <1>5, <1>6

\* The solver does not chain inequalities of sums by itself.
LEMMA AtMost == \A x, y, z \in Int : x =< y /\ y =< z => x =< z
OBVIOUS

\* An event of a socket loses no more than it settles, unless it is a
\* failure, which costs an attempt for each visit at most.
LEMMA SocketTally ==
  ASSUME PInv, now =< 3, NEW v \in Visits, Socket(v)
  PROVE  Tally' =< Tally + (IF Fail(v) THEN now ELSE 0)
<1> USE DEF PInv
<1> DEFINE cost == IF Fail(v) THEN now ELSE 0
<1>0. /\ cost \in Nat /\ (Fail(v) => cost = now)
      /\ attempts \in Nat /\ now \in Nat
  BY DEF TypeOK
<1> HIDE DEF cost
<1>1. /\ v =< now /\ line' = [line EXCEPT ![v] = line'[v]]
      /\ now \in Nat /\ attempts \in Nat /\ v \in Nat
  BY SocketTypes DEF TypeOK, Visits
<1> DEFINE s == line'[v]
           c == Closing
           m == Closing + Timers
<1>2. c \in Nat /\ m \in Nat /\ c =< m /\ m =< now /\ m =< 3
  BY Lines, <1>1
<1>3. /\ Closing' = Closing - Count(v, {"closing"})
                      + (IF s = "closing" THEN 1 ELSE 0)
      /\ Timers' = Timers - Count(v, Timed) + (IF s \in Timed THEN 1 ELSE 0)
  BY <1>1, LineChanged
<1>4. StillToClose = IF held = 0 THEN Meetings(m) + c ELSE Meetings(m + 1)
  BY DEF StillToClose
<1>5. Meetings(m) \in Nat /\ Meetings(m + 1) = Meetings(m) + m
  BY <1>2, OneLineMore
<1>6. StillToClose' = IF held' = 0 THEN Meetings(Closing' + Timers') + Closing'
                      ELSE Meetings(Closing' + Timers' + 1)
  BY DEF StillToClose
<1>7. Closing \in Nat /\ Timers \in Nat
  BY Lines, <1>1
<1>8. ASSUME Open(v)
      PROVE  Tally' =< Tally + cost
  <2>1. /\ line[v] = "connecting" /\ s = "open" /\ attempts' = 0 /\ held' = held
    BY <1>8 DEF Open, TypeOK
  <2>2. Count(v, {"closing"}) = 0 /\ Count(v, Timed) = 0
    BY <2>1 DEF Count, Timed
  <2>3. Closing' = Closing /\ Timers' = Timers
    BY <1>3, <1>7, <2>1, <2>2 DEF Timed
  <2>4. StillToClose' = StillToClose
    BY <2>1, <2>3 DEF StillToClose
  <2> HIDE DEF c, m
  <2>5. StillToClose \in Nat
    BY <1>2, <1>4, <1>5
  <2> QED BY <1>0, <1>1, <2>1, <2>4, <2>5 DEF Tally
<1>9. ASSUME Refuse(v)
      PROVE  Tally' =< Tally + cost
  <2>1. line[v] = "open" /\ s = "refused" /\ attempts' = attempts /\ held' = 0
    BY <1>9 DEF Refuse, Refused, OnClose, TypeOK
  <2>2. Count(v, {"closing"}) = 0 /\ Count(v, Timed) = 0
    BY <2>1 DEF Count, Timed
  <2>3. Closing' = Closing /\ Timers' = Timers
    BY <1>3, <1>7, <2>1, <2>2 DEF Timed
  <2>4. StillToClose' = Meetings(m) + c
    BY <1>6, <2>1, <2>3
  <2> HIDE DEF c, m
  <2>5. StillToClose' \in Nat /\ StillToClose' =< StillToClose
    BY <1>2, <1>4, <1>5, <2>4
  <2>6. StillToClose \in Nat
    BY <1>2, <1>4, <1>5
  <2>7. attempts' + StillToClose' =< attempts + StillToClose + cost
    <3>1. \A w, x, y, z \in Nat : x =< y => w + x =< w + y + z
      OBVIOUS
    <3>2. attempts \in Nat /\ cost \in Nat /\ attempts' = attempts
      BY <1>0, <2>1
    <3> QED BY ONLY <3>1, <3>2, <2>5, <2>6
  <2> QED BY <2>7 DEF Tally
<1>10. ASSUME Closed(v)
      PROVE  Tally' =< Tally + cost
  <2>1. /\ line[v] = "closing" /\ held' = 0
        /\ \/ s = "retrying" /\ attempts' = attempts + 1
           \/ s \in {"exhausted", "refused"} /\ attempts' = attempts
    BY <1>10 DEF Closed, Retry, Refused, OnClose, TypeOK
  <2>2. Count(v, {"closing"}) = 1 /\ Count(v, Timed) = 0
    BY <2>1 DEF Count, Timed
  <2>3. /\ Closing' = c - 1
        /\ \/ Closing' + Timers' = m /\ attempts' = attempts + 1
           \/ Closing' + Timers' = m - 1 /\ attempts' = attempts
    BY <1>3, <1>7, <2>1, <2>2 DEF Timed
  <2>4. StillToClose' = Meetings(Closing' + Timers') + Closing'
    BY <1>6, <2>1
  <2>5. c >= 1
    BY <1>1, <1>7, <2>3, SocketTypes, LinesNext DEF PInv
  <2> HIDE DEF c, m, s
  <2>6. Meetings(m - 1) \in Nat /\ Meetings(m - 1) =< Meetings(m)
    <3>1. m - 1 \in 0..3 /\ (m - 1) + 1 = m
      BY <1>2, <2>5
    <3> QED BY <3>1, OneLineMore
  <2> DEFINE settled == Meetings(m) + c
  <2>7. attempts' + StillToClose' =< attempts + settled
    BY <1>1, <1>2, <1>5, <2>3, <2>4, <2>6
  <2>8. settled \in Int /\ settled =< StillToClose
    BY <1>1, <1>2, <1>4, <1>5
  <2>9. /\ attempts' \in Int /\ StillToClose' \in Int /\ StillToClose \in Int
    BY <1>1, <1>2, <1>4, <1>5, <2>3, <2>4, <2>6
  <2>10. attempts' + StillToClose' =< attempts + StillToClose + cost
    <3> HIDE DEF settled
    <3>1. settled =< StillToClose + cost
      BY <1>0, <2>8, <2>9
    <3>2. attempts + settled =< attempts + StillToClose + cost
      BY <1>0, <2>8, <2>9, <3>1
    <3>3. attempts' + StillToClose' \in Int
      BY <2>9
    <3>4. attempts + settled \in Int
      BY <1>0, <2>8
    <3>5. attempts + StillToClose + cost \in Int
      BY <1>0, <2>9
    <3> QED BY ONLY <2>7, <3>2, <3>3, <3>4, <3>5, AtMost
  <2> QED BY <2>10 DEF Tally
<1>11. ASSUME Fail(v)
      PROVE  Tally' =< Tally + cost
  <2>1. /\ line[v] \in Live /\ held' = 0
        /\ \/ s = "retrying" /\ attempts' = attempts + 1
           \/ s = "exhausted" /\ attempts' = attempts
    BY <1>11 DEF Fail, Retry, OnClose, TypeOK
  <2>2. Count(v, {"closing"}) = 0 /\ Count(v, Timed) = 0
    BY <2>1 DEF Count, Timed, Live
  <2>3. /\ Closing' = c
        /\ \/ Closing' + Timers' = m + 1 /\ attempts' = attempts + 1
           \/ Closing' + Timers' = m /\ attempts' = attempts
    BY <1>3, <1>7, <2>1, <2>2 DEF Timed
  <2>4. StillToClose' = Meetings(Closing' + Timers') + c
    BY <1>6, <2>1, <2>3
  <2>5. m + 1 =< now
    BY <1>1, <2>1, Lines
  <2> HIDE DEF c, m, s
  <2> DEFINE most == 1 + Meetings(m) + m + c
  <2>6. attempts' + StillToClose' =< attempts + most
    BY <1>1, <1>2, <1>5, <2>3, <2>4
  <2>7. most \in Int /\ most =< StillToClose + now
    BY <1>1, <1>2, <1>4, <1>5, <2>5
  <2>8. attempts' \in Int /\ StillToClose' \in Int /\ StillToClose \in Int
    BY <1>1, <1>2, <1>4, <1>5, <2>3, <2>4
  <2>9. attempts' + StillToClose' =< attempts + StillToClose + cost
    <3> HIDE DEF most
    <3>1. most =< StillToClose + cost
      BY <1>0, <1>11, <2>7
    <3>2. attempts + most =< attempts + StillToClose + cost
      BY <1>0, <2>7, <2>8, <3>1
    <3>3. attempts' + StillToClose' \in Int
      BY <2>8
    <3>4. attempts + most \in Int
      BY <1>0, <2>7
    <3>5. attempts + StillToClose + cost \in Int
      BY <1>0, <2>8
    <3> QED BY ONLY <2>6, <3>2, <3>3, <3>4, <3>5, AtMost
  <2> QED BY <2>9 DEF Tally
<1>12. Tally' =< Tally + cost
  BY <1>8, <1>9, <1>10, <1>11 DEF Socket
<1> QED BY <1>12 DEF cost

\* The page moves on: a clean-up forgets the attempts that were lost, and a
\* line that begins can meet those there are.
LEMMA VisitTally ==
  ASSUME PInv, FewAttempts, Visit
  PROVE  FewAttempts'
<1> USE DEF PInv
<1>1. /\ now \in Nat /\ now' = now + 1 /\ at' = now + 1 /\ now' \in 0..MaxVisits
      /\ failures \in Nat /\ failures' = failures /\ attempts \in Nat
  BY DEF Visit, TypeOK, Disconnect
<1>2. now + 1 \in Visits /\ line'[now + 1] = "starting"
  BY <1>1 DEF Visit, TypeOK, Visits
<1>3. TypeOK'
  BY VisitKeeps
<1> DEFINE c == Closing'
           m == Closing' + Timers'
<1>4. now' =< 3 => c \in Nat /\ Timers' \in Nat /\ m \in Nat /\ m =< now'
  BY <1>3, LinesNext
<1>5. StillToClose' = IF held' = 0 THEN Meetings(m) + c ELSE Meetings(m + 1)
  BY DEF StillToClose
<1>6. /\ Meetings(0) = 0 /\ Meetings(1) = 0 /\ Meetings(2) = 1
      /\ Meetings(3) = 3 /\ Meetings(4) = 6
  BY DEF Meetings
<1>7. CASE at # 0
  <2>1. attempts' = 0 /\ held' = 0
    BY <1>7 DEF Visit, Disconnect
  <2>2. now \in Nat \ {0}
    BY <1>1, <1>7 DEF TypeOK
  <2>3. ASSUME now' =< 3 PROVE c =< now
    <3> PICK k \in Visits : k = now + 1
      BY <1>2
    <3>1. Count(k, Timed)' = 1
      BY <1>2 DEF Count, Timed
    <3>2. k \in {1, 2, 3}
      BY <1>1, <2>3
    <3>3. Timers' = Count(1, Timed)' + Count(2, Timed)' + Count(3, Timed)'
      BY DEF Timers, Timed
    <3>4. \A w : Count(w, Timed)' \in {0, 1}
      BY DEF Count
    <3>5. Timers' >= 1
      BY <3>1, <3>2, <3>3, <3>4
    <3> QED BY <1>1, <1>4, <2>3, <3>5
  <2> HIDE DEF c, m
  <2>4. now' = 2 => StillToClose' =< 2 /\ StillToClose' \in Nat
    <3>1. now' = 2 => c \in {0, 1} /\ m \in {0, 1, 2}
      BY <1>1, <1>4, <2>3
    <3> QED BY <1>5, <1>6, <2>1, <3>1
  <2>5. now' = 3 => StillToClose' =< 5 /\ StillToClose' \in Nat
    <3>1. now' = 3 => c \in {0, 1, 2} /\ m \in {0, 1, 2, 3}
      BY <1>1, <1>4, <2>3
    <3> QED BY <1>5, <1>6, <2>1, <3>1
  <2>6. Tally' = 0 + StillToClose'
    BY <2>1 DEF Tally
  <2> QED BY <1>1, <2>2, <2>4, <2>5, <2>6 DEF FewAttempts
<1>8. CASE at = 0
  <2>1. /\ line' = [line EXCEPT ![now + 1] = "starting"]
        /\ held' = held /\ attempts' = attempts
    BY <1>8 DEF Visit
  <2>2. line[now + 1] = "none"
    BY <1>1, <1>2 DEF TypeOK
  <2>3. ASSUME now' =< 3
        PROVE  /\ Closing' = Closing /\ Timers' = Timers + 1
               /\ Closing \in Nat /\ Timers \in Nat /\ Closing + Timers =< now
               /\ held # 0 => Closing + Timers + 1 =< now
    <3>1. Count(now + 1, {"closing"}) = 0 /\ Count(now + 1, Timed) = 0
      BY <2>2 DEF Count, Timed
    <3>2. /\ Closing' = Closing - Count(now + 1, {"closing"})
                          + (IF "starting" = "closing" THEN 1 ELSE 0)
          /\ Timers' = Timers - Count(now + 1, Timed)
                         + (IF "starting" \in Timed THEN 1 ELSE 0)
      BY <1>1, <1>2, <2>1, <2>3, LineChanged
    <3>3. "starting" # "closing" /\ "starting" \in Timed
      BY DEF Timed
    <3>4. Closing \in Nat /\ Timers \in Nat /\ Closing + Timers =< now
      BY <1>1, <2>3, Lines
    <3>5. ASSUME held # 0 PROVE Closing + Timers + 1 =< now
      <4>1. held \in Visits /\ line[held] \in Live
        BY <1>1, <3>5 DEF TypeOK, HoldsItsSocket, Visits
      <4> QED BY <1>1, <2>3, <4>1, Lines
    <3> QED BY <3>1, <3>2, <3>3, <3>4, <3>5
  <2>4. StillToClose = IF held = 0 THEN Meetings(Closing + Timers) + Closing
                       ELSE Meetings(Closing + Timers + 1)
    BY DEF StillToClose
  <2>5. ASSUME now' =< 3
        PROVE  /\ StillToClose \in Nat /\ StillToClose' \in Nat
               /\ StillToClose' =< StillToClose + now
    <3> DEFINE n == Closing + Timers
    <3>1. n \in 0..2 /\ n =< now /\ m = n + 1 /\ c = Closing /\ Closing \in Nat
      BY <1>1, <2>3, <2>5
    <3>2. held # 0 => n + 1 =< now
      BY <2>3, <2>5
    <3> HIDE DEF n, m, c
    <3>3. /\ StillToClose = IF held = 0 THEN Meetings(n) + c ELSE Meetings(n + 1)
          /\ StillToClose' = IF held = 0 THEN Meetings(n + 1) + c
                             ELSE Meetings(n + 1 + 1)
      BY <1>5, <2>1, <2>4, <3>1 DEF n
    <3>4. n = 0 \/ n = 1 \/ n = 2
      BY <3>1
    <3> QED BY <1>1, <1>6, <3>1, <3>2, <3>3, <3>4
  <2>6. Tally = attempts + StillToClose /\ Tally' = attempts + StillToClose'
    BY <2>1 DEF Tally
  <2>7. now = 0 => Tally' = 0
    <3>1. ASSUME now = 0 PROVE StillToClose' = 0 /\ attempts = 0
      <4>1. held = 0 /\ attempts = 0
        BY <3>1 DEF TypeOK, FirstVisit
      <4>2. Closing' = 0 /\ Timers' = 1
        BY <1>1, <2>3, <3>1
      <4> QED BY <1>5, <1>6, <2>1, <4>1, <4>2
    <3> QED BY <2>6, <3>1
  <2>8. now' =< 3 => Tally' =< Tally + now /\ Tally \in Int /\ Tally' \in Int
    BY <1>1, <2>5, <2>6
  <2> QED BY <1>1, <1>8, <2>7, <2>8 DEF FewAttempts
<1> QED BY <1>7, <1>8

LEMMA LeaveTally ==
  ASSUME PInv, Leave
  PROVE  FewAttempts'
<1> USE DEF PInv
<1>1. /\ now \in Nat /\ now' = now /\ at' = 0 /\ held' = 0 /\ attempts' = 0
      /\ failures \in Nat /\ failures' = failures
  BY DEF Leave, TypeOK, Disconnect
<1>2. TypeOK'
  BY LeaveKeeps
<1> DEFINE c == Closing'
           m == Closing' + Timers'
<1>3. now =< 3 => c \in Nat /\ Timers' \in Nat /\ m =< now
  BY <1>1, <1>2, LinesNext
<1>4. StillToClose' = Meetings(m) + c
  BY <1>1 DEF StillToClose
<1>5. Meetings(0) = 0 /\ Meetings(1) = 0 /\ Meetings(2) = 1
  BY DEF Meetings
<1>6. /\ now = 1 => c \in {0, 1} /\ m \in {0, 1}
      /\ now = 2 => c \in {0, 1, 2} /\ m \in {0, 1, 2}
  BY <1>3
<1>7. Tally' = 0 + StillToClose'
  BY <1>1 DEF Tally
<1> HIDE DEF c, m
<1>8. /\ now = 1 => Tally' =< 1 /\ Tally' \in Nat
      /\ now = 2 => Tally' =< 3 /\ Tally' \in Nat
  BY <1>4, <1>5, <1>6, <1>7
<1> QED BY <1>1, <1>8 DEF FewAttempts

\* What the lines add up to is a number, and still is after a step.
LEMMA TallyType ==
  ASSUME TypeOK, now =< 3
  PROVE  Tally \in Nat
<1>1. now \in 0..3 /\ attempts \in Nat
  BY DEF TypeOK
<1>2. /\ Closing \in Nat /\ Timers \in Nat /\ Closing + Timers \in 0..3
  BY <1>1, Lines
<1>3. StillToClose \in Nat
  BY <1>2, OneLineMore DEF StillToClose
<1> QED BY <1>1, <1>3 DEF Tally

LEMMA NextTallyType == (TypeOK /\ now =< 3 => Tally \in Nat)'
<1>1. TypeOK /\ now =< 3 => Tally \in Nat
  BY TallyType
<1> QED BY <1>1, PTL

\* What gives up has no attempt left: too few are lost without a failure.
LEMMA GivingUpCosts ==
  ASSUME MaxAttempts >= 5, PInv, PInv', CInv, NEW v \in Visits, Socket(v)
  PROVE  NeverWithoutFailure'
<1> USE DEF PInv
<1>1. /\ now' = now /\ at' = at /\ v =< now
      /\ line' = [line EXCEPT ![v] = line'[v]]
      /\ now \in Nat /\ failures \in Nat /\ failures' \in Nat /\ attempts \in Nat
      /\ at \in {0, now}
  BY SocketTypes DEF TypeOK
<1> SUFFICES ASSUME at # 0, at =< 3, line'[at] = "exhausted"
             PROVE  (at =< 2 => failures' > 1) /\ failures' > 0
  BY <1>1 DEF NeverWithoutFailure
<1>2. failures' = failures \/ failures' = failures + 1
  BY DEF Socket, Open, Fail, Refuse, Closed
<1>3. CASE v # at
  <2>1. line'[at] = line[at]
    BY <1>1, <1>3 DEF TypeOK, Visits
  <2>2. (at =< 2 => failures > 1) /\ failures > 0
    BY <1>1, <2>1 DEF CInv, NeverWithoutFailure
  <2> QED BY <1>1, <1>2, <2>2
<1>4. CASE v = at /\ at = 1
  <2>1. inARow' > MaxAttempts /\ inARow' \in 0..failures'
    BY <1>1, <1>4 DEF FirstVisit, TypeOK
  <2> QED BY <1>1, <1>4, <2>1
<1>5. CASE v = at /\ at \in {2, 3}
  <2>1. at = now /\ now =< 3
    BY <1>1, <1>5
  <2>2. /\ Closing \in Nat /\ Timers \in Nat /\ Closing + Timers =< 3
        /\ Closing + Timers \in 0..3
    BY <1>1, <2>1, Lines
  <2>3. StillToClose \in Nat
    BY <2>2, OneLineMore DEF StillToClose
  <2>4. CASE Fail(v)
    <3>1. attempts >= MaxAttempts /\ failures' = failures + 1
      BY <1>5, <2>4 DEF Fail, Retry, TypeOK
    <3>2. Tally >= 5 /\ Tally \in Nat
      BY <1>1, <2>3, <3>1 DEF Tally
    <3> QED BY <1>1, <1>5, <3>1, <3>2 DEF CInv, FewAttempts
  <2>5. CASE Closed(v)
    <3>1. attempts >= MaxAttempts /\ failures' = failures /\ line[v] = "closing"
      BY <1>5, <2>5 DEF Closed, Retry, Refused, TypeOK
    <3>2. Closing >= 1
      <4>1. Count(v, {"closing"}) = 1 /\ v \in {1, 2, 3}
        BY <1>5, <3>1 DEF Count
      <4>2. \A w, S : Count(w, S) \in {0, 1}
        BY DEF Count
      <4> QED BY <4>1, <4>2 DEF Closing
    <3>3. StillToClose >= 1
      <4>1. Closing + Timers \in {1, 2, 3}
        BY <2>2, <3>2
      <4>2. /\ Meetings(1) = 0 /\ Meetings(2) = 1
            /\ Meetings(3) = 3 /\ Meetings(4) = 6
        BY DEF Meetings
      <4> QED BY <2>2, <3>2, <4>1, <4>2 DEF StillToClose
    <3>4. Tally >= 6 /\ Tally \in Nat
      BY <1>1, <2>3, <3>1, <3>3 DEF Tally
    <3> QED BY <1>1, <1>5, <3>1, <3>4 DEF CInv, FewAttempts
  <2>6. CASE Open(v) \/ Refuse(v)
    BY <1>5, <2>6 DEF Open, Refuse, Refused, TypeOK
  <2> QED BY <2>4, <2>5, <2>6 DEF Socket
<1> QED BY <1>1, <1>3, <1>4, <1>5

LEMMA StepCInv ==
  ASSUME MaxAttempts >= 5, PInv, PInv', CInv, [Next]_vars
  PROVE  CInv'
<1> USE DEF PInv
<1>1. now \in Nat /\ at \in {0, now} /\ failures \in Nat /\ failures' \in Nat
  BY DEF TypeOK
<1>2. CASE UNCHANGED vars
  BY <1>2
  DEF vars, CInv, FewAttempts, NeverWithoutFailure, Tally, StillToClose,
      Closing, Timers, Count
<1>3. CASE Visit
  <2>1. FewAttempts'
    BY <1>3, VisitTally DEF CInv
  <2>2. at' \in Visits /\ line'[at'] = "starting"
    BY <1>3 DEF Visit, TypeOK, Visits
  <2> QED BY <2>1, <2>2 DEF CInv, NeverWithoutFailure
<1>4. CASE Leave
  <2>1. at' = 0
    BY <1>4 DEF Leave
  <2> QED BY <1>4, <2>1, LeaveTally DEF CInv, NeverWithoutFailure
<1>5. ASSUME NEW v \in Visits, Connect(v)
      PROVE  CInv'
  <2>1. now' = now /\ at' = at /\ failures' = failures
    BY <1>5 DEF Connect
  <2>2. now =< 3 => Tally' =< Tally
    BY <1>5, ConnectTally
  <2>3. now =< 3 => Tally \in Nat /\ Tally' \in Nat
    BY <1>1, <2>1, TallyType, NextTallyType
  <2>4. FewAttempts'
    BY <1>1, <2>1, <2>2, <2>3 DEF CInv, FewAttempts
  <2>5. at # 0 /\ line'[at] = "exhausted" => line[at] = "exhausted"
    BY <1>1, <1>5 DEF Connect, TypeOK, Visits
  <2> QED BY <2>1, <2>4, <2>5 DEF CInv, NeverWithoutFailure
<1>6. ASSUME NEW v \in Visits, Socket(v)
      PROVE  CInv'
  <2>1. now' = now /\ at' = at
    BY <1>6, SocketTypes
  <2>2. failures' = IF Fail(v) THEN failures + 1 ELSE failures
    BY <1>6 DEF Socket, Open, Fail, Refuse, Closed, Live
  <2>3. now =< 3 => Tally' =< Tally + (IF Fail(v) THEN now ELSE 0)
    BY <1>6, SocketTally
  <2>4. now =< 3 => Tally \in Nat /\ Tally' \in Nat
    BY <1>1, <2>1, TallyType, NextTallyType
  <2>5. FewAttempts'
    <3>1. CASE Fail(v)
      BY <1>1, <2>1, <2>2, <2>3, <2>4, <3>1 DEF CInv, FewAttempts
    <3>2. CASE ~Fail(v)
      BY <1>1, <2>1, <2>2, <2>3, <2>4, <3>2 DEF CInv, FewAttempts
    <3> QED BY <3>1, <3>2
  <2> QED BY <1>6, <2>5, GivingUpCosts DEF CInv
<1> QED BY <1>2, <1>3, <1>4, <1>5, <1>6 DEF Next

\* With the hook's five attempts or more, a page that has moved once gives up
\* after more than one failure only, and one that has moved twice after one:
\* its lines cannot use up the attempts by closing one another.
THEOREM SomethingFailed ==
  ASSUME MaxAttempts >= 5
  PROVE  Spec => []NeverWithoutFailure
<1>1. Init => CInv
  BY DEF Init, CInv, FewAttempts, NeverWithoutFailure
<1>2. CInv => NeverWithoutFailure
  BY DEF CInv
<1>3. PInv /\ PInv' /\ CInv /\ [Next]_vars => CInv'
  BY StepCInv
<1> QED BY <1>1, <1>2, <1>3, Invariant, PTL DEF Spec
=============================================================================
