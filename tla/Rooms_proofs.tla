---------------------------- MODULE Rooms_proofs ----------------------------
(***************************************************************************)
(* For every set of connections, rooms and events: a broadcast iterates    *)
(* over the room as it is, nobody who is served is dropped from a room,    *)
(* and a broadcast that is not interrupted takes out the ghosts.           *)
(***************************************************************************)
EXTENDS Rooms, FiniteSetTheorems, TLAPS

\* A room's set is one that a connection to that room has created.
OwnSets == \A r \in Names : rooms[r] # None => RoomOf[rooms[r]] = r

\* Only the set that is a room has anything in it.
OldSetsEmpty == \A s \in Sockets : sets[s] # {} => rooms[RoomOf[s]] = s

\* A broadcast under way began with somebody in the room it is at.
BegunWithSomebody ==
  \A e \in Events : task[e].set # None =>
    /\ task[e].stop \in DOMAIN Route[e]
    /\ RoomOf[task[e].set] = Here(e)
    /\ task[e].initial # {}

RInv == TypeOK /\ OwnSets /\ OldSetsEmpty /\ BegunWithSomebody

USE SocketsAssumption, RoutesAssumption

LEMMA SameSizeIsTheRoom ==
  ASSUME RInv, NEW e \in Events, Iterating(e), SameSize(task[e])
  PROVE  rooms[Here(e)] = task[e].set
<1> DEFINE t == task[e]
<1>1. t \in Task /\ t.set \in Sockets /\ t.initial # {} /\ RoomOf[t.set] = Here(e)
  BY DEF RInv, TypeOK, BegunWithSomebody, Iterating, Task
<1>2. IsFiniteSet(t.initial)
  BY <1>1, FS_Subset DEF Task
<1>3. Cardinality(t.initial) # 0
  BY <1>1, <1>2, FS_EmptySet
<1>4. sets[t.set] # {}
  BY <1>3, FS_EmptySet DEF SameSize
<1> QED BY <1>1, <1>4 DEF RInv, OldSetsEmpty

LEMMA AtStopTask ==
  ASSUME NEW n \in Nat \ {0}
  PROVE  AtStop(n) \in Task /\ AtStop(n).set = None /\ AtStop(n).dead = {}
  BY DEF AtStop, Task

LEMMA RInit == Init => RInv
<1> SUFFICES ASSUME Init PROVE RInv
  OBVIOUS
<1>1. \A e \in Events : task[e] = AtStop(1)
  BY DEF Init
<1>2. AtStop(1) \in Task /\ AtStop(1).set = None /\ AtStop(1).dead = {}
  BY AtStopTask
<1> QED BY <1>1, <1>2 DEF Init, RInv, TypeOK, OwnSets, OldSetsEmpty, BegunWithSomebody

\* What the connections do leaves the tasks alone.
LEMMA ServeRInv ==
  ASSUME RInv, NEW s \in Sockets, Serve(s)
  PROVE  RInv'
<1>0. RoomOf[s] \in Names
  OBVIOUS
<1>1. CASE Enter(s)
  <2> DEFINE set == IF rooms[RoomOf[s]] = None THEN s ELSE rooms[RoomOf[s]]
  <2>1. set \in Sockets /\ RoomOf[set] = RoomOf[s]
    BY <1>0 DEF RInv, TypeOK, OwnSets
  <2>2. /\ rooms' = [rooms EXCEPT ![RoomOf[s]] = set]
        /\ sets' = [sets EXCEPT ![set] = @ \cup {s}]
        /\ endpoint' = [endpoint EXCEPT ![s] = "open"]
        /\ UNCHANGED <<gone, failed, task>>
    BY <1>1 DEF Enter
  <2> HIDE DEF set
  <2>3. TypeOK'
    BY <1>0, <2>1, <2>2 DEF RInv, TypeOK
  <2>4. OwnSets'
    BY <1>0, <2>1, <2>2 DEF RInv, TypeOK, OwnSets
  <2>5. OldSetsEmpty'
    <3>1. \A t \in Sockets : sets[t] # {} /\ RoomOf[t] = RoomOf[s] => t = set
      BY DEF RInv, OldSetsEmpty, set
    <3> QED BY <1>0, <2>1, <2>2, <3>1 DEF RInv, TypeOK, OldSetsEmpty
  <2>6. BegunWithSomebody'
    BY <2>2 DEF RInv, BegunWithSomebody, Here
  <2> QED BY <2>3, <2>4, <2>5, <2>6 DEF RInv
<1>2. CASE Disconnect(s)
  <2>1. Leave(s) /\ endpoint' = [endpoint EXCEPT ![s] = "ended"]
        /\ UNCHANGED <<gone, failed, task>>
    BY <1>2 DEF Disconnect
  <2>2. TypeOK'
    BY <1>0, <2>1 DEF Leave, RInv, TypeOK
  <2>3. OwnSets'
    BY <1>0, <2>1 DEF Leave, RInv, TypeOK, OwnSets
  <2>4. OldSetsEmpty'
    <3>1. \A t \in Sockets : sets'[t] \subseteq sets[t]
      BY <2>1 DEF Leave, RInv, TypeOK
    <3>2. Emptied(s) => \A t \in Sockets : RoomOf[t] = RoomOf[s] => sets'[t] = {}
      BY <2>1 DEF Leave, Emptied, In, RInv, TypeOK, OldSetsEmpty
    <3> QED BY <1>0, <2>1, <3>1, <3>2 DEF Leave, RInv, TypeOK, OldSetsEmpty
  <2>5. BegunWithSomebody'
    BY <2>1 DEF RInv, BegunWithSomebody, Here
  <2> QED BY <2>2, <2>3, <2>4, <2>5 DEF RInv
<1>3. CASE PeerGone(s)
  <2>1. gone' = gone \cup {s} /\ UNCHANGED <<rooms, sets, endpoint, failed, task>>
    BY <1>3 DEF PeerGone
  <2>2. TypeOK'
    BY <2>1 DEF RInv, TypeOK
  <2> QED BY <2>1, <2>2 DEF RInv, OwnSets, OldSetsEmpty, BegunWithSomebody, Here
<1>4. CASE BreakOff(s)
  <2>1. endpoint' = [endpoint EXCEPT ![s] = "ended"] /\ gone' = gone \cup {s}
        /\ UNCHANGED <<rooms, sets, failed, task>>
    BY <1>4 DEF BreakOff
  <2>2. TypeOK'
    BY <2>1 DEF RInv, TypeOK
  <2> QED BY <2>1, <2>2 DEF RInv, OwnSets, OldSetsEmpty, BegunWithSomebody, Here
<1> QED BY <1>1, <1>2, <1>3, <1>4 DEF Serve

\* What a broadcast does to its task.
LEMMA TaskKept ==
  ASSUME RInv, NEW e \in Events, NEW t \in Task,
         task' = [task EXCEPT ![e] = t], UNCHANGED rooms,
         t.dead \subseteq failed', failed \subseteq failed',
         t.set # None => /\ t.stop \in DOMAIN Route[e]
                         /\ RoomOf[t.set] = Route[e][t.stop]
                         /\ t.initial # {}
  PROVE  /\ task' \in [Events -> Task] /\ OwnSets' /\ BegunWithSomebody'
         /\ \A x \in Events : task'[x].dead \subseteq failed'
  BY DEF RInv, TypeOK, OwnSets, BegunWithSomebody, Here

LEMMA StepRInv ==
  ASSUME RInv, NEW e \in Events, Step(e)
  PROVE  RInv'
<1> DEFINE t == task[e]
<1>1. /\ t \in Task /\ t.stop \in Nat \ {0} /\ Len(Route[e]) + 1 \in Nat \ {0}
      /\ t.dead \subseteq failed
  BY DEF RInv, TypeOK, Task
<1>2. t.set # None => /\ t.stop \in DOMAIN Route[e]
                      /\ RoomOf[t.set] = Route[e][t.stop] /\ t.initial # {}
  BY DEF RInv, BegunWithSomebody, Here
<1>3. /\ AtStop(t.stop + 1) \in Task /\ AtStop(t.stop + 1).set = None
      /\ AtStop(t.stop + 1).dead = {}
      /\ Over(e) \in Task /\ Over(e).set = None /\ Over(e).dead = {}
  BY <1>1, AtStopTask DEF Over
<1>4. CASE PassBy(e)
  <2>1. task' = [task EXCEPT ![e] = AtStop(t.stop + 1)] /\ UNCHANGED <<rooms, failed>>
    BY <1>4 DEF PassBy
  <2>2. /\ task' \in [Events -> Task] /\ OwnSets' /\ BegunWithSomebody'
        /\ \A x \in Events : task'[x].dead \subseteq failed'
    BY <1>3, <2>1, TaskKept
  <2> QED BY <1>4, <2>2 DEF PassBy, RInv, TypeOK, OldSetsEmpty
<1>5. CASE Begin(e)
  <2>1. PICK s \in In(Here(e)) :
          task' = [task EXCEPT ![e] = [AtStop(t.stop) EXCEPT
                     !.at = s, !.set = rooms[Here(e)], !.initial = In(Here(e)),
                     !.ghosts = Ended(In(Here(e)))]]
    BY <1>5 DEF Begin
  <2> DEFINE b == [AtStop(t.stop) EXCEPT
                     !.at = s, !.set = rooms[Here(e)], !.initial = In(Here(e)),
                     !.ghosts = Ended(In(Here(e)))]
  <2>2. t.stop \in DOMAIN Route[e] /\ Here(e) \in Names
    BY <1>5 DEF Begin, Waiting, Here
  <2>3. rooms[Here(e)] \in Sockets /\ In(Here(e)) \subseteq Sockets /\ In(Here(e)) # {}
    BY <2>1, <2>2 DEF In, RInv, TypeOK
  <2>4. b.stop = t.stop /\ b.set = rooms[Here(e)] /\ b.initial = In(Here(e))
        /\ b.dead = {}
    BY DEF AtStop
  <2>5. b \in Task
    BY <1>1, <2>3 DEF AtStop, Ended, Task
  <2>6. b.stop \in DOMAIN Route[e] /\ RoomOf[b.set] = Route[e][b.stop] /\ b.initial # {}
    BY <2>2, <2>3, <2>4 DEF RInv, OwnSets, Here
  <2>7. task' = [task EXCEPT ![e] = b] /\ UNCHANGED <<rooms, failed>>
    BY <1>5, <2>1 DEF Begin
  <2> HIDE DEF b
  <2>8. /\ task' \in [Events -> Task] /\ OwnSets' /\ BegunWithSomebody'
        /\ \A x \in Events : task'[x].dead \subseteq failed'
    BY <2>4, <2>5, <2>6, <2>7, TaskKept
  <2> QED BY <1>5, <2>8 DEF Begin, RInv, TypeOK, OldSetsEmpty
<1>6. CASE Sent(e) \/ NotSent(e)
  <2>0. t.at \in Sockets /\ UNCHANGED rooms /\ failed \subseteq failed'
    BY <1>6 DEF Sent, NotSent, RInv, TypeOK
  <2>1. PICK D \in SUBSET Sockets : /\ task' = [task EXCEPT ![e] = Tried(t, D)]
                                    /\ D \subseteq failed'
    <3>1. CASE Sent(e)
      <4> WITNESS {} \in SUBSET Sockets
      <4> QED BY <3>1 DEF Sent
    <3>2. CASE NotSent(e)
      <4>1. {t.at} \in SUBSET Sockets /\ {t.at} \subseteq failed'
        BY <2>0, <3>2 DEF NotSent
      <4>2. task' = [task EXCEPT ![e] = Tried(t, {t.at})]
        BY <3>2 DEF NotSent
      <4> QED BY <4>1, <4>2
    <3> QED BY <1>6, <3>1, <3>2
  <2> DEFINE b == Tried(t, D)
  <2>2. t.tried \cup {t.at} \in SUBSET Sockets /\ t.dead \cup D \in SUBSET Sockets
    BY <1>1, <2>0 DEF Task
  <2>3. b \in Task /\ b.set = t.set /\ b.stop = t.stop /\ b.initial = t.initial
        /\ b.dead = t.dead \cup D
    BY <1>1, <2>2 DEF Tried, Task
  <2>4. task' = [task EXCEPT ![e] = b]
    BY <2>1
  <2> HIDE DEF b
  <2>5. /\ task' \in [Events -> Task] /\ OwnSets' /\ BegunWithSomebody'
        /\ \A x \in Events : task'[x].dead \subseteq failed'
    BY <1>1, <1>2, <2>0, <2>1, <2>3, <2>4, TaskKept
  <2>6. failed' \subseteq gone /\ UNCHANGED <<rooms, sets, endpoint, gone>>
    BY <1>6 DEF Sent, NotSent, RInv, TypeOK
  <2>7. TypeOK'
    BY <2>5, <2>6 DEF RInv, TypeOK
  <2>8. OldSetsEmpty'
    BY <2>6 DEF RInv, OldSetsEmpty
  <2> QED BY <2>5, <2>7, <2>8 DEF RInv
<1>7. CASE GiveUp(e)
  <2>1. /\ task' \in [Events -> Task] /\ OwnSets' /\ BegunWithSomebody'
        /\ \A x \in Events : task'[x].dead \subseteq failed'
    BY <1>3, <1>7, TaskKept DEF GiveUp
  <2>2. UNCHANGED <<rooms, sets, endpoint, gone, failed>>
    BY <1>7 DEF GiveUp
  <2>3. TypeOK'
    BY <2>1, <2>2 DEF RInv, TypeOK
  <2>4. OldSetsEmpty'
    BY <2>2 DEF RInv, OldSetsEmpty
  <2> QED BY <2>1, <2>3, <2>4 DEF RInv
<1>8. CASE GoOn(e)
  <2>1. PICK s \in sets[t.set] \ t.tried :
          task' = [task EXCEPT ![e] = [t EXCEPT
                     !.at = s, !.ghosts = t.ghosts \cup Ended({s})]]
    BY <1>8 DEF GoOn
  <2> DEFINE b == [t EXCEPT !.at = s, !.ghosts = t.ghosts \cup Ended({s})]
  <2>2. s \in Sockets
    BY <1>1, <1>8 DEF GoOn, Iterating, Task, RInv, TypeOK
  <2>3. b \in Task /\ b.set = t.set /\ b.stop = t.stop /\ b.initial = t.initial
        /\ b.dead = t.dead
    BY <1>1, <2>2 DEF Ended, Task
  <2>4. task' = [task EXCEPT ![e] = b]
    BY <2>1
  <2> HIDE DEF b
  <2>5. /\ task' \in [Events -> Task] /\ OwnSets' /\ BegunWithSomebody'
        /\ \A x \in Events : task'[x].dead \subseteq failed'
    BY <1>1, <1>2, <1>8, <2>3, <2>4, TaskKept DEF GoOn
  <2> QED BY <1>8, <2>5 DEF GoOn, RInv, TypeOK, OldSetsEmpty
<1>9. CASE Finish(e)
  <2>1. /\ task' \in [Events -> Task] /\ OwnSets' /\ BegunWithSomebody'
        /\ \A x \in Events : task'[x].dead \subseteq failed'
    BY <1>3, <1>9, TaskKept DEF Finish
  <2>2. sets' \in [Sockets -> SUBSET Sockets]
        /\ \A s \in Sockets : sets'[s] \subseteq sets[s]
    BY <1>9 DEF Finish, RInv, TypeOK
  <2> QED BY <1>9, <2>1, <2>2 DEF Finish, RInv, TypeOK, OldSetsEmpty
<1> QED BY <1>4, <1>5, <1>6, <1>7, <1>8, <1>9 DEF Step

LEMMA RInvKept == RInv /\ [Next]_vars => RInv'
<1> SUFFICES ASSUME RInv, [Next]_vars PROVE RInv'
  OBVIOUS
<1>1. CASE UNCHANGED vars
  BY <1>1 DEF vars, RInv, TypeOK, OwnSets, OldSetsEmpty, BegunWithSomebody, Here
<1> QED BY <1>1, ServeRInv, StepRInv DEF Next

\* Every state is well-typed.
THEOREM RoomsTyped == Spec => []TypeOK
<1>1. RInv => TypeOK
  BY DEF RInv
<1> QED BY <1>1, RInit, RInvKept, PTL DEF Spec

\* The KeyError that broadcast does not guard against never comes.
THEOREM BroadcastsStayInTheRoom == Spec => []IteratesTheRoom
<1>1. RInv => IteratesTheRoom
  BY SameSizeIsTheRoom DEF IteratesTheRoom
<1> QED BY <1>1, RInit, RInvKept, PTL DEF Spec

LEMMA RoomsInvariant == Spec => []RInv
  BY RInit, RInvKept, PTL DEF Spec

LEMMA ServeDropsNobody ==
  ASSUME RInv, NobodyIsDropped, NEW s \in Sockets, Serve(s)
  PROVE  NobodyIsDropped'
<1>0. \A t \in Sockets : RoomOf[t] \in Names
  OBVIOUS
<1> SUFFICES ASSUME NEW t \in Sockets, endpoint'[t] = "open", t \notin gone'
             PROVE  rooms'[RoomOf[t]] # None /\ t \in sets'[rooms'[RoomOf[t]]]
  BY DEF NobodyIsDropped, In
<1>1. endpoint[t] = "open" /\ t \notin gone =>
        rooms[RoomOf[t]] \in Sockets /\ t \in sets[rooms[RoomOf[t]]]
  BY <1>0 DEF NobodyIsDropped, In, RInv, TypeOK
<1>2. CASE Enter(s)
  <2> DEFINE set == IF rooms[RoomOf[s]] = None THEN s ELSE rooms[RoomOf[s]]
  <2>1. /\ rooms' = [rooms EXCEPT ![RoomOf[s]] = set]
        /\ sets' = [sets EXCEPT ![set] = @ \cup {s}]
        /\ endpoint' = [endpoint EXCEPT ![s] = "open"]
        /\ UNCHANGED gone
    BY <1>2 DEF Enter
  <2>2. set \in Sockets
    BY <1>0 DEF RInv, TypeOK
  <2>3. CASE t = s
    BY <1>0, <2>1, <2>2, <2>3 DEF RInv, TypeOK
  <2>4. CASE t # s
    <3>1. rooms[RoomOf[t]] \in Sockets /\ t \in sets[rooms[RoomOf[t]]]
      BY <1>1, <2>1, <2>4 DEF RInv, TypeOK
    <3>2. rooms'[RoomOf[t]] = rooms[RoomOf[t]]
      BY <1>0, <2>1, <3>1 DEF RInv, TypeOK
    <3> QED BY <2>1, <2>2, <3>1, <3>2 DEF RInv, TypeOK
  <2> QED BY <2>3, <2>4
<1>3. CASE Disconnect(s)
  <2>1. Leave(s) /\ endpoint' = [endpoint EXCEPT ![s] = "ended"] /\ UNCHANGED gone
    BY <1>3 DEF Disconnect
  <2>2. t # s /\ rooms[RoomOf[t]] \in Sockets /\ t \in sets[rooms[RoomOf[t]]]
    BY <1>1, <2>1 DEF RInv, TypeOK
  <2>3. RoomOf[t] = RoomOf[s] => ~Emptied(s)
    BY <2>2 DEF Emptied, In
  <2>4. rooms'[RoomOf[t]] = rooms[RoomOf[t]]
    BY <1>0, <2>1, <2>2, <2>3 DEF Leave, RInv, TypeOK
  <2> QED BY <1>0, <2>1, <2>2, <2>4 DEF Leave, RInv, TypeOK
<1>4. CASE PeerGone(s)
  BY <1>0, <1>1, <1>4 DEF PeerGone
<1>5. CASE BreakOff(s)
  BY <1>0, <1>1, <1>5 DEF BreakOff, RInv, TypeOK
<1> QED BY <1>2, <1>3, <1>4, <1>5 DEF Serve

LEMMA StepDropsNobody ==
  ASSUME RInv, NobodyIsDropped, NEW e \in Events, Step(e)
  PROVE  NobodyIsDropped'
<1>1. UNCHANGED <<rooms, endpoint, gone>>
  BY DEF Step, PassBy, Begin, Sent, NotSent, GiveUp, GoOn, Finish
<1>2. \A s \in Sockets : sets[s] \ gone \subseteq sets'[s]
  <2>1. CASE Finish(e)
    <3>1. task[e].dead \subseteq gone
      BY DEF RInv, TypeOK
    <3> QED BY <2>1, <3>1 DEF Finish, RInv, TypeOK
  <2>2. CASE UNCHANGED sets
    BY <2>2
  <2> QED BY <2>1, <2>2 DEF Step, PassBy, Begin, Sent, NotSent, GiveUp, GoOn
<1>3. \A s \in Sockets : RoomOf[s] \in Names
  OBVIOUS
<1> QED BY <1>1, <1>2, <1>3 DEF NobodyIsDropped, In, RInv, TypeOK

\* Rooms that are deleted and made anew, and broadcasts that discard the dead
\* after their awaits, lose nobody who is served and whose connection stands.
THEOREM NobodyIsLost == Spec => []NobodyIsDropped
<1>1. Init => NobodyIsDropped
  BY DEF Init, NobodyIsDropped
<1>2. RInv /\ NobodyIsDropped /\ [Next]_vars => NobodyIsDropped'
  <2> SUFFICES ASSUME RInv, NobodyIsDropped, [Next]_vars PROVE NobodyIsDropped'
    OBVIOUS
  <2>1. CASE UNCHANGED vars
    BY <2>1 DEF vars, NobodyIsDropped, In
  <2> QED BY <2>1, ServeDropsNobody, StepDropsNobody DEF Next
<1> QED BY <1>1, <1>2, RoomsInvariant, PTL DEF Spec
-----------------------------------------------------------------------------
\* A set has connections to one room only.
OwnMembers == \A x \in Sockets : \A s \in sets[x] : RoomOf[s] = RoomOf[x]

\* A broadcast under way has tried the ghosts it met, is trying them or has
\* found them there at its beginning; those it has tried it holds to be dead.
GhostsAreKnown ==
  \A e \in Events : task[e].set # None =>
    /\ task[e].ghosts \subseteq task[e].initial \cup task[e].tried \cup {task[e].at}
    /\ task[e].ghosts \cap task[e].tried \subseteq task[e].dead
    /\ \A s \in task[e].ghosts : RoomOf[s] = Here(e)

GhInv == OwnMembers /\ GhostsAreKnown

LEMMA ServeGhInv ==
  ASSUME RInv, GhInv, NEW s \in Sockets, Serve(s)
  PROVE  GhInv'
<1>1. GhostsAreKnown'
  BY DEF GhInv, GhostsAreKnown, Here, Serve, Enter, PeerGone, Disconnect, BreakOff
<1>2. CASE Enter(s)
  <2> DEFINE set == IF rooms[RoomOf[s]] = None THEN s ELSE rooms[RoomOf[s]]
  <2>1. set \in Sockets /\ RoomOf[set] = RoomOf[s]
    BY DEF RInv, TypeOK, OwnSets
  <2>2. sets' = [sets EXCEPT ![set] = @ \cup {s}]
    BY <1>2 DEF Enter
  <2> HIDE DEF set
  <2> QED BY <1>1, <2>1, <2>2 DEF GhInv, OwnMembers, RInv, TypeOK
<1>3. CASE Disconnect(s)
  <2>1. \A x \in Sockets : sets'[x] \subseteq sets[x]
    BY <1>3 DEF Disconnect, Leave, RInv, TypeOK
  <2> QED BY <1>1, <2>1 DEF GhInv, OwnMembers
<1>4. CASE UNCHANGED sets
  BY <1>1, <1>4 DEF GhInv, OwnMembers
<1> QED BY <1>2, <1>3, <1>4 DEF Serve, PeerGone, BreakOff

\* What a broadcast does to its task.
LEMMA GhostsKept ==
  ASSUME RInv, GhInv, NEW e \in Events, NEW t \in Task,
         task' = [task EXCEPT ![e] = t],
         t.set # None => /\ t.ghosts \subseteq t.initial \cup t.tried \cup {t.at}
                         /\ t.ghosts \cap t.tried \subseteq t.dead
                         /\ \A s \in t.ghosts : RoomOf[s] = Route[e][t.stop]
  PROVE  GhostsAreKnown'
  BY DEF RInv, TypeOK, GhInv, GhostsAreKnown, Here

LEMMA StepGhInv ==
  ASSUME RInv, GhInv, NEW e \in Events, Step(e)
  PROVE  GhInv'
<1> DEFINE t == task[e]
<1>1. t \in Task /\ t.stop \in Nat \ {0} /\ Len(Route[e]) + 1 \in Nat \ {0}
  BY DEF RInv, TypeOK, Task
<1>2. AtStop(t.stop + 1) \in Task /\ AtStop(t.stop + 1).set = None
      /\ Over(e) \in Task /\ Over(e).set = None
  BY <1>1, AtStopTask DEF Over
<1>3. \A x \in Sockets : sets'[x] \subseteq sets[x]
  <2>1. CASE Finish(e)
    BY <2>1 DEF Finish, RInv, TypeOK
  <2>2. CASE UNCHANGED sets
    BY <2>2
  <2> QED BY <2>1, <2>2 DEF Step, PassBy, Begin, Sent, NotSent, GiveUp, GoOn
<1>4. OwnMembers'
  BY <1>3 DEF GhInv, OwnMembers
<1>5. t.set # None =>
        /\ t.ghosts \subseteq t.initial \cup t.tried \cup {t.at}
        /\ t.ghosts \cap t.tried \subseteq t.dead
        /\ \A s \in t.ghosts : RoomOf[s] = Route[e][t.stop]
  BY DEF GhInv, GhostsAreKnown, Here
<1>6. CASE PassBy(e) \/ GiveUp(e) \/ Finish(e)
  <2>1. PICK b \in Task : b.set = None /\ task' = [task EXCEPT ![e] = b]
    BY <1>2, <1>6 DEF PassBy, GiveUp, Finish
  <2>2. GhostsAreKnown'
    BY <2>1, GhostsKept
  <2> QED BY <1>4, <2>2 DEF GhInv
<1>7. CASE Begin(e)
  <2>1. PICK s \in In(Here(e)) :
          task' = [task EXCEPT ![e] = [AtStop(t.stop) EXCEPT
                     !.at = s, !.set = rooms[Here(e)], !.initial = In(Here(e)),
                     !.ghosts = Ended(In(Here(e)))]]
    BY <1>7 DEF Begin
  <2> DEFINE b == [AtStop(t.stop) EXCEPT
                     !.at = s, !.set = rooms[Here(e)], !.initial = In(Here(e)),
                     !.ghosts = Ended(In(Here(e)))]
  <2>2. Here(e) \in Names /\ t.stop \in DOMAIN Route[e]
    BY <1>7 DEF Begin, Waiting, Here
  <2>3. rooms[Here(e)] \in Sockets /\ In(Here(e)) \subseteq Sockets
        /\ \A x \in In(Here(e)) : RoomOf[x] = Here(e)
    BY <2>1, <2>2 DEF In, RInv, TypeOK, OwnSets, GhInv, OwnMembers
  <2>4. /\ b.stop = t.stop /\ b.initial = In(Here(e)) /\ b.tried = {}
        /\ b.ghosts \subseteq In(Here(e))
    BY DEF AtStop, Ended
  <2>5. b \in Task
    BY <1>1, <2>3 DEF AtStop, Ended, Task
  <2>6. task' = [task EXCEPT ![e] = b]
    BY <2>1
  <2>7. /\ b.ghosts \subseteq b.initial \cup b.tried \cup {b.at}
        /\ b.ghosts \cap b.tried \subseteq b.dead
        /\ \A x \in b.ghosts : RoomOf[x] = Route[e][b.stop]
    BY <2>3, <2>4 DEF Here
  <2> HIDE DEF b
  <2>8. GhostsAreKnown'
    BY <2>5, <2>6, <2>7, GhostsKept
  <2> QED BY <1>4, <2>8 DEF GhInv
<1>8. CASE Sent(e) \/ NotSent(e)
  <2>0. t.at \in Sockets
    BY <1>8 DEF Sent, NotSent, RInv, TypeOK
  <2>1. PICK D \in SUBSET Sockets : /\ task' = [task EXCEPT ![e] = Tried(t, D)]
                                    /\ t.at \in t.ghosts => t.at \in D
    <3>1. CASE Sent(e)
      <4>1. task' = [task EXCEPT ![e] = Tried(t, {})] /\ t.at \notin t.ghosts
        BY <3>1 DEF Sent
      <4>2. {} \in SUBSET Sockets
        OBVIOUS
      <4> QED BY <4>1, <4>2
    <3>2. CASE NotSent(e)
      <4>1. task' = [task EXCEPT ![e] = Tried(t, {t.at})]
        BY <3>2 DEF NotSent
      <4>2. {t.at} \in SUBSET Sockets /\ t.at \in {t.at}
        BY <2>0
      <4> QED BY <4>1, <4>2
    <3> QED BY <1>8, <3>1, <3>2
  <2> DEFINE b == Tried(t, D)
  <2>2. t.tried \cup {t.at} \in SUBSET Sockets /\ t.dead \cup D \in SUBSET Sockets
    BY <1>1, <2>0 DEF Task
  <2>3. b \in Task /\ b.set = t.set /\ b.stop = t.stop /\ b.initial = t.initial
        /\ b.dead = t.dead \cup D /\ b.tried = t.tried \cup {t.at} /\ b.ghosts = t.ghosts
    BY <1>1, <2>2 DEF Tried, Task
  <2>4. task' = [task EXCEPT ![e] = b]
    BY <2>1
  <2> HIDE DEF b
  <2>5. b.set # None => /\ b.ghosts \subseteq b.initial \cup b.tried \cup {b.at}
                        /\ b.ghosts \cap b.tried \subseteq b.dead
                        /\ \A s \in b.ghosts : RoomOf[s] = Route[e][b.stop]
    BY <1>5, <2>1, <2>3
  <2>6. GhostsAreKnown'
    BY <2>3, <2>4, <2>5, GhostsKept
  <2> QED BY <1>4, <2>6 DEF GhInv
<1>9. CASE GoOn(e)
  <2>1. PICK s \in sets[t.set] \ t.tried :
          task' = [task EXCEPT ![e] = [t EXCEPT
                     !.at = s, !.ghosts = t.ghosts \cup Ended({s})]]
    BY <1>9 DEF GoOn
  <2> DEFINE b == [t EXCEPT !.at = s, !.ghosts = t.ghosts \cup Ended({s})]
  <2>2. t.set \in Sockets /\ t.at = None /\ s \in Sockets /\ None \notin t.ghosts
    BY <1>1, <1>9 DEF GoOn, Iterating, Task, RInv, TypeOK
  <2>3. b \in Task /\ b.set = t.set /\ b.stop = t.stop /\ b.initial = t.initial
        /\ b.dead = t.dead /\ b.tried = t.tried /\ b.at = s
        /\ b.ghosts \subseteq t.ghosts \cup {s}
    BY <1>1, <2>2 DEF Ended, Task
  <2>4. RoomOf[s] = Route[e][t.stop]
    BY <2>2 DEF RInv, BegunWithSomebody, Here, GhInv, OwnMembers
  <2>5. task' = [task EXCEPT ![e] = b]
    BY <2>1
  <2> HIDE DEF b
  <2>6. /\ b.ghosts \subseteq b.initial \cup b.tried \cup {b.at}
        /\ b.ghosts \cap b.tried \subseteq b.dead
        /\ \A x \in b.ghosts : RoomOf[x] = Route[e][b.stop]
    BY <1>5, <2>1, <2>2, <2>3, <2>4
  <2>7. GhostsAreKnown'
    BY <2>3, <2>5, <2>6, GhostsKept
  <2> QED BY <1>4, <2>7 DEF GhInv
<1> QED BY <1>6, <1>7, <1>8, <1>9 DEF Step

\* A broadcast whose iteration was not interrupted leaves no ghost behind.
LEMMA FinishedWithoutGhosts ==
  ASSUME RInv, GhInv, [Next]_vars, NEW e \in Events,
         task[e].set # None, SameSize(task[e]), task'[e].set = None,
         NEW s \in task[e].ghosts
  PROVE  s \notin In(RoomOf[s])'
<1> DEFINE t == task[e]
<1>1. Finish(e)
  <2>1. ~UNCHANGED task
    OBVIOUS
  <2>2. PICK x \in Events : Step(x)
    BY <2>1 DEF Next, Serve, Enter, PeerGone, Disconnect, BreakOff, vars
  <2>3. x = e
    BY <2>2 DEF Step, PassBy, Begin, Sent, NotSent, GiveUp, GoOn, Finish,
                RInv, TypeOK
  <2>4. ~PassBy(e) /\ ~Begin(e) /\ ~GiveUp(e)
    BY DEF PassBy, Begin, Waiting, GiveUp
  <2>5. t \in Task /\ task \in [Events -> Task]
    BY DEF RInv, TypeOK
  <2>6. \A D : Tried(t, D).set = t.set
    BY <2>5 DEF Tried, Task
  <2>7. ~Sent(e)
    BY <2>5, <2>6 DEF Sent
  <2>8. ~NotSent(e)
    BY <2>5, <2>6 DEF NotSent
  <2>9. ~GoOn(e)
    <3> SUFFICES ASSUME GoOn(e) PROVE FALSE
      OBVIOUS
    <3>1. PICK c \in sets[t.set] \ t.tried :
            task' = [task EXCEPT ![e] = [t EXCEPT
                       !.at = c, !.ghosts = t.ghosts \cup Ended({c})]]
      BY DEF GoOn
    <3>2. task'[e] = [t EXCEPT !.at = c, !.ghosts = t.ghosts \cup Ended({c})]
      BY <2>5, <3>1
    <3>3. task'[e].set = t.set
      BY <2>5, <3>2 DEF Task
    <3> QED BY <3>3
  <2> QED BY <2>2, <2>3, <2>4, <2>7, <2>8, <2>9 DEF Step
<1>2. t.at = None /\ rooms[Here(e)] = t.set /\ t.set \in Sockets /\ s \in Sockets
      /\ t \in Task
  BY <1>1, SameSizeIsTheRoom DEF Finish, Iterating, RInv, TypeOK, Task
<1>3. RoomOf[s] = Here(e) /\ rooms' = rooms
  BY <1>1 DEF GhInv, GhostsAreKnown, Finish
<1>4. sets' = [sets EXCEPT ![t.set] = @ \ t.dead]
  BY <1>1, <1>2 DEF Finish
<1>5. s \in sets[t.set] => s \in t.dead
  BY <1>1, <1>2 DEF Finish, Stayers, GhInv, GhostsAreKnown
<1> QED BY <1>2, <1>3, <1>4, <1>5 DEF In, RInv, TypeOK

\* A broadcast that is not interrupted takes every ghost it meets out of its
\* room: whatever ended the endpoint, and whoever enters and leaves meanwhile.
THEOREM GhostsAreTakenOut == Spec => GhostsGo
<1>1. Init => GhInv
  BY DEF Init, GhInv, OwnMembers, GhostsAreKnown, AtStop
<1>2. RInv /\ GhInv /\ [Next]_vars => GhInv'
  <2> SUFFICES ASSUME RInv, GhInv, [Next]_vars PROVE GhInv'
    OBVIOUS
  <2>1. CASE UNCHANGED vars
    BY <2>1 DEF vars, GhInv, OwnMembers, GhostsAreKnown, Here
  <2> QED BY <2>1, ServeGhInv, StepGhInv DEF Next
<1>3. RInv /\ GhInv /\ [Next]_vars =>
        [\A e \in Events :
           task[e].set # None /\ SameSize(task[e]) /\ task'[e].set = None =>
             \A s \in task[e].ghosts : s \notin In(RoomOf[s])']_vars
  BY FinishedWithoutGhosts
<1> QED BY <1>1, <1>2, <1>3, RoomsInvariant, PTL DEF Spec, GhostsGo
=============================================================================
