-------------------------------- MODULE Rooms --------------------------------
(***************************************************************************)
(* The rooms of backend/app/api/websocket_manager.py: the connections of a *)
(* run's page or a group's page, the endpoints that serve them and the     *)
(* background tasks that broadcast an event of the event bus to one room   *)
(* or to several, one after the other.                                     *)
(*                                                                         *)
(* Grain.  Endpoints and tasks share one event loop and give way only at   *)
(* an await: while a message is being sent, everything else may happen.    *)
(* A broadcast iterates over the very set that connections enter and       *)
(* leave.  Python ends such an iteration with an error when the set has    *)
(* another size than at its beginning, and otherwise visits all who stay;  *)
(* whoever came meanwhile is visited or not.  (A set that is rebuilt while *)
(* it is iterated, which takes five entries, is not modelled.)             *)
(***************************************************************************)
EXTENDS Naturals, Sequences, FiniteSets

CONSTANTS
  Sockets,  \* the connections, each of which is made once
  Names,    \* the rooms: a run's, a group's
  RoomOf,   \* the room a connection asks for
  Events,
  Route,    \* the rooms an event is broadcast to, in their order
  None

ASSUME SocketsAssumption == IsFiniteSet(Sockets) /\ None \notin Sockets
ASSUME RoutesAssumption == /\ RoomOf \in [Sockets -> Names]
                           /\ Route \in [Events -> Seq(Names)]

VARIABLES
  rooms,     \* active_connections: None, or the set of a room
  sets,      \* what is in a set; a set is named after who created it
  endpoint,  \* the endpoint of a connection: "new", "open" or "ended"
  gone,      \* the connections that are closed at the other end or by the server
  failed,    \* those to which a send has failed
  task       \* the broadcast of each event

vars == <<rooms, sets, endpoint, gone, failed, task>>

\* A task at a stop of its route: the connection it is sending to, the set
\* it iterates over, what was in it at first, whom it has tried, who is dead;
\* and the ghosts it meets: those in the room whose endpoint had ended when it
\* began or when their turn came.
Task == [stop : Nat \ {0}, at : Sockets \cup {None}, set : Sockets \cup {None},
         initial : SUBSET Sockets, tried : SUBSET Sockets, dead : SUBSET Sockets,
         ghosts : SUBSET Sockets]

TypeOK ==
  /\ rooms \in [Names -> Sockets \cup {None}]
  /\ sets \in [Sockets -> SUBSET Sockets]
  /\ endpoint \in [Sockets -> {"new", "open", "ended"}]
  /\ gone \subseteq Sockets
  /\ failed \subseteq gone
  /\ task \in [Events -> Task]
  /\ \A e \in Events : task[e].dead \subseteq failed

\* Between two broadcasts.
AtStop(n) == [stop |-> n, at |-> None, set |-> None,
              initial |-> {}, tried |-> {}, dead |-> {}, ghosts |-> {}]

Init ==
  /\ rooms = [r \in Names |-> None]
  /\ sets = [s \in Sockets |-> {}]
  /\ endpoint = [s \in Sockets |-> "new"]
  /\ gone = {} /\ failed = {}
  /\ task = [e \in Events |-> AtStop(1)]

\* The connections of a room.
In(r) == IF rooms[r] = None THEN {} ELSE sets[rooms[r]]
-----------------------------------------------------------------------------
(* Connections: the endpoints of api/routes/websocket.py. *)

\* An accepted and authorised connection enters its room, which is made for it
\* if it is not there.
Enter_AlwaysAnew(s) ==
  /\ endpoint[s] = "new"
  /\ rooms' = [rooms EXCEPT ![RoomOf[s]] = s]
  /\ sets' = [sets EXCEPT ![s] = {s}]
  /\ endpoint' = [endpoint EXCEPT ![s] = "open"]
  /\ UNCHANGED <<gone, failed, task>>
Enter(s) ==
  /\ endpoint[s] = "new"
  /\ LET r == RoomOf[s]
         set == IF rooms[r] = None THEN s ELSE rooms[r] IN
     /\ rooms' = [rooms EXCEPT ![r] = set]
     /\ sets' = [sets EXCEPT ![set] = @ \cup {s}]
  /\ endpoint' = [endpoint EXCEPT ![s] = "open"]
  /\ UNCHANGED <<gone, failed, task>>

\* The client closes, or the network does.
PeerGone(s) ==
  /\ endpoint[s] = "open"
  /\ gone' = gone \cup {s}
  /\ UNCHANGED <<rooms, sets, endpoint, failed, task>>

\* disconnect: an empty room is deleted.
Emptied_AtOnce(s) == TRUE
Emptied(s) == In(RoomOf[s]) \subseteq {s}

Leave(s) ==
  LET r == RoomOf[s] IN
  /\ rooms' = IF Emptied(s) THEN [rooms EXCEPT ![r] = None] ELSE rooms
  /\ sets' = IF rooms[r] = None THEN sets
             ELSE [sets EXCEPT ![rooms[r]] = @ \ {s}]

\* The endpoint is told of the disconnection, by a receive or by a send.
Disconnect(s) ==
  /\ endpoint[s] = "open"
  /\ s \in gone
  /\ Leave(s)
  /\ endpoint' = [endpoint EXCEPT ![s] = "ended"]
  /\ UNCHANGED <<gone, failed, task>>

\* Any other error ends the endpoint without disconnect: a message without
\* text, of which receive_text makes a KeyError, or the endpoint's own call
\* (the pong to a ping) after a broadcast has failed to send. The server then
\* closes the connection.
BreakOff(s) ==
  /\ endpoint[s] = "open"
  /\ endpoint' = [endpoint EXCEPT ![s] = "ended"]
  /\ gone' = gone \cup {s}
  /\ UNCHANGED <<rooms, sets, failed, task>>
-----------------------------------------------------------------------------
(* Broadcasts: the handlers of events/handlers/websocket_handler.py. *)

Waiting(e) == task[e].set = None /\ task[e].stop \in DOMAIN Route[e]

Here(e) == Route[e][task[e].stop]

\* The task ends, or an error ends it, whatever is left of its route.
Over(e) == AtStop(Len(Route[e]) + 1)

\* Nobody is there.
PassBy(e) ==
  /\ Waiting(e)
  /\ In(Here(e)) = {}
  /\ task' = [task EXCEPT ![e] = AtStop(@.stop + 1)]
  /\ UNCHANGED <<rooms, sets, endpoint, gone, failed>>

Ended(S) == {s \in S : endpoint[s] = "ended"}

Begin(e) ==
  /\ Waiting(e)
  /\ \E s \in In(Here(e)) :
       task' = [task EXCEPT ![e] = [AtStop(@.stop) EXCEPT
                  !.at = s, !.set = rooms[Here(e)], !.initial = In(Here(e)),
                  !.ghosts = Ended(In(Here(e)))]]
  /\ UNCHANGED <<rooms, sets, endpoint, gone, failed>>

\* It has been the turn of t.at; D are those found dead by it.
Tried(t, D) ==
  [t EXCEPT !.at = None, !.tried = @ \cup {t.at}, !.dead = @ \cup D]

\* The message is sent, though a client that is gone never gets it; on a
\* connection the server has closed, or on which a send has failed, send_text
\* is an error.
Sent_AsDead(e) ==
  /\ task[e].at \in Sockets \ (failed \cup task[e].ghosts)
  /\ task' = [task EXCEPT ![e] = Tried(@, {@.at})]
  /\ UNCHANGED <<rooms, sets, endpoint, gone, failed>>
Sent(e) ==
  /\ task[e].at \in Sockets \ (failed \cup task[e].ghosts)
  /\ task' = [task EXCEPT ![e] = Tried(@, {})]
  /\ UNCHANGED <<rooms, sets, endpoint, gone, failed>>

NotSent_Ignored(e) ==
  /\ task[e].at \in gone
  /\ failed' = failed \cup {task[e].at}
  /\ task' = [task EXCEPT ![e] = Tried(@, {})]
  /\ UNCHANGED <<rooms, sets, endpoint, gone>>
NotSent(e) ==
  /\ task[e].at \in gone
  /\ failed' = failed \cup {task[e].at}
  /\ task' = [task EXCEPT ![e] = Tried(@, {@.at})]
  /\ UNCHANGED <<rooms, sets, endpoint, gone>>

\* The iteration asks for the next connection.
Iterating(e) == task[e].set # None /\ task[e].at = None

SameSize(t) == Cardinality(sets[t.set]) = Cardinality(t.initial)

Stayers(t) == t.initial \cap sets[t.set]

\* "Set changed size during iteration": the handler logs it and gives up.
GiveUp(e) ==
  /\ Iterating(e)
  /\ ~SameSize(task[e])
  /\ task' = [task EXCEPT ![e] = Over(e)]
  /\ UNCHANGED <<rooms, sets, endpoint, gone, failed>>

GoOn(e) ==
  /\ Iterating(e)
  /\ SameSize(task[e])
  /\ \E s \in sets[task[e].set] \ task[e].tried :
       task' = [task EXCEPT ![e] = [@ EXCEPT
                  !.at = s, !.ghosts = task[e].ghosts \cup Ended({s})]]
  /\ UNCHANGED <<rooms, sets, endpoint, gone, failed>>

\* The dead are discarded from the room as it is in active_connections now.
Finish(e) ==
  /\ Iterating(e)
  /\ SameSize(task[e])
  /\ Stayers(task[e]) \subseteq task[e].tried
  /\ sets' = [sets EXCEPT ![rooms[Here(e)]] = @ \ task[e].dead]
  /\ task' = [task EXCEPT ![e] = AtStop(@.stop + 1)]
  /\ UNCHANGED <<rooms, endpoint, gone, failed>>

Step(e) == \/ PassBy(e) \/ Begin(e) \/ Sent(e) \/ NotSent(e)
           \/ GiveUp(e) \/ GoOn(e) \/ Finish(e)

Serve(s) == Enter(s) \/ PeerGone(s) \/ Disconnect(s) \/ BreakOff(s)

Next == (\E s \in Sockets : Serve(s)) \/ (\E e \in Events : Step(e))

Spec == Init /\ [][Next]_vars
-----------------------------------------------------------------------------
\* An iteration that Python lets go on is over the room as it is: whatever
\* connections came and went, the room was not deleted and made anew, so the
\* dead can be discarded from it (the KeyError that broadcast does not guard
\* against never comes).
IteratesTheRoom ==
  \A e \in Events :
    Iterating(e) /\ SameSize(task[e]) => rooms[Here(e)] = task[e].set

\* Whoever is served and whose connection stands is in the room: rooms that
\* are deleted and made anew, and broadcasts that discard the dead, lose nobody.
NobodyIsDropped ==
  \A s \in Sockets :
    endpoint[s] = "open" /\ s \notin gone => s \in In(RoomOf[s])

\* An endpoint that ends by another error than WebSocketDisconnect leaves its
\* connection in the room. A broadcast whose iteration is not interrupted takes
\* out every such ghost: those that were there when it began, and those that
\* were one when their turn came.
GhostsGo ==
  [][\A e \in Events :
       task[e].set # None /\ SameSize(task[e]) /\ task'[e].set = None =>
         \A s \in task[e].ghosts : s \notin In(RoomOf[s])']_vars

\* The docstring of broadcast: send a message to all clients in a room; to
\* those, at least, who are there from its beginning to its end.
AllAreTold ==
  [][\A e \in Events :
       task[e].set # None /\ task'[e].set = None =>
         Stayers(task[e]) \ gone \subseteq task[e].tried]_vars
=============================================================================
