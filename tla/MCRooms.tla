------------------------------- MODULE MCRooms -------------------------------
(* A run's page and its group's page, and the events of the run. *)
EXTENDS Rooms

CONSTANTS run, group, ann, bob, cyd, confirmed, bid

Pages == {run, group}
Visitors == {ann, bob, cyd}
Visits == [s \in Visitors |-> IF s = cyd THEN group ELSE run]

\* A change of the run's state is told to both rooms, a bid to the run's.
Told == {confirmed, bid}
Routes == [e \in Told |-> IF e = confirmed THEN <<run, group>> ELSE <<run>>]
=============================================================================
