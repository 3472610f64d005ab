----------------------------- MODULE RunPromise -----------------------------
(***************************************************************************)
(* What a shopping run promises to those who take part in it, whatever the *)
(* services do inside.                                                     *)
(*                                                                         *)
(* The run goes through its stages along the table of the state machine.   *)
(* One person owns it; only the heir she named can take her place.  What   *)
(* everybody gets becomes visible all at once, when the run enters         *)
(* distribution; from then on nobody's part changes, unless the person     *)
(* leaves and it is withdrawn; and the run is completed only when every    *)
(* part has been collected.                                                *)
(***************************************************************************)
EXTENDS RunStateMachine, Integers

CONSTANTS Users, Creator, Products, None

VARIABLES
  stage,
  owner,
  heir,       \* None, or whom the owner offers the run to
  parts,      \* what each bid was allotted, None before it is published
  collected   \* the parts that were collected

Keys == Users \X Products

promise == <<stage, owner, heir, parts, collected>>

Nothing == [k \in Keys |-> None]

Init ==
  /\ stage = "planning"
  /\ owner = Creator
  /\ heir = None
  /\ parts = Nothing
  /\ collected = {}

Advance ==
  /\ \E to \in States \ {"distributing", "completed"} :
       CanTransition(stage, to) /\ stage' = to
  /\ parts' = Nothing
  /\ collected' = {}
  /\ UNCHANGED <<owner, heir>>

\* A bid may have been marked as collected before.
Publish ==
  /\ CanTransition(stage, "distributing")
  /\ stage' = "distributing"
  /\ DOMAIN parts' = Keys
  /\ collected' \subseteq Keys
  /\ UNCHANGED <<owner, heir>>

Collect ==
  /\ CanViewDistribution(stage)
  /\ \E k \in Keys : collected' = collected \cup {k}
  /\ UNCHANGED <<stage, owner, heir, parts>>

\* Whoever leaves during the distribution loses what was put aside.
Withdraw ==
  /\ stage = "distributing"
  /\ \E k \in Keys :
       /\ parts' = [parts EXCEPT ![k] = None]
       /\ collected' = collected \ {k}
  /\ UNCHANGED <<stage, owner, heir>>

Complete ==
  /\ CanTransition(stage, "completed")
  /\ \A k \in Keys : parts[k] \in {None, 0} \/ k \in collected
  /\ stage' = "completed"
  /\ UNCHANGED <<owner, heir, parts, collected>>

Offer ==
  /\ heir = None
  /\ heir' \in Users \ {owner}
  /\ UNCHANGED <<stage, owner, parts, collected>>

HandOver ==
  /\ heir # None
  /\ owner' = heir
  /\ heir' = None
  /\ UNCHANGED <<stage, parts, collected>>

TakeBack ==
  /\ heir' = None
  /\ UNCHANGED <<stage, owner, parts, collected>>

Next == \/ Advance \/ Publish \/ Collect \/ Withdraw \/ Complete
        \/ Offer \/ HandOver \/ TakeBack

Spec == Init /\ [][Next]_promise
=============================================================================
