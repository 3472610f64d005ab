----------------------------- MODULE AdminPromise -----------------------------
(***************************************************************************)
(* What the administration of users, products and stores promises: a row   *)
(* that refers to one of them refers to one that is there, and a merge     *)
(* turns all the references to its source into references to its target    *)
(* in the step in which the source disappears.                             *)
(***************************************************************************)
EXTENDS FiniteSets

CONSTANTS
  Users, Products, Stores, Groups,
  Cells,         \* the rows' references: a column and a row
  Participations,\* the cells of the participants of one run
  Optional,      \* the cells that may lose what they refer to
  None,          \* no such row
  Nobody         \* NULL

Entities == Users \cup Products \cup Stores

VARIABLES here, ref, members, groupAdmins

promise == <<here, ref, members, groupAdmins>>

Alike(e, f) == \A kind \in {Users, Products, Stores} : e \in kind <=> f \in kind

Init ==
  /\ \E u \in Users : here = {u}
  /\ ref = [k \in Cells |-> None]
  /\ members = [g \in Groups |-> {}]
  /\ groupAdmins = [g \in Groups |-> {}]

Create(e) ==
  /\ e \notin here
  /\ here' = here \cup {e}
  /\ UNCHANGED <<ref, members, groupAdmins>>

\* Nobody takes part in a run twice.
Refer(k) ==
  /\ ref[k] = None
  /\ ref'[k] \in here
  /\ k \in Participations => \A p \in Participations : ref[p] # ref'[k]
  /\ ref' = [ref EXCEPT ![k] = ref'[k]]
  /\ UNCHANGED <<here, members, groupAdmins>>

Enter(u, g, asAdmin) ==
  /\ members' = [members EXCEPT ![g] = @ \cup {u}]
  /\ groupAdmins' = [groupAdmins EXCEPT ![g] = IF asAdmin THEN @ \cup {u} ELSE @]
  /\ UNCHANGED <<here, ref>>

Vanish(e) ==
  /\ here' = here \ {e}
  /\ members' = [g \in Groups |-> members[g] \ {e}]

\* What becomes of what has to refer to somebody is settled before.
Delete(e) ==
  /\ \A k \in Cells \ Optional : ref[k] # e
  /\ Vanish(e)
  /\ ref' = [k \in Cells |-> IF ref[k] = e THEN Nobody ELSE ref[k]]
  /\ groupAdmins' = [g \in Groups |-> groupAdmins[g] \ {e}]

\* The target takes over the administration of the groups both are in.
Merge(s, t) ==
  /\ s # t /\ Alike(s, t)
  /\ \A p, q \in Participations : ~(ref[p] = s /\ ref[q] = t)
  /\ Vanish(s)
  /\ ref' = [k \in Cells |-> IF ref[k] = s THEN t ELSE ref[k]]
  /\ groupAdmins' = [g \in Groups |->
       (groupAdmins[g] \ {s}) \cup
         (IF s \in groupAdmins[g] /\ t \in members[g] THEN {t} ELSE {})]

Next ==
  \/ \E e \in Entities : Create(e)
  \/ \E e \in here : Delete(e)
  \/ \E k \in Cells : Refer(k)
  \/ \E u \in here \cap Users, g \in Groups, asAdmin \in BOOLEAN : Enter(u, g, asAdmin)
  \/ \E s, t \in here : Merge(s, t)

Spec == Init /\ [][Next]_promise
=============================================================================
