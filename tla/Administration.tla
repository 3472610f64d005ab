----------------------------- MODULE Administration -----------------------------
(***************************************************************************)
(* The administrators' operations on users, products and stores:           *)
(* services/admin_service.py, api/routes/admin.py and the bulk updates of  *)
(* repositories/database.                                                  *)
(*                                                                         *)
(* Only references matter here.  A cell is one foreign key of one row, and *)
(* the columns are looked at one by one: which cells belong to one row is  *)
(* told for the participations in one run only.                            *)
(*                                                                         *)
(* Grain.  A merge commits once for each column; the other handlers commit *)
(* once.  No other handler runs between the commits of a merge, but the    *)
(* dependencies of the next requests do: they run in threads.  A handler   *)
(* works with the administrator its dependency has seen.                   *)
(***************************************************************************)
EXTENDS Naturals, Sequences, FiniteSets

CONSTANTS
  Users, Products, Stores, Groups,
  None,     \* no such row
  Nobody,   \* NULL
  \* Bounds of the model:
  MaxHere,  \* users, products and stores at a time
  MaxRows   \* cells in use

Entities == Users \cup Products \cup Stores

ASSUME ConstantsAssumption ==
  /\ Users \cap Products = {} /\ Users \cap Stores = {} /\ Products \cap Stores = {}
  /\ {None, Nobody} \cap Entities = {} /\ None # Nobody
  /\ MaxHere \in Nat /\ MaxRows \in Nat

\* The columns that refer to a product, a store, a user, in the order in
\* which a merge updates them.
ProductColumns == <<"bid", "product_availability", "list_item">>
StoreColumns == <<"run", "store_availability">>
UserColumns_NoPrices ==
  <<"participation", "group_creator", "product_creator", "product_verifier",
    "store_creator", "store_verifier", "notification", "reassigned_from",
    "reassigned_to">>
UserColumns ==
  <<"participation", "group_creator", "product_creator", "product_verifier",
    "store_creator", "store_verifier", "availability_creator", "notification",
    "reassigned_from", "reassigned_to">>

Nullable == {"product_creator", "product_verifier", "store_creator",
             "store_verifier", "availability_creator"}

\* The columns of the schema, whatever a merge does about them.
ReferToProducts == {"bid", "product_availability", "list_item"}
ReferToStores == {"run", "store_availability"}
ReferToUsers == {"participation", "group_creator", "notification",
                 "reassigned_from", "reassigned_to"} \cup Nullable

Schema == ReferToProducts \cup ReferToStores \cup ReferToUsers

\* Two participants of one run; one row of everything else.
Participations == {"participation"} \X {1, 2}
Cells == Participations \cup (Schema \X {1})

Refers(k) == IF k[1] \in ReferToUsers THEN Users
             ELSE IF k[1] \in ReferToProducts THEN Products ELSE Stores

VARIABLES
  here,        \* the users, products and stores there are
  sysadmins,   \* users.is_admin
  ref,         \* what each cell refers to
  members, groupAdmins,
  admitted,    \* whose request has passed require_admin; its handler is to run
  overlapped,  \* two requests were admitted at the same time, once
  job

vars == <<here, sysadmins, ref, members, groupAdmins, admitted, overlapped, job>>

Idle == [op |-> "idle"]
Merging == [op : {"merge"}, source : Entities, target : Entities, at : 1..12]

\* A merge is between two that are there, and its source, which will be
\* deleted, does not administer.
BetweenTwo ==
  job.op = "merge" => /\ job.source \in here \ sysadmins
                      /\ job.target \in here \ {job.source}

TypeOK ==
  /\ here \subseteq Entities
  /\ sysadmins \subseteq here \cap Users
  /\ ref \in [Cells -> Entities \cup {None, Nobody}]
  /\ \A k \in Cells : \/ ref[k] \in {None} \cup (Refers(k) \cap here)
                      \/ ref[k] = Nobody /\ k[1] \in Nullable
  /\ members \in [Groups -> SUBSET (here \cap Users)]
  /\ groupAdmins \in [Groups -> SUBSET Users]
  /\ \A g \in Groups : groupAdmins[g] \subseteq members[g]
  /\ admitted \subseteq Users
  /\ overlapped \in BOOLEAN
  /\ job \in {Idle} \cup Merging /\ BetweenTwo

\* The first administrator is made by hand.
Init ==
  /\ \E u \in Users : here = {u} /\ sysadmins = {u}
  /\ ref = [k \in Cells |-> None]
  /\ members = [g \in Groups |-> {}]
  /\ groupAdmins = [g \in Groups |-> {}]
  /\ admitted = {}
  /\ overlapped = FALSE
  /\ job = Idle
-----------------------------------------------------------------------------
(* What everybody does: registering, creating, taking part. *)

\* Of a name that is free nothing refers to its last bearer.
Create(e) ==
  /\ job = Idle
  /\ e \notin here \cup admitted
  /\ Cardinality(here) < MaxHere
  /\ here' = here \cup {e}
  /\ UNCHANGED <<sysadmins, ref, members, groupAdmins, admitted, overlapped, job>>

InUse == {k \in Cells : ref[k] # None}

\* A new row.  That nobody takes part in a run twice, the services see to.
\* A verifier is never committed.
Refer(k, e) ==
  /\ job = Idle
  /\ ref[k] = None
  /\ e \in Refers(k)
  /\ k[1] \notin {"product_verifier", "store_verifier"}
  /\ k \in Participations => \A p \in Participations : ref[p] # e
  /\ Cardinality(InUse) < MaxRows
  /\ ref' = [ref EXCEPT ![k] = e]
  /\ UNCHANGED <<here, sysadmins, members, groupAdmins, admitted, overlapped, job>>

Enter(u, g, asAdmin) ==
  /\ job = Idle
  /\ members' = [members EXCEPT ![g] = @ \cup {u}]
  /\ groupAdmins' = [groupAdmins EXCEPT ![g] = IF asAdmin THEN @ \cup {u} ELSE @]
  /\ UNCHANGED <<here, sysadmins, ref, admitted, overlapped, job>>
-----------------------------------------------------------------------------
(* Administrators. *)

\* require_admin, in a thread.
Admit(a) ==
  /\ a \in sysadmins \ admitted
  /\ admitted' = admitted \cup {a}
  /\ overlapped' = (overlapped \/ admitted # {})
  /\ UNCHANGED <<here, sysadmins, ref, members, groupAdmins, job>>

\* The handler of a request that was admitted.
Handles(a) ==
  /\ job = Idle
  /\ a \in admitted
  /\ admitted' = admitted \ {a}
  /\ UNCHANGED overlapped

MayChange_Anybody(a, u, admin) == TRUE
MayChange(a, u, admin) == u = a => admin

UpdateUser(a, u, admin) ==
  /\ Handles(a)
  /\ MayChange(a, u, admin)
  /\ sysadmins' = IF admin THEN sysadmins \cup {u} ELSE sysadmins \ {u}
  /\ UNCHANGED <<here, ref, members, groupAdmins, job>>

\* The toggled flag, and the verifier, are never committed.
ToggleVerification(a, e) ==
  /\ Handles(a)
  /\ UNCHANGED <<here, sysadmins, ref, members, groupAdmins, job>>

\* Deleting a row sets to NULL what may be NULL; the database refuses it,
\* and the handler fails, when anything else refers to it.
Referenced(e) == \E k \in Cells : ref[k] = e /\ k[1] \notin Nullable

Erase(e) ==
  /\ here' = here \ {e}
  /\ ref' = [k \in Cells |-> IF ref[k] = e THEN Nobody ELSE ref[k]]
  /\ members' = [g \in Groups |-> members[g] \ {e}]
  /\ groupAdmins' = [g \in Groups |-> groupAdmins[g] \ {e}]

\* delete_product and delete_store ask for bids and runs before; the
\* answer is another, the effect the same.
Delete(a, e) ==
  /\ Handles(a)
  /\ e \notin sysadmins \cup {a}
  /\ ~Referenced(e)
  /\ Erase(e)
  /\ UNCHANGED <<sysadmins, job>>

\* check_overlapping_run_participations
Overlapping_Never(s, t) == FALSE
Overlapping(s, t) == \E p, q \in Participations : ref[p] = s /\ ref[q] = t

\* The handler sees its own administrator as she was when she was admitted.
MayMerge_EvenAdministrators(a, s, t) ==
  /\ s # t
  /\ \/ {s, t} \subseteq Products
     \/ {s, t} \subseteq Stores
     \/ {s, t} \subseteq Users /\ s # a /\ ~Overlapping(s, t)
MayMerge(a, s, t) ==
  /\ s # t
  /\ \/ {s, t} \subseteq Products
     \/ {s, t} \subseteq Stores
     \/ {s, t} \subseteq Users /\ s \notin sysadmins \cup {a} /\ ~Overlapping(s, t)

Merge(a, s, t) ==
  /\ Handles(a)
  /\ MayMerge(a, s, t)
  /\ job' = [op |-> "merge", source |-> s, target |-> t, at |-> 1]
  /\ UNCHANGED <<here, sysadmins, ref, members, groupAdmins>>

Columns == IF job.source \in Products THEN ProductColumns
           ELSE IF job.source \in Stores THEN StoreColumns ELSE UserColumns

\* bulk_update_...: one column, one commit.
MoveColumn ==
  /\ job.op = "merge"
  /\ job.at \in DOMAIN Columns
  /\ ref' = [k \in Cells |-> IF k[1] = Columns[job.at] /\ ref[k] = job.source
                             THEN job.target ELSE ref[k]]
  /\ job' = [job EXCEPT !.at = @ + 1]
  /\ UNCHANGED <<here, sysadmins, members, groupAdmins, admitted, overlapped>>

\* transfer_group_admin_status: where the target is a member already.
Carried(s, t) ==
  [g \in Groups |-> groupAdmins[g] \cup
     (IF s \in groupAdmins[g] /\ t \in members[g] THEN {t} ELSE {})]

TransferGroupAdmin ==
  /\ job.op = "merge"
  /\ job.source \in Users
  /\ job.at = Len(Columns) + 1
  /\ groupAdmins' = Carried(job.source, job.target)
  /\ job' = [job EXCEPT !.at = @ + 1]
  /\ UNCHANGED <<here, sysadmins, ref, members, admitted, overlapped>>

Moved == job.at = Len(Columns) + (IF job.source \in Users THEN 2 ELSE 1)

\* The source is deleted, with her memberships; when the database refuses,
\* the request fails and what was moved stays moved.
EndMerge ==
  /\ job.op = "merge"
  /\ Moved
  /\ IF Referenced(job.source)
     THEN UNCHANGED <<here, ref, members, groupAdmins>>
     ELSE Erase(job.source)
  /\ job' = Idle
  /\ UNCHANGED <<sysadmins, admitted, overlapped>>

\* What is committed stays; the requests in flight are lost.
Crash ==
  /\ job' = Idle
  /\ admitted' = {}
  /\ UNCHANGED <<here, sysadmins, ref, members, groupAdmins, overlapped>>
-----------------------------------------------------------------------------
Everybody ==
  \/ \E e \in Entities : Create(e)
  \/ \E e \in here, k \in Cells : Refer(k, e)
  \/ \E u \in here \cap Users, g \in Groups, asAdmin \in BOOLEAN : Enter(u, g, asAdmin)

Handlers ==
  \E a \in admitted :
    \/ \E u \in here \cap Users, admin \in BOOLEAN : UpdateUser(a, u, admin)
    \/ \E e \in here : ToggleVerification(a, e) \/ Delete(a, e)
    \/ \E s, t \in here : Merge(a, s, t)

JobStep == MoveColumn \/ TransferGroupAdmin \/ EndMerge

Next == Everybody \/ Handlers \/ JobStep \/ \E a \in sysadmins : Admit(a)

Spec == Init /\ [][Next]_vars

CrashSpec == Init /\ [][Next \/ Crash]_vars
-----------------------------------------------------------------------------
(* What is true of the administration. *)

\* Nobody takes part in a run twice, whichever users are merged and
\* wherever a merge is cut short: bids, totals and shares are counted by
\* participation.
OneParticipation ==
  \A p, q \in Participations : ref[p] = ref[q] /\ ref[p] # None => p = q

\* As long as no two requests of administrators were in flight together,
\* there is an administrator: nobody can take the right from herself
\* (CANNOT_REMOVE_OWN_ADMIN_STATUS), be deleted or merged.
AdminLeft == overlapped \/ sysadmins # {}

\* What a merge has yet to do: it is as if it were done.
InMerge == job.op = "merge"
Without(people) == IF InMerge THEN people \ {job.source} ELSE people

AllAtOnce == INSTANCE AdminPromise WITH
  Optional <- {k \in Cells : k[1] \in Nullable},
  here <- Without(here),
  ref <- [k \in Cells |-> IF InMerge /\ ref[k] = job.source THEN job.target ELSE ref[k]],
  members <- [g \in Groups |-> Without(members[g])],
  groupAdmins <- [g \in Groups |->
                    Without(IF InMerge THEN Carried(job.source, job.target)[g]
                            ELSE groupAdmins[g])]

\* A merge that is not cut short looks as if it had committed once: it
\* misses no column, and the source can be deleted at its end.
MergesAreAtomic == AllAtOnce!Spec
=============================================================================
