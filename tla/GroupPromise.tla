----------------------------- MODULE GroupPromise -----------------------------
(***************************************************************************)
(* What a group promises: every operation happens all at once.  A founder  *)
(* is a member and administrator from the beginning, and whoever departs   *)
(* is, in the same step, no member any more, flagged in every run of the   *)
(* group she took part in, without bids in those that are open, and her    *)
(* own runs are cancelled.                                                 *)
(***************************************************************************)
EXTENDS Naturals, FiniteSets

CONSTANTS Users, Groups, Runs, None, MaxMembers, MaxActiveRuns, MaxBids

VARIABLES members, admins, groupOf, state, takes, leads, removed, bids

group == <<members, admins>>
promise == <<members, admins, groupOf, state, takes, leads, removed, bids>>

Rows == Users \X Runs

Init ==
  /\ members = [g \in Groups |-> {}]
  /\ admins = [g \in Groups |-> {}]
  /\ groupOf = [r \in Runs |-> None]
  /\ state = [r \in Runs |-> "open"]
  /\ takes = {} /\ leads = {} /\ removed = {}
  /\ bids = [k \in Rows |-> 0]

Found(u, g) ==
  /\ members[g] = {}
  /\ members' = [members EXCEPT ![g] = {u}]
  /\ admins' = [admins EXCEPT ![g] = {u}]
  /\ UNCHANGED <<groupOf, state, takes, leads, removed, bids>>

Join(u, g) ==
  /\ u \notin members[g]
  /\ Cardinality(members[g]) < MaxMembers
  /\ members' = [members EXCEPT ![g] = @ \cup {u}]
  /\ UNCHANGED <<admins, groupOf, state, takes, leads, removed, bids>>

Promote(u, g) ==
  /\ u \in members[g]
  /\ admins' = [admins EXCEPT ![g] = @ \cup {u}]
  /\ UNCHANGED <<members, groupOf, state, takes, leads, removed, bids>>

\* The runs u takes part in that belong to g.
Hers(u, g) == {r \in Runs : groupOf[r] = g /\ <<u, r>> \in takes}

Depart(u, g) ==
  /\ u \in members[g]
  /\ admins[g] \ {u} # {}
  /\ members' = [members EXCEPT ![g] = @ \ {u}]
  /\ admins' = [admins EXCEPT ![g] = @ \ {u}]
  /\ removed' = removed \cup ({u} \X Hers(u, g))
  /\ state' = [r \in Runs |->
                 IF r \in Hers(u, g) /\ <<u, r>> \in leads /\ state[r] = "open"
                 THEN "cancelled" ELSE state[r]]
  /\ bids' = [k \in Rows |->
                IF k[1] = u /\ k[2] \in Hers(u, g) /\ state[k[2]] = "open"
                THEN 0 ELSE bids[k]]
  /\ UNCHANGED <<groupOf, takes, leads>>

Create(u, g, r) ==
  /\ groupOf[r] = None
  /\ u \in members[g]
  /\ Cardinality({s \in Runs : groupOf[s] = g /\ state[s] = "open"}) < MaxActiveRuns
  /\ groupOf' = [groupOf EXCEPT ![r] = g]
  /\ takes' = takes \cup {<<u, r>>}
  /\ leads' = leads \cup {<<u, r>>}
  /\ UNCHANGED <<group, state, removed, bids>>

Bid(u, r) ==
  /\ groupOf[r] # None
  /\ u \in members[groupOf[r]]
  /\ state[r] = "open"
  /\ takes' = takes \cup {<<u, r>>}
  /\ bids[<<u, r>>] < MaxBids
  /\ bids' = [bids EXCEPT ![<<u, r>>] = @ + 1]
  /\ UNCHANGED <<group, groupOf, state, leads, removed>>

HandOver(u, v, r) ==
  /\ <<u, r>> \in leads
  /\ <<v, r>> \in takes
  /\ leads' = (leads \ {<<u, r>>}) \cup {<<v, r>>}
  /\ UNCHANGED <<group, groupOf, state, takes, removed, bids>>

End(r) ==
  /\ state[r] = "open"
  /\ \E how \in {"completed", "cancelled"} : state' = [state EXCEPT ![r] = how]
  /\ UNCHANGED <<group, groupOf, takes, leads, removed, bids>>

Next ==
  \/ \E u \in Users, g \in Groups :
       Found(u, g) \/ Join(u, g) \/ Promote(u, g) \/ Depart(u, g)
  \/ \E u \in Users, r \in Runs :
       \/ \E g \in Groups : Create(u, g, r)
       \/ Bid(u, r) \/ End(r)
       \/ \E v \in Users : HandOver(u, v, r)

Spec == Init /\ [][Next]_promise
=============================================================================
