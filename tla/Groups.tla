-------------------------------- MODULE Groups --------------------------------
(***************************************************************************)
(* Groups, their members, administrators and invitations, and what a       *)
(* departure does to all the runs of the group: services/group_service.py  *)
(* and create_run of services/run_service.py.                              *)
(*                                                                         *)
(* Grain.  As in RunLifecycle: a handler that commits once is one action,  *)
(* a handler that commits several times is a sequence of actions under the *)
(* variable job.  A departure changes flags and states of rows in memory;  *)
(* whichever commit comes next writes all that has been changed so far.    *)
(*                                                                         *)
(* A run is "open" in any of the states that IsActiveRun accepts; how it   *)
(* moves among those is the business of RunLifecycle.                      *)
(***************************************************************************)
EXTENDS Naturals, FiniteSets

CONSTANTS
  Users, Groups, Runs,
  None,
  MaxMembers,     \* MAX_MEMBERS_PER_GROUP
  MaxGroups,      \* MAX_GROUPS_PER_USER
  MaxActiveRuns,  \* MAX_ACTIVE_RUNS_PER_GROUP
  \* The bound of the model:
  MaxBids         \* bids of one participant in one run

ASSUME SetsAssumption == IsFiniteSet(Users) /\ IsFiniteSet(Groups) /\ IsFiniteSet(Runs)
ASSUME NoneAssumption == None \notin Users \cup Groups \cup Runs
ASSUME LimitsAssumption == /\ MaxMembers \in Nat \ {0}
                           /\ MaxGroups \in Nat
                           /\ MaxActiveRuns \in Nat
                           /\ MaxBids \in Nat

VARIABLES
  creator,   \* groups.created_by, None where there is no such group
  joining,   \* the groups with is_joining_allowed
  links,     \* the groups whose present invite token is known outside
  members,   \* group_membership ...
  admins,    \* ... with is_group_admin
  groupOf,   \* runs.group_id, None where there is no such run
  state,     \* runs.state
  takes,     \* run_participations, as <<user, run>> ...
  leads,     \* ... with is_leader,
  removed,   \* is_removed
  bids,      \* how many rows of product_bids a participation has
  job        \* the handler that has commits left to make

groupVars == <<creator, joining, links, members, admins>>
runVars == <<groupOf, state, takes, leads, removed, bids>>
vars == <<creator, joining, links, members, admins,
          groupOf, state, takes, leads, removed, bids, job>>

Rows == Users \X Runs

Idle == [op |-> "idle"]

\* What is left of create_group, and of a departure: the runs it has yet to
\* look at, the one it is looking at, the runs whose row of the departed is
\* flagged, and those that are cancelled, in memory only.
Founding == [op : {"found"}, user : Users, group : Groups]
Departure == [op : {"depart"}, user : Users, group : Groups,
              todo : SUBSET Runs, run : Runs \cup {None},
              flagged : SUBSET Runs, cancelled : SUBSET Runs]

\* What a departure cancels in memory was not completed before.
CancelsUnfinished ==
  job.op = "depart" => \A r \in job.cancelled : state[r] # "completed"

TypeOK ==
  /\ creator \in [Groups -> Users \cup {None}]
  /\ joining \subseteq Groups
  /\ links \subseteq Groups
  /\ members \in [Groups -> SUBSET Users]
  /\ admins \in [Groups -> SUBSET Users]
  /\ \A g \in Groups : admins[g] \subseteq members[g]
  /\ groupOf \in [Runs -> Groups \cup {None}]
  /\ state \in [Runs -> {"open", "completed", "cancelled"}]
  /\ takes \subseteq Rows
  /\ leads \subseteq takes
  /\ removed \subseteq takes
  /\ bids \in [Rows -> 0..MaxBids]
  /\ job \in {Idle} \cup Founding \cup Departure /\ CancelsUnfinished

Init ==
  /\ creator = [g \in Groups |-> None]
  /\ joining = {} /\ links = {}
  /\ members = [g \in Groups |-> {}]
  /\ admins = [g \in Groups |-> {}]
  /\ groupOf = [r \in Runs |-> None]
  /\ state = [r \in Runs |-> "open"]
  /\ takes = {} /\ leads = {} /\ removed = {}
  /\ bids = [k \in Rows |-> 0]
  /\ job = Idle

Exists(g) == creator[g] # None

\* get_user_groups
GroupsOf(u) == {g \in Groups : u \in members[g]}

\* get_runs_by_group
RunsOf(g) == {r \in Runs : groupOf[r] = g}

\* is_active_run
IsActive(r) == state[r] \notin {"completed", "cancelled"}

ActiveRuns(g) == {r \in RunsOf(g) : IsActive(r)}
-----------------------------------------------------------------------------
(* Founding a group, and joining it. *)

\* create_group commits the group before the membership of its creator.
CreateGroup(u, g) ==
  /\ job = Idle
  /\ ~Exists(g)
  /\ creator' = [creator EXCEPT ![g] = u]
  /\ joining' = joining \cup {g}
  /\ job' = [op |-> "found", user |-> u, group |-> g]
  /\ UNCHANGED <<links, members, admins, runVars>>

FounderJoins ==
  /\ job.op = "found"
  /\ members' = [members EXCEPT ![job.group] = @ \cup {job.user}]
  /\ admins' = [admins EXCEPT ![job.group] = @ \cup {job.user}]
  /\ job' = Idle
  /\ UNCHANGED <<creator, joining, links, runVars>>

\* A member, to whom get_group_details shows the token, passes it on.
PostLink(u, g) ==
  /\ job = Idle
  /\ u \in members[g]
  /\ links' = links \cup {g}
  /\ UNCHANGED <<creator, joining, members, admins, runVars, job>>

\* The creator may do this after she has left, too.  (Nobody has been told
\* the id of a group whose founding was cut short.)
RegenerateInviteToken(u, g) ==
  /\ job = Idle
  /\ creator[g] = u
  /\ members[g] # {}
  /\ links' = IF u \in members[g] THEN links \ {g} ELSE links \cup {g}
  /\ UNCHANGED <<creator, joining, members, admins, runVars, job>>

\* _check_membership_constraints
MayBecomeMember(u, g) ==
  /\ u \notin members[g]
  /\ Cardinality(GroupsOf(u)) < MaxGroups
  /\ Cardinality(members[g]) < MaxMembers

JoinGroup(u, g) ==
  /\ job = Idle
  /\ g \in links \cap joining
  /\ MayBecomeMember(u, g)
  /\ members' = [members EXCEPT ![g] = @ \cup {u}]
  /\ UNCHANGED <<creator, joining, links, admins, runVars, job>>

PromoteMember(u, v, g) ==
  /\ job = Idle
  /\ u \in admins[g]
  /\ v \in members[g] \ admins[g]
  /\ admins' = [admins EXCEPT ![g] = @ \cup {v}]
  /\ UNCHANGED <<creator, joining, links, members, runVars, job>>

ToggleJoiningAllowed(u, g) ==
  /\ job = Idle
  /\ u \in admins[g]
  /\ joining' = IF g \in joining THEN joining \ {g} ELSE joining \cup {g}
  /\ UNCHANGED <<creator, links, members, admins, runVars, job>>
-----------------------------------------------------------------------------
(* Departures. *)

\* The first commit of a departure: the membership.  Who leaves has seen
\* the invite token.
Depart(u, g) ==
  /\ members' = [members EXCEPT ![g] = @ \ {u}]
  /\ admins' = [admins EXCEPT ![g] = @ \ {u}]
  /\ job' = [op |-> "depart", user |-> u, group |-> g, todo |-> RunsOf(g),
             run |-> None, flagged |-> {}, cancelled |-> {}]
  /\ links' = links \cup {g}
  /\ UNCHANGED <<creator, joining, runVars>>

MayLeave_Anybody(u, g) == u \in members[g]
MayLeave(u, g) ==
  /\ u \in members[g]
  /\ u \in admins[g] => Cardinality(admins[g]) > 1

LeaveGroup(u, g) ==
  /\ job = Idle
  /\ MayLeave(u, g)
  /\ Depart(u, g)

RemoveMember(u, v, g) ==
  /\ job = Idle
  /\ u \in admins[g]
  /\ v \in members[g] \ admins[g]
  /\ Depart(v, g)

Row == <<job.user, job.run>>

\* Of the run that is looked at, whose row is the departed's, bids are left.
BidsLeft_EvenInHistory == job.run \in job.flagged /\ bids[Row] > 0
BidsLeft == /\ job.run \in job.flagged
            /\ IsActive(job.run)
            /\ bids[Row] > 0

\* It is cancelled, in memory, if she leads it, after her bids are gone.
Cancelled_EvenCompleted ==
  job.cancelled \cup {r \in {job.run} \ {None} : <<job.user, r>> \in leads}
Cancelled ==
  job.cancelled \cup
    {r \in {job.run} \ {None} : <<job.user, r>> \in leads /\ state[r] # "completed"}

\* A commit writes the rows flagged and the states changed in memory.
Flush(cancelled) ==
  /\ removed' = removed \cup ({job.user} \X job.flagged)
  /\ state' = [r \in Runs |-> IF r \in cancelled THEN "cancelled" ELSE state[r]]

NextRun ==
  /\ job.op = "depart"
  /\ ~BidsLeft
  /\ \E r \in job.todo :
       job' = [job EXCEPT
                 !.todo = @ \ {r}, !.run = r, !.cancelled = Cancelled,
                 !.flagged = IF <<job.user, r>> \in takes THEN @ \cup {r} ELSE @]
  /\ UNCHANGED <<groupVars, runVars>>

DeleteBid ==
  /\ job.op = "depart"
  /\ BidsLeft
  /\ bids' = [bids EXCEPT ![Row] = @ - 1]
  /\ Flush(job.cancelled)
  /\ UNCHANGED <<groupVars, groupOf, takes, leads, job>>

Departed_NothingWritten ==
  /\ job.op = "depart"
  /\ ~BidsLeft
  /\ job.todo = {}
  /\ job' = Idle
  /\ UNCHANGED <<groupVars, runVars>>
Departed ==
  /\ job.op = "depart"
  /\ ~BidsLeft
  /\ job.todo = {}
  /\ Flush(Cancelled)
  /\ job' = Idle
  /\ UNCHANGED <<groupVars, groupOf, takes, leads, bids>>
-----------------------------------------------------------------------------
(* Runs, as far as a group is concerned. *)

WithinRunLimit(g) == Cardinality(ActiveRuns(g)) < MaxActiveRuns

\* The run and the leader's participation are one commit.
CreateRun(u, g, r) ==
  /\ job = Idle
  /\ groupOf[r] = None
  /\ u \in members[g]
  /\ WithinRunLimit(g)
  /\ groupOf' = [groupOf EXCEPT ![r] = g]
  /\ takes' = takes \cup {<<u, r>>}
  /\ leads' = leads \cup {<<u, r>>}
  /\ UNCHANGED <<groupVars, state, removed, bids, job>>

\* place_bid, and the participation it may begin with.  A member who has
\* come back takes part with her old row, flagged or not.
PlaceBid(u, r) ==
  /\ job = Idle
  /\ groupOf[r] # None
  /\ u \in members[groupOf[r]]
  /\ IsActive(r)
  /\ bids[<<u, r>>] < MaxBids
  /\ takes' = takes \cup {<<u, r>>}
  /\ bids' = [bids EXCEPT ![<<u, r>>] = @ + 1]
  /\ UNCHANGED <<groupVars, groupOf, state, leads, removed, job>>

\* accept_reassignment: the offer was made to a participant.  Nobody asks
\* whether she is still a member, or what became of the run.
HandOver(u, v, r) ==
  /\ job = Idle
  /\ <<u, r>> \in leads
  /\ <<v, r>> \in takes \ leads
  /\ leads' = (leads \ {<<u, r>>}) \cup {<<v, r>>}
  /\ UNCHANGED <<groupVars, groupOf, state, takes, removed, bids, job>>

EndRun(u, r, how) ==
  /\ job = Idle
  /\ <<u, r>> \in leads
  /\ IsActive(r)
  /\ state' = [state EXCEPT ![r] = how]
  /\ UNCHANGED <<groupVars, groupOf, takes, leads, removed, bids, job>>

\* complete_distribution, cancel_run: only the latter asks for membership.
CompleteRun(u, r) == EndRun(u, r, "completed")
CancelRun(u, r) == u \in members[groupOf[r]] /\ EndRun(u, r, "cancelled")

\* What is committed stays; what was changed in memory only is lost.
Crash ==
  /\ job # Idle
  /\ job' = Idle
  /\ UNCHANGED <<groupVars, runVars>>
-----------------------------------------------------------------------------
Membership ==
  \E u \in Users, g \in Groups :
    \/ CreateGroup(u, g) \/ JoinGroup(u, g) \/ LeaveGroup(u, g)
    \/ PostLink(u, g) \/ RegenerateInviteToken(u, g)
    \/ ToggleJoiningAllowed(u, g)
    \/ \E v \in Users : PromoteMember(u, v, g) \/ RemoveMember(u, v, g)

Running ==
  \E u \in Users, r \in Runs :
    \/ \E g \in Groups : CreateRun(u, g, r)
    \/ PlaceBid(u, r) \/ CompleteRun(u, r)
    \/ groupOf[r] # None /\ CancelRun(u, r)
    \/ \E v \in Users : HandOver(u, v, r)

JobStep == FounderJoins \/ NextRun \/ DeleteBid \/ Departed

Next == Membership \/ Running \/ JobStep

Spec == Init /\ [][Next]_vars

CrashSpec == Init /\ [][Next \/ Crash]_vars

-----------------------------------------------------------------------------
(* What is true of the groups. *)

\* Somebody who is gone: not a member of the group of a run she takes part in.
Gone(u, r) == <<u, r>> \in takes /\ u \notin members[groupOf[r]]

\* No group exceeds its limits, and no list of limits is exceeded by a
\* sequence of joining, leaving, creating and ending.
LimitsHeld ==
  \A g \in Groups : /\ Cardinality(members[g]) =< MaxMembers
                    /\ Cardinality(ActiveRuns(g)) =< MaxActiveRuns

\* A group that has members has an administrator among them, whoever leaves
\* or is removed, and whichever handler is cut short.
AdminRemains == \A g \in Groups : members[g] # {} => admins[g] # {}

\* "All operations succeed together or all fail together" (leave_group and
\* remove_member): between two handlers, whoever is gone is flagged in every
\* run of the group and has no bid in any that is open.
DepartedAreOut ==
  job = Idle =>
    \A u \in Users, r \in Runs :
      Gone(u, r) => /\ <<u, r>> \in removed
                    /\ IsActive(r) => bids[<<u, r>>] = 0

\* What a departure has yet to show: it is as if it happened all at once.
Leaving(u, r) == /\ job.op = "depart"
                 /\ u = job.user
                 /\ groupOf[r] = job.group
                 /\ <<u, r>> \in takes

AllAtOnce == INSTANCE GroupPromise WITH
  removed <- removed \cup {k \in Rows : Leaving(k[1], k[2])},
  state <- [r \in Runs |->
              IF \E u \in Users : Leaving(u, r) /\ <<u, r>> \in leads /\ IsActive(r)
              THEN "cancelled" ELSE state[r]],
  bids <- [k \in Rows |-> IF Leaving(k[1], k[2]) /\ IsActive(k[2])
                           THEN 0 ELSE bids[k]]

\* A handler that is not cut short looks as if it had committed once.
HandlersAreAtomic == AllAtOnce!Spec
=============================================================================
