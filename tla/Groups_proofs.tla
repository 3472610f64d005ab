---------------------------- MODULE Groups_proofs ----------------------------
(***************************************************************************)
(* What is true of groups of any size, with any number of runs: types,     *)
(* limits and the administrator, even when handlers are cut short; and,    *)
(* when none is, that a founding and a departure look as if they happened  *)
(* all at once.                                                            *)
(***************************************************************************)
EXTENDS Groups, FiniteSetTheorems, TLAPS

USE SetsAssumption, NoneAssumption, LimitsAssumption DEF groupVars, runVars

Handler == Next \/ Crash

\* The founder's group is there and empty; the link of a group is known
\* only where somebody has been a member and somebody still is.
Founded ==
  /\ job.op = "found" => Exists(job.group) /\ members[job.group] = {}
  /\ \A g \in Groups : ~Exists(g) => members[g] = {}
  /\ \A g \in links : members[g] # {}

\* A departure has flagged rows that are there.
FlaggedTakePart ==
  job.op = "depart" => \A r \in job.flagged : <<job.user, r>> \in takes

\* Only runs that were created have participants.
RunsCreated ==
  \A u \in Users, r \in Runs : <<u, r>> \in takes => groupOf[r] \in Groups

GInv == TypeOK /\ FlaggedTakePart /\ Founded /\ RunsCreated /\ LimitsHeld /\ AdminRemains

LEMMA TypeOKStep == TypeOK /\ FlaggedTakePart /\ [Handler]_vars => TypeOK'
<1> SUFFICES ASSUME TypeOK, FlaggedTakePart, [Handler]_vars PROVE TypeOK'
  OBVIOUS
<1> USE DEF TypeOK, CancelsUnfinished, Idle
<1>1. ASSUME NEW u \in Users, NEW g \in Groups, CreateGroup(u, g) PROVE TypeOK'
  BY <1>1 DEF CreateGroup, Founding
<1>2. ASSUME NEW u \in Users, NEW g \in Groups, JoinGroup(u, g) PROVE TypeOK'
  BY <1>2 DEF JoinGroup, Idle
<1>3. ASSUME NEW u \in Users, NEW g \in Groups, Depart(u, g) PROVE TypeOK'
  BY <1>3 DEF Depart, Departure, RunsOf
<1>4. ASSUME NEW u \in Users, NEW g \in Groups,
             PostLink(u, g) \/ RegenerateInviteToken(u, g) \/ ToggleJoiningAllowed(u, g)
      PROVE TypeOK'
  BY <1>4 DEF PostLink, RegenerateInviteToken, ToggleJoiningAllowed
<1>5. ASSUME NEW u \in Users, NEW v \in Users, NEW g \in Groups, PromoteMember(u, v, g)
      PROVE TypeOK'
  BY <1>5 DEF PromoteMember
<1>6. ASSUME NEW u \in Users, NEW g \in Groups, NEW r \in Runs, CreateRun(u, g, r)
      PROVE TypeOK'
  BY <1>6 DEF CreateRun, Rows
<1>7. ASSUME NEW u \in Users, NEW r \in Runs, PlaceBid(u, r) PROVE TypeOK'
  BY <1>7 DEF PlaceBid, Rows
<1>8. ASSUME NEW u \in Users, NEW v \in Users, NEW r \in Runs, HandOver(u, v, r)
      PROVE TypeOK'
  BY <1>8 DEF HandOver, Rows
<1>9. ASSUME NEW u \in Users, NEW r \in Runs, CompleteRun(u, r) \/ CancelRun(u, r)
      PROVE TypeOK'
  BY <1>9 DEF CompleteRun, CancelRun, EndRun
<1>10. CASE FounderJoins
  <2>1. job \in Founding
    BY <1>10 DEF FounderJoins, Idle, Departure
  <2> QED BY <1>10, <2>1 DEF FounderJoins, Founding
<1>11. CASE NextRun
  <2>1. job \in Departure
    BY <1>11 DEF NextRun, Idle, Founding
  <2>2. PICK r \in job.todo :
          job' = [job EXCEPT
                    !.todo = @ \ {r}, !.run = r, !.cancelled = Cancelled,
                    !.flagged = IF <<job.user, r>> \in takes THEN @ \cup {r} ELSE @]
    BY <1>11 DEF NextRun
  <2>3. Cancelled \in SUBSET Runs /\ r \in Runs
    BY <2>1 DEF Departure, Cancelled
  <2>4. job' \in Departure
    BY <2>1, <2>2, <2>3 DEF Departure
  <2>5. job'.cancelled = Cancelled /\ \A c \in Cancelled : state[c] # "completed"
    BY <1>11, <2>1, <2>2 DEF NextRun, Departure, Cancelled
  <2> QED BY <1>11, <2>4, <2>5 DEF NextRun
<1>12. CASE DeleteBid
  <2>1. job \in Departure
    BY <1>12 DEF DeleteBid, Idle, Founding
  <2>2. BidsLeft /\ Row \in Rows
    BY <1>12, <2>1 DEF DeleteBid, BidsLeft, Departure, Row, Rows
  <2>3. bids[Row] - 1 \in 0..MaxBids
    BY <2>2 DEF BidsLeft
  <2>4. removed' \subseteq takes
    BY <1>12 DEF DeleteBid, Flush, FlaggedTakePart
  <2>5. CancelsUnfinished'
    BY <1>12, <2>1 DEF DeleteBid, Flush, Departure
  <2> HIDE DEF CancelsUnfinished
  <2> QED BY <1>12, <2>1, <2>2, <2>3, <2>4, <2>5 DEF DeleteBid, Flush
<1>13. CASE Departed
  <2>1. removed' \subseteq takes
    BY <1>13 DEF Departed, Flush, FlaggedTakePart
  <2> QED BY <1>13, <2>1 DEF Departed, Flush
<1>14. CASE Crash
  BY <1>14 DEF Crash
<1>15. CASE UNCHANGED vars
  BY <1>15 DEF vars
<1> QED
  BY <1>1, <1>2, <1>3, <1>4, <1>5, <1>6, <1>7, <1>8, <1>9, <1>10, <1>11, <1>12, <1>13,
     <1>14, <1>15
  DEF Handler, Next, Membership, Running, JobStep, LeaveGroup, RemoveMember

LEMMA InvInit == Init => GInv
<1> SUFFICES ASSUME Init PROVE GInv
  OBVIOUS
<1> USE DEF Init, Idle
<1>1. TypeOK
  BY DEF TypeOK, CancelsUnfinished, Rows
<1>2. LimitsHeld
  <2>1. \A g \in Groups : members[g] = {} /\ ActiveRuns(g) = {}
    BY DEF ActiveRuns, RunsOf
  <2> QED BY <2>1, FS_EmptySet DEF LimitsHeld
<1> QED BY <1>1, <1>2 DEF GInv, FlaggedTakePart, Founded, RunsCreated, AdminRemains, Exists

\* The limit of members: only joining and founding add a member.
LEMMA MembersLimited ==
  ASSUME TypeOK, Founded, LimitsHeld, [Handler]_vars
  PROVE  \A g \in Groups : Cardinality(members'[g]) =< MaxMembers
<1> SUFFICES ASSUME NEW g \in Groups PROVE Cardinality(members'[g]) =< MaxMembers
  OBVIOUS
<1>1. IsFiniteSet(members[g]) /\ Cardinality(members[g]) \in Nat
  BY FS_Subset, FS_CardinalityType DEF TypeOK
<1>2. CASE members'[g] \subseteq members[g]
  BY <1>1, <1>2, FS_Subset, FS_CardinalityType DEF LimitsHeld
<1>3. CASE \E u \in Users : MayBecomeMember(u, g) /\ members'[g] = members[g] \cup {u}
  <2>1. PICK u \in Users : MayBecomeMember(u, g) /\ members'[g] = members[g] \cup {u}
    BY <1>3
  <2>2. Cardinality(members[g] \cup {u}) = Cardinality(members[g]) + 1
    BY <1>1, <2>1, FS_AddElement DEF MayBecomeMember
  <2> QED BY <1>1, <2>1, <2>2 DEF MayBecomeMember
<1>4. CASE \E u \in Users : members'[g] = {u}
  <2>1. PICK u \in Users : members'[g] = {u}
    BY <1>4
  <2>2. Cardinality({u}) = 1
    BY FS_Singleton
  <2> QED BY <2>1, <2>2
<1>5. \/ members'[g] \subseteq members[g]
      \/ \E u \in Users : MayBecomeMember(u, g) /\ members'[g] = members[g] \cup {u}
      \/ \E u \in Users : members'[g] = {u}
  <2>1. ASSUME NEW u \in Users, NEW h \in Groups, JoinGroup(u, h)
        PROVE  <1>5!:
    BY <2>1 DEF JoinGroup, TypeOK
  <2>2. ASSUME NEW u \in Users, NEW h \in Groups, Depart(u, h)
        PROVE  <1>5!:
    BY <2>2 DEF Depart, TypeOK
  <2>3. CASE FounderJoins
    BY <2>3 DEF FounderJoins, TypeOK, Founded, Founding, Idle, Departure
  <2>4. CASE UNCHANGED members
    BY <2>4
  <2> QED
    BY <2>1, <2>2, <2>3, <2>4
    DEF Handler, Next, Membership, Running, JobStep, LeaveGroup, RemoveMember, CreateGroup,
        PostLink, RegenerateInviteToken, ToggleJoiningAllowed, PromoteMember, CreateRun,
        PlaceBid, HandOver, CompleteRun, CancelRun, EndRun, NextRun, DeleteBid, Departed,
        Crash, vars
<1> QED BY <1>2, <1>3, <1>4, <1>5

\* The limit of active runs: only create_run adds one.
LEMMA RunsLimited ==
  ASSUME TypeOK, LimitsHeld, [Handler]_vars
  PROVE  \A g \in Groups : Cardinality(ActiveRuns(g)') =< MaxActiveRuns
<1> SUFFICES ASSUME NEW g \in Groups PROVE Cardinality(ActiveRuns(g)') =< MaxActiveRuns
  OBVIOUS
<1>1. IsFiniteSet(ActiveRuns(g)) /\ Cardinality(ActiveRuns(g)) \in Nat
  BY FS_Subset, FS_CardinalityType DEF ActiveRuns, RunsOf
<1>2. CASE ActiveRuns(g)' \subseteq ActiveRuns(g)
  BY <1>1, <1>2, FS_Subset, FS_CardinalityType DEF LimitsHeld
<1>3. CASE \E r \in Runs : WithinRunLimit(g) /\ ActiveRuns(g)' \subseteq ActiveRuns(g) \cup {r}
  <2>1. PICK r \in Runs : WithinRunLimit(g) /\ ActiveRuns(g)' \subseteq ActiveRuns(g) \cup {r}
    BY <1>3
  <2> DEFINE after == ActiveRuns(g) \cup {r}
  <2>2. /\ IsFiniteSet(after)
        /\ Cardinality(after) \in Nat
        /\ Cardinality(after) =< Cardinality(ActiveRuns(g)) + 1
    <3>1. /\ IsFiniteSet(after)
          /\ Cardinality(after) = IF r \in ActiveRuns(g) THEN Cardinality(ActiveRuns(g))
                                  ELSE Cardinality(ActiveRuns(g)) + 1
      BY <1>1, FS_AddElement
    <3> HIDE DEF after
    <3> QED BY <1>1, <3>1
  <2>3. /\ Cardinality(ActiveRuns(g)') \in Nat
        /\ Cardinality(ActiveRuns(g)') =< Cardinality(after)
    BY <2>1, <2>2, FS_Subset, FS_CardinalityType
  <2> QED BY <1>1, <2>1, <2>2, <2>3 DEF WithinRunLimit
<1>4. \/ ActiveRuns(g)' \subseteq ActiveRuns(g)
      \/ \E r \in Runs : WithinRunLimit(g) /\ ActiveRuns(g)' \subseteq ActiveRuns(g) \cup {r}
  <2> USE DEF ActiveRuns, RunsOf, IsActive
  <2>1. ASSUME NEW u \in Users, NEW h \in Groups, NEW r \in Runs, CreateRun(u, h, r)
        PROVE  <1>4!:
    BY <2>1 DEF CreateRun, TypeOK
  <2>2. ASSUME NEW u \in Users, NEW r \in Runs, CompleteRun(u, r) \/ CancelRun(u, r)
        PROVE  <1>4!:
    BY <2>2 DEF CompleteRun, CancelRun, EndRun, TypeOK
  <2>3. CASE DeleteBid \/ Departed
    BY <2>3 DEF DeleteBid, Departed, Flush, TypeOK
  <2>4. CASE UNCHANGED <<groupOf, state>>
    BY <2>4
  <2> HIDE DEF ActiveRuns, RunsOf, IsActive
  <2>5. CASE Membership
    <3>1. UNCHANGED <<groupOf, state>>
      BY <2>5 DEF Membership, LeaveGroup, RemoveMember, CreateGroup, JoinGroup, Depart, PostLink,
                  RegenerateInviteToken, ToggleJoiningAllowed, PromoteMember
    <3> QED BY <2>4, <3>1
  <2>6. CASE Running
    <3>1. \/ \E u \in Users, h \in Groups, r \in Runs : CreateRun(u, h, r)
          \/ \E u \in Users, r \in Runs : CompleteRun(u, r) \/ CancelRun(u, r)
          \/ UNCHANGED <<groupOf, state>>
      BY <2>6 DEF Running, PlaceBid, HandOver
    <3> QED BY <2>1, <2>2, <2>4, <3>1
  <2>7. CASE FounderJoins \/ NextRun \/ Crash \/ UNCHANGED vars
    <3>1. UNCHANGED <<groupOf, state>>
      BY <2>7 DEF FounderJoins, NextRun, Crash, vars
    <3> QED BY <2>4, <3>1
  <2> QED BY <2>3, <2>5, <2>6, <2>7 DEF Handler, Next, JobStep
<1> QED BY <1>2, <1>3, <1>4

\* A group with members keeps an administrator: the last one cannot leave,
\* none can be removed, and nobody joins a group that is empty.
LEMMA AdminStays ==
  ASSUME TypeOK, FlaggedTakePart, Founded, AdminRemains, [Handler]_vars
  PROVE  Founded' /\ AdminRemains'
<1> USE DEF Founded, AdminRemains, Exists
<1>1. ASSUME NEW u \in Users, NEW g \in Groups, CreateGroup(u, g)
      PROVE  Founded' /\ AdminRemains'
  BY <1>1 DEF CreateGroup, TypeOK
<1>2. ASSUME NEW u \in Users, NEW g \in Groups, JoinGroup(u, g)
      PROVE  Founded' /\ AdminRemains'
  BY <1>2 DEF JoinGroup, TypeOK, Idle
<1>3. ASSUME NEW u \in Users, NEW g \in Groups, Depart(u, g), job = Idle, u \in members[g],
             u \in admins[g] => Cardinality(admins[g]) > 1
      PROVE  Founded' /\ AdminRemains'
  <2>1. admins[g] \ {u} # {}
    <3>1. CASE u \in admins[g]
      <4>1. Cardinality({u}) = 1
        BY FS_Singleton
      <4>2. admins[g] # {u}
        <5> SUFFICES ASSUME admins[g] = {u} PROVE FALSE
          OBVIOUS
        <5> QED BY <1>3, <3>1, <4>1
      <4> QED BY <3>1, <4>2
    <3>2. CASE u \notin admins[g]
      BY <1>3, <3>2
    <3> QED BY <3>1, <3>2
  <2>2. /\ admins'[g] = admins[g] \ {u} /\ members'[g] = members[g] \ {u}
        /\ \A h \in Groups \ {g} : admins'[h] = admins[h] /\ members'[h] = members[h]
        /\ admins[g] \subseteq members[g]
        /\ links' = links \cup {g} /\ creator' = creator /\ job'.op = "depart"
    BY <1>3 DEF Depart, TypeOK
  <2> QED BY <2>1, <2>2 DEF TypeOK
<1>4. ASSUME NEW u \in Users, NEW g \in Groups,
             PostLink(u, g) \/ RegenerateInviteToken(u, g) \/ ToggleJoiningAllowed(u, g)
      PROVE  Founded' /\ AdminRemains'
  BY <1>4 DEF PostLink, RegenerateInviteToken, ToggleJoiningAllowed, TypeOK, Idle
<1>5. ASSUME NEW u \in Users, NEW v \in Users, NEW g \in Groups, PromoteMember(u, v, g)
      PROVE  Founded' /\ AdminRemains'
  BY <1>5 DEF PromoteMember, TypeOK, Idle
<1>6. CASE Running
  BY <1>6 DEF Running, CreateRun, PlaceBid, HandOver, CompleteRun, CancelRun, EndRun
<1>7. CASE FounderJoins
  <2>1. job \in Founding
    BY <1>7 DEF FounderJoins, TypeOK, Idle, Departure
  <2>2. /\ \A g \in Groups \ {job.group} : members'[g] = members[g] /\ admins'[g] = admins[g]
        /\ job.user \in members'[job.group] /\ job.user \in admins'[job.group]
        /\ UNCHANGED <<creator, links>> /\ job'.op = "idle"
        /\ Exists(job.group)
    BY <1>7, <2>1 DEF FounderJoins, TypeOK, Founding, Idle
  <2> QED BY <2>1, <2>2 DEF Founding, TypeOK
<1>8. CASE NextRun
  <2>1. job'.op = "depart" /\ UNCHANGED groupVars
    BY <1>8 DEF NextRun, TypeOK, Idle, Founding, Departure
  <2> QED BY <2>1
<1>9. CASE DeleteBid \/ Departed \/ Crash \/ UNCHANGED vars
  BY <1>9 DEF DeleteBid, Departed, Crash, vars, Idle
<1>10. CASE Membership
  <2>1. PICK u \in Users, g \in Groups :
          \/ CreateGroup(u, g) \/ JoinGroup(u, g) \/ LeaveGroup(u, g)
          \/ PostLink(u, g) \/ RegenerateInviteToken(u, g)
          \/ ToggleJoiningAllowed(u, g)
          \/ \E v \in Users : PromoteMember(u, v, g) \/ RemoveMember(u, v, g)
    BY <1>10 DEF Membership
  <2> HIDE DEF Founded, AdminRemains
  <2>2. CASE LeaveGroup(u, g)
    BY <1>3, <2>2 DEF LeaveGroup, MayLeave
  <2>3. ASSUME NEW v \in Users, RemoveMember(u, v, g)
        PROVE  Founded' /\ AdminRemains'
    BY <1>3, <2>3 DEF RemoveMember
  <2> QED BY <1>1, <1>2, <1>4, <1>5, <2>1, <2>2, <2>3
<1> QED
  BY <1>6, <1>7, <1>8, <1>9, <1>10 DEF Handler, Next, JobStep

\* The rows a departure has flagged exist, and so do the runs of all rows.
LEMMA RowsStay ==
  ASSUME TypeOK, FlaggedTakePart, RunsCreated, [Handler]_vars
  PROVE  FlaggedTakePart' /\ RunsCreated'
<1> USE DEF FlaggedTakePart, RunsCreated
<1>1. CASE Membership
  <2>1. UNCHANGED <<takes, groupOf>>
    BY <1>1 DEF Membership, CreateGroup, JoinGroup, LeaveGroup, RemoveMember, Depart, PostLink,
                RegenerateInviteToken, ToggleJoiningAllowed, PromoteMember
  <2>2. job'.op = "depart" => job'.flagged = {}
    BY <1>1 DEF Membership, CreateGroup, JoinGroup, LeaveGroup, RemoveMember, Depart, PostLink,
                RegenerateInviteToken, ToggleJoiningAllowed, PromoteMember, Idle
  <2> QED BY <2>1, <2>2
<1>2. CASE Running
  <2>1. PICK u \in Users, r \in Runs :
          \/ \E g \in Groups : CreateRun(u, g, r)
          \/ PlaceBid(u, r) \/ CompleteRun(u, r)
          \/ groupOf[r] # None /\ CancelRun(u, r)
          \/ \E v \in Users : HandOver(u, v, r)
    BY <1>2 DEF Running
  <2>2. job' = Idle
    BY <2>1 DEF CreateRun, PlaceBid, HandOver, CompleteRun, CancelRun, EndRun
  <2>3. ASSUME NEW g \in Groups, CreateRun(u, g, r)
        PROVE  RunsCreated'
    BY <2>3 DEF CreateRun, TypeOK, Rows
  <2>4. ASSUME PlaceBid(u, r)
        PROVE  RunsCreated'
    BY <2>4 DEF PlaceBid, TypeOK
  <2>5. ASSUME UNCHANGED <<takes, groupOf>>
        PROVE  RunsCreated'
    BY <2>5
  <2> HIDE DEF FlaggedTakePart, RunsCreated
  <2>6. ASSUME NEW v \in Users, HandOver(u, v, r)
        PROVE  RunsCreated'
    BY <2>5, <2>6 DEF HandOver
  <2>7. ASSUME CompleteRun(u, r) \/ CancelRun(u, r)
        PROVE  RunsCreated'
    BY <2>5, <2>7 DEF CompleteRun, CancelRun, EndRun
  <2>8. RunsCreated'
    BY <2>1, <2>3, <2>4, <2>6, <2>7
  <2> QED BY <2>2, <2>8 DEF Idle, FlaggedTakePart
<1>3. CASE NextRun
  <2>1. job \in Departure
    BY <1>3 DEF NextRun, TypeOK, Idle, Founding
  <2>2. PICK r \in job.todo :
          job' = [job EXCEPT
                    !.todo = @ \ {r}, !.run = r, !.cancelled = Cancelled,
                    !.flagged = IF <<job.user, r>> \in takes THEN @ \cup {r} ELSE @]
    BY <1>3 DEF NextRun
  <2>3. /\ job'.user = job.user
        /\ job'.flagged = IF <<job.user, r>> \in takes THEN job.flagged \cup {r} ELSE job.flagged
        /\ UNCHANGED <<takes, groupOf>> /\ job.op = "depart"
    BY <1>3, <2>1, <2>2 DEF NextRun, Departure
  <2> QED BY <2>3
<1>4. CASE FounderJoins \/ DeleteBid \/ Departed \/ Crash \/ UNCHANGED vars
  BY <1>4 DEF FounderJoins, DeleteBid, Departed, Crash, vars, Idle
<1> QED BY <1>1, <1>2, <1>3, <1>4 DEF Handler, Next, JobStep

LEMMA InvStep == GInv /\ [Handler]_vars => GInv'
<1> SUFFICES ASSUME GInv, [Handler]_vars PROVE GInv'
  OBVIOUS
<1>1. LimitsHeld'
  BY MembersLimited, RunsLimited DEF GInv, LimitsHeld
<1> QED BY <1>1, TypeOKStep, AdminStays, RowsStay DEF GInv

LEMMA Invariant == CrashSpec => []GInv
<1>1. [Next \/ Crash]_vars => [Handler]_vars
  BY DEF Handler
<1> QED BY <1>1, InvInit, InvStep, PTL DEF CrashSpec

\* Types: whichever handlers are cut short, administrators are members,
\* leaders and the removed are participants, and bids are counted rightly.
THEOREM TypesHold == CrashSpec => []TypeOK
<1>1. GInv => TypeOK
  BY DEF GInv
<1> QED BY Invariant, <1>1, PTL

\* MAX_MEMBERS_PER_GROUP and MAX_ACTIVE_RUNS_PER_GROUP are never exceeded,
\* by any sequence of joining, leaving, creating and ending.
THEOREM LimitsAreHeld == CrashSpec => []LimitsHeld
<1>1. GInv => LimitsHeld
  BY DEF GInv
<1> QED BY Invariant, <1>1, PTL

\* A group with members has an administrator, even when foundings and
\* departures are cut short.
THEOREM AdministratorRemains == CrashSpec => []AdminRemains
<1>1. GInv => AdminRemains
  BY DEF GInv
<1> QED BY Invariant, <1>1, PTL
-----------------------------------------------------------------------------
(* Departures that are not cut short. *)

\* What a departure has done and what it has yet to do: every run of the
\* departed is ahead or flagged; those that are behind have no bids of hers
\* while they are open, and if she leads them they are to be cancelled.
Ahead == job.todo \cup {job.run}

DepartureIsOn ==
  job.op = "depart" =>
    /\ job.user \notin members[job.group]
    /\ job.todo \subseteq RunsOf(job.group)
    /\ job.run \notin job.todo
    /\ job.run # None => job.run \in RunsOf(job.group)
    /\ job.flagged \subseteq RunsOf(job.group)
    /\ job.cancelled \subseteq RunsOf(job.group)
    /\ \A r \in RunsOf(job.group) :
         <<job.user, r>> \in takes =>
           /\ r \in job.todo \cup job.flagged
           /\ r \notin Ahead /\ IsActive(r) => bids[<<job.user, r>>] = 0
    /\ \A r \in RunsOf(job.group) :
         <<job.user, r>> \in leads /\ r \notin Ahead /\ IsActive(r) => r \in job.cancelled
    /\ \A r \in job.cancelled :
         /\ <<job.user, r>> \in leads /\ state[r] # "completed"
         /\ r \notin Ahead

\* Whoever is gone, and is not just leaving, is out.
OthersAreOut ==
  \A u \in Users, r \in Runs :
    Gone(u, r) /\ ~Leaving(u, r) =>
      /\ <<u, r>> \in removed
      /\ IsActive(r) => bids[<<u, r>>] = 0

DInv == GInv /\ DepartureIsOn /\ OthersAreOut

LEMMA DInvInit == Init => DInv
BY InvInit DEF DInv, DepartureIsOn, OthersAreOut, Init, Gone, Idle

\* The bids of a run that a departure has looked at are gone.
LEMMA RunIsDone ==
  ASSUME TypeOK, DepartureIsOn, job \in Departure, ~BidsLeft,
         NEW r \in RunsOf(job.group), <<job.user, r>> \in takes, r \notin job.todo, IsActive(r)
  PROVE  bids[<<job.user, r>>] = 0
<1>1. r \in Runs /\ <<job.user, r>> \in Rows
  BY DEF RunsOf, Departure, Rows
<1>2. bids[<<job.user, r>>] \in Nat
  BY <1>1 DEF TypeOK
<1>3. CASE r = job.run
  BY <1>2, <1>3 DEF DepartureIsOn, BidsLeft, Row, Departure
<1>4. CASE r # job.run
  BY <1>4 DEF DepartureIsOn, Ahead, Departure
<1> QED BY <1>3, <1>4

LEMMA LeadersAreCancelled ==
  ASSUME TypeOK, DepartureIsOn, job \in Departure
  PROVE  /\ Cancelled \subseteq RunsOf(job.group)
         /\ \A r \in Cancelled : <<job.user, r>> \in leads /\ state[r] # "completed"
         /\ \A r \in Cancelled : r \notin job.todo
         /\ \A r \in RunsOf(job.group) \ job.todo :
              <<job.user, r>> \in leads /\ IsActive(r) => r \in Cancelled
BY DEF Cancelled, DepartureIsOn, Departure, Ahead, IsActive, RunsOf

\* Between handlers nobody is just leaving.
LEMMA NobodyLeaves ==
  ASSUME job.op # "depart", NEW u \in Users, NEW r \in Runs
  PROVE  ~Leaving(u, r)
BY DEF Leaving

\* The beginning of a departure.
LEMMA DepartKeeps ==
  ASSUME DInv, NEW u \in Users, NEW g \in Groups, job = Idle, u \in members[g], Depart(u, g)
  PROVE  DepartureIsOn' /\ OthersAreOut'
<1>1. /\ job' = [op |-> "depart", user |-> u, group |-> g, todo |-> RunsOf(g),
                 run |-> None, flagged |-> {}, cancelled |-> {}]
      /\ members' = [members EXCEPT ![g] = @ \ {u}]
      /\ UNCHANGED <<groupOf, state, takes, leads, removed, bids>>
  BY DEF Depart
<1>2. TypeOK /\ OthersAreOut /\ RunsCreated
  BY DEF DInv, GInv
<1>3. RunsOf(g) \subseteq Runs /\ None \notin Runs
  BY DEF RunsOf
<1>4. DepartureIsOn'
  <2>1. u \notin members'[g]
    BY <1>1, <1>2 DEF TypeOK
  <2>2. RunsOf(g)' = RunsOf(g)
    BY <1>1 DEF RunsOf
  <2> QED BY <1>1, <1>3, <2>1, <2>2 DEF DepartureIsOn, Ahead, RunsOf
<1>5. OthersAreOut'
  <2> SUFFICES ASSUME NEW v \in Users, NEW r \in Runs,
                      (Gone(v, r) /\ ~Leaving(v, r))'
               PROVE  (<<v, r>> \in removed /\ (IsActive(r) => bids[<<v, r>>] = 0))'
    BY DEF OthersAreOut
  <2>1. <<v, r>> \in takes /\ groupOf[r] \in Groups
    BY <1>1, <1>2 DEF Gone, RunsCreated
  <2>2. ~(v = u /\ groupOf[r] = g)
    BY <1>1, <2>1 DEF Leaving
  <2>3. v \notin members[groupOf[r]]
    BY <1>1, <1>2, <2>1, <2>2 DEF Gone, TypeOK
  <2>4. ~Leaving(v, r)
    BY DEF Leaving, Idle
  <2> QED BY <1>1, <1>2, <2>1, <2>3, <2>4 DEF OthersAreOut, Gone, IsActive
<1> QED BY <1>4, <1>5

\* The other operations on a group, and those on a run, add nobody who is
\* gone: bids are the members'.
LEMMA OthersKeep ==
  ASSUME DInv, [Next]_vars, job = Idle \/ job.op = "found", job' = Idle \/ job'.op = "found"
  PROVE  DepartureIsOn' /\ OthersAreOut'
<1>1. TypeOK /\ OthersAreOut /\ RunsCreated /\ Founded
  BY DEF DInv, GInv
<1>2. job.op # "depart" /\ job'.op # "depart"
  BY DEF Idle
<1>3. DepartureIsOn'
  BY <1>2 DEF DepartureIsOn
<1>4. \A v \in Users, r \in Runs : ~Leaving(v, r)
  BY <1>2 DEF Leaving
<1>5. \A v \in Users, r \in Runs :
        Gone(v, r) => <<v, r>> \in removed /\ (IsActive(r) => bids[<<v, r>>] = 0)
  BY <1>1, <1>4 DEF OthersAreOut
<1> SUFFICES ASSUME NEW v \in Users, NEW r \in Runs, <<v, r>> \in takes',
                    v \notin members'[groupOf'[r]]
             PROVE  <<v, r>> \in removed' /\ (IsActive(r)' => bids'[<<v, r>>] = 0)
  BY <1>3 DEF OthersAreOut, Gone
<1> DEFINE Out == <<v, r>> \in removed' /\ (IsActive(r)' => bids'[<<v, r>>] = 0)
<1> DEFINE Still == /\ <<v, r>> \in takes /\ groupOf[r] = groupOf'[r]
                    /\ v \notin members[groupOf[r]]
                    /\ <<v, r>> \in removed' <=> <<v, r>> \in removed
                    /\ bids'[<<v, r>>] = bids[<<v, r>>]
                    /\ IsActive(r)' => IsActive(r)
<1>6. Still => Out
  BY <1>5 DEF Gone
<1> HIDE DEF Out
<1>7. CASE Membership
  <2>1. UNCHANGED runVars /\ \A g \in Groups : members[g] \subseteq members'[g]
    BY <1>1, <1>2, <1>7 DEF Membership, CreateGroup, JoinGroup, LeaveGroup, RemoveMember, Depart,
       PostLink, RegenerateInviteToken, ToggleJoiningAllowed, PromoteMember, TypeOK
  <2>2. groupOf[r] \in Groups
    BY <1>1, <2>1 DEF RunsCreated
  <2> QED BY <1>6, <2>1, <2>2 DEF IsActive, Out
<1>8. CASE FounderJoins
  <2>1. UNCHANGED runVars /\ \A g \in Groups : members[g] \subseteq members'[g]
    BY <1>1, <1>8 DEF FounderJoins, TypeOK
  <2>2. groupOf[r] \in Groups
    BY <1>1, <2>1 DEF RunsCreated
  <2> QED BY <1>6, <2>1, <2>2 DEF IsActive, Out
<1>9. ASSUME NEW u \in Users, NEW g \in Groups, NEW s \in Runs, CreateRun(u, g, s)
      PROVE  Out
  <2>1. /\ groupOf' = [groupOf EXCEPT ![s] = g] /\ takes' = takes \cup {<<u, s>>}
        /\ groupOf[s] = None /\ u \in members[g]
        /\ UNCHANGED <<members, state, removed, bids>>
    BY <1>9 DEF CreateRun
  <2>2. r # s
    BY <1>1, <2>1 DEF RunsCreated, TypeOK
  <2>3. <<v, r>> \in takes /\ groupOf'[r] = groupOf[r]
    BY <1>1, <2>1, <2>2 DEF TypeOK
  <2> QED BY <1>6, <2>1, <2>3 DEF IsActive, Out
<1>10. ASSUME NEW u \in Users, NEW s \in Runs, PlaceBid(u, s)
       PROVE  Out
  <2>1. /\ takes' = takes \cup {<<u, s>>} /\ u \in members[groupOf[s]]
        /\ bids' = [bids EXCEPT ![<<u, s>>] = @ + 1]
        /\ UNCHANGED <<members, groupOf, state, removed>>
    BY <1>10 DEF PlaceBid
  <2>2. <<v, r>> # <<u, s>>
    BY <2>1
  <2>3. <<v, r>> \in takes /\ bids'[<<v, r>>] = bids[<<v, r>>]
    BY <1>1, <2>1, <2>2 DEF TypeOK, Rows
  <2> QED BY <1>6, <2>1, <2>3 DEF IsActive, Out
<1>11. ASSUME NEW u \in Users, NEW s \in Runs, CompleteRun(u, s) \/ CancelRun(u, s)
       PROVE  Out
  <2>1. /\ UNCHANGED <<members, groupOf, takes, removed, bids>>
        /\ IsActive(r)' => IsActive(r)
    BY <1>1, <1>11 DEF CompleteRun, CancelRun, EndRun, IsActive, TypeOK
  <2> QED BY <1>6, <2>1 DEF Out
<1>12. ASSUME UNCHANGED <<members, groupOf, takes, removed, bids, state>>
       PROVE  Out
  BY <1>6, <1>12 DEF IsActive, Out
<1>13. CASE Running
  BY <1>9, <1>10, <1>11, <1>12, <1>13 DEF Running, HandOver, Out
<1>14. CASE UNCHANGED vars
  BY <1>12, <1>14 DEF vars, Out
<1>15. ~NextRun /\ ~DeleteBid /\ ~Departed
  BY <1>2 DEF NextRun, DeleteBid, Departed
<1> QED BY <1>7, <1>8, <1>13, <1>14, <1>15 DEF Next, JobStep

\* The fields of a departure after its next run.
LEMMA NextRunFields ==
  ASSUME TypeOK, NextRun
  PROVE  /\ job \in Departure /\ job.op = "depart"
         /\ ~BidsLeft
         /\ UNCHANGED <<groupVars, runVars>>
         /\ \E r \in job.todo :
              /\ job'.op = "depart" /\ job'.user = job.user /\ job'.group = job.group
              /\ job'.todo = job.todo \ {r} /\ job'.run = r /\ job'.cancelled = Cancelled
              /\ job'.flagged = IF <<job.user, r>> \in takes
                               THEN job.flagged \cup {r} ELSE job.flagged
<1>1. job \in Departure /\ job.op = "depart"
  BY DEF NextRun, TypeOK, Idle, Founding
<1>2. PICK r \in job.todo :
        job' = [job EXCEPT
                  !.todo = @ \ {r}, !.run = r, !.cancelled = Cancelled,
                  !.flagged = IF <<job.user, r>> \in takes THEN @ \cup {r} ELSE @]
  BY DEF NextRun
<1>3. job = [op |-> "depart", user |-> job.user, group |-> job.group, todo |-> job.todo,
             run |-> job.run, flagged |-> job.flagged, cancelled |-> job.cancelled]
  BY <1>1 DEF Departure
<1>4. /\ job'.op = "depart" /\ job'.user = job.user /\ job'.group = job.group
      /\ job'.todo = job.todo \ {r} /\ job'.run = r /\ job'.cancelled = Cancelled
  BY <1>1, <1>2, <1>3
<1>5. job'.flagged = IF <<job.user, r>> \in takes THEN job.flagged \cup {r} ELSE job.flagged
  BY <1>1, <1>2, <1>3
<1> QED BY <1>1, <1>4, <1>5 DEF NextRun

LEMMA NextRunKeeps ==
  ASSUME DInv, NextRun
  PROVE  DepartureIsOn' /\ OthersAreOut'
<1>1. TypeOK /\ DepartureIsOn /\ OthersAreOut
  BY DEF DInv, GInv
<1>2. job \in Departure /\ job.op = "depart" /\ ~BidsLeft /\ UNCHANGED <<groupVars, runVars>>
  BY <1>1, NextRunFields
<1>4. PICK r \in job.todo :
        /\ job'.op = "depart" /\ job'.user = job.user /\ job'.group = job.group
        /\ job'.todo = job.todo \ {r} /\ job'.run = r /\ job'.cancelled = Cancelled
        /\ job'.flagged = IF <<job.user, r>> \in takes THEN job.flagged \cup {r} ELSE job.flagged
  BY <1>1, NextRunFields
<1> DEFINE g == job.group
<1>5. RunsOf(g)' = RunsOf(g) /\ \A s \in Runs : IsActive(s)' <=> IsActive(s)
  BY <1>2, <1>4 DEF RunsOf, IsActive
<1>6. Ahead' = job.todo
  BY <1>4 DEF Ahead
<1>7. \A s \in RunsOf(g) : <<job.user, s>> \in takes /\ s \notin job.todo /\ IsActive(s)
        => bids[<<job.user, s>>] = 0
  BY <1>1, <1>2, RunIsDone
<1>8. /\ Cancelled \subseteq RunsOf(g)
      /\ \A s \in Cancelled : <<job.user, s>> \in leads /\ state[s] # "completed"
      /\ \A s \in Cancelled : s \notin job.todo
      /\ \A s \in RunsOf(g) \ job.todo :
           <<job.user, s>> \in leads /\ IsActive(s) => s \in Cancelled
  BY <1>1, <1>2, LeadersAreCancelled
<1>9. /\ job.user \notin members[g] /\ job.todo \subseteq RunsOf(g)
      /\ job.flagged \subseteq RunsOf(g)
      /\ \A s \in RunsOf(g) : <<job.user, s>> \in takes => s \in job.todo \cup job.flagged
  BY <1>1, <1>2 DEF DepartureIsOn
<1>10. RunsOf(g) \subseteq Runs
  BY DEF RunsOf
<1>11. DepartureIsOn'
  <2> SUFFICES
        /\ job.user \notin members[g]
        /\ job.todo \ {r} \subseteq RunsOf(g)
        /\ r \notin job.todo \ {r} /\ r \in RunsOf(g)
        /\ job'.flagged \subseteq RunsOf(g)
        /\ Cancelled \subseteq RunsOf(g)
        /\ \A s \in RunsOf(g) :
             <<job.user, s>> \in takes =>
               /\ s \in (job.todo \ {r}) \cup job'.flagged
               /\ s \notin job.todo /\ IsActive(s) => bids[<<job.user, s>>] = 0
        /\ \A s \in RunsOf(g) :
             <<job.user, s>> \in leads /\ s \notin job.todo /\ IsActive(s) => s \in Cancelled
        /\ \A s \in Cancelled :
             <<job.user, s>> \in leads /\ state[s] # "completed" /\ s \notin job.todo
    BY <1>2, <1>4, <1>5, <1>6, <1>8, <1>10 DEF DepartureIsOn
  <2>1. job'.flagged \subseteq RunsOf(g)
        /\ \A s \in RunsOf(g) : <<job.user, s>> \in takes => s \in (job.todo \ {r}) \cup job'.flagged
    BY <1>4, <1>9
  <2> QED BY <1>7, <1>8, <1>9, <2>1
<1>12. OthersAreOut'
  <2> SUFFICES ASSUME NEW v \in Users, NEW s \in Runs, (Gone(v, s) /\ ~Leaving(v, s))'
               PROVE  (<<v, s>> \in removed /\ (IsActive(s) => bids[<<v, s>>] = 0))'
    BY DEF OthersAreOut
  <2>1. Gone(v, s) /\ ~Leaving(v, s)
    BY <1>2, <1>4 DEF Gone, Leaving
  <2> QED BY <1>1, <1>2, <1>5, <2>1 DEF OthersAreOut
<1> QED BY <1>11, <1>12

LEMMA DeleteBidKeeps ==
  ASSUME DInv, DeleteBid
  PROVE  DepartureIsOn' /\ OthersAreOut'
<1>1. TypeOK /\ DepartureIsOn /\ OthersAreOut
  BY DEF DInv, GInv
<1>2. /\ job \in Departure /\ job.op = "depart" /\ BidsLeft
      /\ bids' = [bids EXCEPT ![Row] = @ - 1]
      /\ Flush(job.cancelled)
      /\ UNCHANGED <<groupVars, groupOf, takes, leads, job>>
  BY <1>1 DEF DeleteBid, TypeOK, Idle, Founding
<1> DEFINE g == job.group
<1>3. RunsOf(g)' = RunsOf(g) /\ RunsOf(g) \subseteq Runs
  BY <1>2 DEF RunsOf
<1>4. \A s \in Runs : /\ IsActive(s)' => IsActive(s)
                      /\ state'[s] = IF s \in job.cancelled THEN "cancelled" ELSE state[s]
  BY <1>1, <1>2 DEF Flush, IsActive, TypeOK
<1>5. Row \in Rows /\ job.run \in Ahead
  BY <1>1, <1>2 DEF BidsLeft, Departure, Row, Rows, Ahead
<1>6. \A k \in Rows : k # Row => bids'[k] = bids[k]
  BY <1>1, <1>2, <1>5 DEF TypeOK
<1>7. \A k \in removed : k \in removed'
  BY <1>2 DEF Flush
<1>8. DepartureIsOn'
  <2>1. \A s \in Runs : s \notin Ahead => <<job.user, s>> # Row
    BY <1>5 DEF Row
  <2>2. \A s \in Runs : <<job.user, s>> \in Rows
    BY <1>2 DEF Departure, Rows
  <2>3. Ahead' = Ahead
    BY <1>2 DEF Ahead
  <2>4. \A s \in RunsOf(g) : <<job.user, s>> \in takes /\ s \notin Ahead /\ IsActive(s)'
          => bids'[<<job.user, s>>] = 0
    BY <1>1, <1>2, <1>3, <1>4, <1>6, <2>1, <2>2 DEF DepartureIsOn
  <2> QED BY <1>1, <1>2, <1>3, <1>4, <2>3, <2>4 DEF DepartureIsOn
<1>9. OthersAreOut'
  <2> SUFFICES ASSUME NEW v \in Users, NEW r \in Runs, (Gone(v, r) /\ ~Leaving(v, r))'
               PROVE  (<<v, r>> \in removed /\ (IsActive(r) => bids[<<v, r>>] = 0))'
    BY DEF OthersAreOut
  <2>1. Gone(v, r) /\ ~Leaving(v, r)
    BY <1>2 DEF Gone, Leaving
  <2>2. <<v, r>> # Row
    <3>1. Leaving(job.user, job.run) \/ job.run \notin Runs
      BY <1>1, <1>2 DEF Leaving, BidsLeft, RunsOf, DepartureIsOn, DInv, GInv, FlaggedTakePart
    <3> QED BY <2>1, <3>1 DEF Row
  <2>3. bids'[<<v, r>>] = bids[<<v, r>>]
    BY <1>6, <2>2 DEF Rows
  <2> QED BY <1>1, <1>4, <1>7, <2>1, <2>3 DEF OthersAreOut
<1> QED BY <1>8, <1>9

LEMMA DepartedKeeps ==
  ASSUME DInv, Departed
  PROVE  DepartureIsOn' /\ OthersAreOut'
<1>1. TypeOK /\ DepartureIsOn /\ OthersAreOut
  BY DEF DInv, GInv
<1>2. /\ job \in Departure /\ job.op = "depart" /\ ~BidsLeft /\ job.todo = {}
      /\ Flush(Cancelled) /\ job' = Idle
      /\ UNCHANGED <<groupVars, groupOf, takes, leads, bids>>
  BY <1>1 DEF Departed, TypeOK, Idle, Founding
<1>3. DepartureIsOn'
  BY <1>2 DEF DepartureIsOn, Idle
<1>4. \A s \in Runs : IsActive(s)' => IsActive(s)
  BY <1>1, <1>2 DEF Flush, IsActive, TypeOK
<1> SUFFICES ASSUME NEW v \in Users, NEW r \in Runs, Gone(v, r)'
             PROVE  (<<v, r>> \in removed /\ (IsActive(r) => bids[<<v, r>>] = 0))'
  BY <1>3 DEF OthersAreOut
<1>5. Gone(v, r)
  BY <1>2 DEF Gone
<1>6. CASE Leaving(v, r)
  <2>1. r \in RunsOf(job.group) /\ v = job.user /\ <<job.user, r>> \in takes
    BY <1>6 DEF Leaving, RunsOf
  <2>2. r \in job.flagged
    BY <1>1, <1>2, <2>1 DEF DepartureIsOn
  <2>3. IsActive(r) => bids[<<job.user, r>>] = 0
    BY <1>1, <1>2, <2>1, RunIsDone
  <2> QED BY <1>2, <1>4, <2>1, <2>2, <2>3 DEF Flush
<1>7. CASE ~Leaving(v, r)
  BY <1>1, <1>2, <1>4, <1>5, <1>7 DEF OthersAreOut, Flush
<1> QED BY <1>6, <1>7

LEMMA DInvStep == DInv /\ [Next]_vars => DInv'
<1> SUFFICES ASSUME DInv, [Next]_vars PROVE DInv'
  OBVIOUS
<1>1. GInv'
  BY InvStep DEF DInv, Handler
<1>2. CASE \E u \in Users, g \in Groups : job = Idle /\ u \in members[g] /\ Depart(u, g)
  BY <1>1, <1>2, DepartKeeps DEF DInv
<1>3. CASE (job = Idle \/ job.op = "found") /\ (job' = Idle \/ job'.op = "found")
  BY <1>1, <1>3, OthersKeep DEF DInv
<1>4. CASE NextRun \/ DeleteBid \/ Departed
  BY <1>1, <1>4, NextRunKeeps, DeleteBidKeeps, DepartedKeeps DEF DInv
<1>5. CASE UNCHANGED vars
  <2>1. DepartureIsOn' /\ OthersAreOut'
    BY <1>5 DEF DInv, vars, DepartureIsOn, OthersAreOut, Gone, Leaving, IsActive, RunsOf, Ahead
  <2> QED BY <1>1, <2>1 DEF DInv
<1>6. CASE Membership
  <2>1. job = Idle
    BY <1>6 DEF Membership, CreateGroup, JoinGroup, LeaveGroup, RemoveMember, PostLink,
                RegenerateInviteToken, ToggleJoiningAllowed, PromoteMember
  <2>2. \/ \E u \in Users, g \in Groups : u \in members[g] /\ Depart(u, g)
        \/ job' = Idle \/ job'.op = "found"
    BY <1>6, <2>1 DEF Membership, CreateGroup, JoinGroup, LeaveGroup, RemoveMember, MayLeave,
                PostLink, RegenerateInviteToken, ToggleJoiningAllowed, PromoteMember
  <2> QED BY <1>2, <1>3, <2>1, <2>2
<1>7. CASE Running \/ FounderJoins
  <2>1. (job = Idle \/ job.op = "found") /\ job' = Idle
    BY <1>7 DEF Running, CreateRun, PlaceBid, HandOver, CompleteRun, CancelRun, EndRun,
                FounderJoins
  <2> QED BY <1>3, <2>1
<1> QED BY <1>4, <1>5, <1>6, <1>7 DEF Next, JobStep

LEMMA DepartureInvariant == Spec => []DInv
BY DInvInit, DInvStep, PTL DEF Spec

\* When no departure is cut short, whoever is gone is flagged in every run of
\* the group and has no bid in one that is open, in groups of any size.
THEOREM TheDepartedAreOut == Spec => []DepartedAreOut
<1>1. DInv => DepartedAreOut
  BY DEF DInv, OthersAreOut, DepartedAreOut, Leaving, Idle
<1> QED BY DepartureInvariant, <1>1, PTL
-----------------------------------------------------------------------------
(* A departure looks as if it happened all at once. *)

\* What the promise sees of the rows, the states and the bids.
RemovedSeen == removed \cup {k \in Rows : Leaving(k[1], k[2])}
StateSeen == [r \in Runs |->
                IF \E u \in Users : Leaving(u, r) /\ <<u, r>> \in leads /\ IsActive(r)
                THEN "cancelled" ELSE state[r]]
BidsSeen == [k \in Rows |-> IF Leaving(k[1], k[2]) /\ IsActive(k[2]) THEN 0 ELSE bids[k]]

Seen == <<members, admins, groupOf, StateSeen, takes, leads, RemovedSeen, BidsSeen>>

LEMMA SameRows ==
  ASSUME NEW A \in SUBSET Rows, NEW B \in SUBSET Rows,
         \A u \in Users, r \in Runs : <<u, r>> \in A <=> <<u, r>> \in B
  PROVE  A = B
BY DEF Rows

LEMMA SameOnRows ==
  ASSUME NEW f, NEW h, f = [k \in Rows |-> f[k]], h = [k \in Rows |-> h[k]],
         \A u \in Users, r \in Runs : f[<<u, r>>] = h[<<u, r>>]
  PROVE  f = h
<1>1. ASSUME NEW k \in Rows PROVE f[k] = h[k]
  <2>1. PICK u \in Users, r \in Runs : k = <<u, r>>
    BY DEF Rows
  <2> QED BY <2>1
<1> QED BY <1>1

LEMMA SeenPointwise ==
  ASSUME TypeOK
  PROVE  /\ RemovedSeen \in SUBSET Rows
         /\ \A u \in Users, r \in Runs :
              <<u, r>> \in RemovedSeen <=> <<u, r>> \in removed \/ Leaving(u, r)
         /\ StateSeen = [r \in Runs |-> StateSeen[r]]
         /\ \A r \in Runs :
              StateSeen[r] =
                IF \E u \in Users : Leaving(u, r) /\ <<u, r>> \in leads /\ IsActive(r)
                THEN "cancelled" ELSE state[r]
         /\ BidsSeen = [k \in Rows |-> BidsSeen[k]]
         /\ \A u \in Users, r \in Runs :
              BidsSeen[<<u, r>>] = IF Leaving(u, r) /\ IsActive(r) THEN 0 ELSE bids[<<u, r>>]
<1>1. RemovedSeen \in SUBSET Rows
  BY DEF RemovedSeen, TypeOK
<1>2. ASSUME NEW u \in Users, NEW r \in Runs
      PROVE  /\ <<u, r>> \in RemovedSeen <=> <<u, r>> \in removed \/ Leaving(u, r)
             /\ BidsSeen[<<u, r>>] = IF Leaving(u, r) /\ IsActive(r) THEN 0 ELSE bids[<<u, r>>]
  <2>1. <<u, r>> \in Rows /\ <<u, r>>[1] = u /\ <<u, r>>[2] = r
    BY DEF Rows
  <2> QED BY <2>1 DEF RemovedSeen, BidsSeen
<1>3. /\ StateSeen = [r \in Runs |-> StateSeen[r]]
      /\ \A r \in Runs :
           StateSeen[r] =
             IF \E u \in Users : Leaving(u, r) /\ <<u, r>> \in leads /\ IsActive(r)
             THEN "cancelled" ELSE state[r]
  BY DEF StateSeen
<1>4. BidsSeen = [k \in Rows |-> BidsSeen[k]]
  BY DEF BidsSeen
<1> QED BY <1>1, <1>2, <1>3, <1>4

\* Between handlers what is seen is what is there.
LEMMA SeenAsItIs ==
  ASSUME TypeOK, job.op # "depart"
  PROVE  RemovedSeen = removed /\ StateSeen = state /\ BidsSeen = bids
<1>1. \A u \in Users, r \in Runs : ~Leaving(u, r)
  BY NobodyLeaves
<1>2. RemovedSeen = removed
  <2>1. \A u \in Users, r \in Runs : <<u, r>> \in RemovedSeen <=> <<u, r>> \in removed
    BY <1>1, SeenPointwise
  <2>2. RemovedSeen \in SUBSET Rows /\ removed \in SUBSET Rows
    BY SeenPointwise DEF TypeOK
  <2> QED BY <2>1, <2>2, SameRows
<1>3. StateSeen = state
  <2>1. StateSeen = [r \in Runs |-> StateSeen[r]] /\ \A r \in Runs : StateSeen[r] = state[r]
    BY <1>1, SeenPointwise
  <2> QED BY <2>1 DEF TypeOK
<1>4. BidsSeen = bids
  <2>1. bids = [k \in Rows |-> bids[k]]
    BY DEF TypeOK
  <2> QED BY <1>1, <2>1, SeenPointwise, SameOnRows
<1> QED BY <1>2, <1>3, <1>4

LEMMA PromiseInit == Init => AllAtOnce!Init
<1> SUFFICES ASSUME Init PROVE AllAtOnce!Init
  OBVIOUS
<1>1. GInv
  BY InvInit
<1>2. job.op # "depart"
  BY DEF Init, Idle
<1>3. RemovedSeen = removed /\ StateSeen = state /\ BidsSeen = bids
  BY <1>1, <1>2, SeenAsItIs DEF GInv
<1>4. /\ RemovedSeen = {}
      /\ StateSeen = [r \in Runs |-> "open"]
      /\ BidsSeen = [k \in Rows |-> 0]
  BY <1>3 DEF Init
<1> QED BY <1>4 DEF Init, AllAtOnce!Init, RemovedSeen, StateSeen, BidsSeen, Rows, AllAtOnce!Rows

\* A commit of a departure shows nothing new: what it writes was seen before.
LEMMA Unseen ==
  ASSUME TypeOK, TypeOK',
         \A u \in Users, r \in Runs :
           /\ <<u, r>> \in removed \/ Leaving(u, r) <=> (<<u, r>> \in removed \/ Leaving(u, r))'
           /\ (IF Leaving(u, r) /\ IsActive(r) THEN 0 ELSE bids[<<u, r>>])
              = (IF Leaving(u, r) /\ IsActive(r) THEN 0 ELSE bids[<<u, r>>])',
         \A r \in Runs :
           (IF \E u \in Users : Leaving(u, r) /\ <<u, r>> \in leads /\ IsActive(r)
            THEN "cancelled" ELSE state[r])
           = (IF \E u \in Users : Leaving(u, r) /\ <<u, r>> \in leads /\ IsActive(r)
              THEN "cancelled" ELSE state[r])',
         UNCHANGED <<members, admins, groupOf, takes, leads>>
  PROVE  UNCHANGED Seen
<1>1. RemovedSeen' = RemovedSeen
  <2>1. RemovedSeen \in SUBSET Rows /\ RemovedSeen' \in SUBSET Rows
    BY SeenPointwise DEF RemovedSeen, TypeOK
  <2>2. \A u \in Users, r \in Runs : <<u, r>> \in RemovedSeen' <=> <<u, r>> \in RemovedSeen
    BY DEF RemovedSeen, Rows
  <2> QED BY <2>1, <2>2, SameRows
<1>2. StateSeen' = StateSeen
  BY DEF StateSeen
<1>3. BidsSeen' = BidsSeen
  <2>1. \A u \in Users, r \in Runs : BidsSeen'[<<u, r>>] = BidsSeen[<<u, r>>]
    BY DEF BidsSeen, Rows
  <2>2. BidsSeen = [k \in Rows |-> BidsSeen[k]] /\ BidsSeen' = [k \in Rows |-> BidsSeen'[k]]
    BY DEF BidsSeen
  <2> QED BY <2>1, <2>2, SameOnRows
<1> QED BY <1>1, <1>2, <1>3 DEF Seen

LEMMA NextRunUnseen ==
  ASSUME DInv, TypeOK', NextRun
  PROVE  UNCHANGED Seen
<1>1. TypeOK
  BY DEF DInv, GInv
<1>2. /\ job.op = "depart" /\ job'.op = "depart"
      /\ job'.user = job.user /\ job'.group = job.group
      /\ UNCHANGED <<groupVars, runVars>>
  BY <1>1, NextRunFields
<1>3. \A u \in Users, r \in Runs : Leaving(u, r)' <=> Leaving(u, r)
  BY <1>2 DEF Leaving
<1> QED BY <1>1, <1>2, <1>3, Unseen DEF IsActive

LEMMA DeleteBidUnseen ==
  ASSUME DInv, TypeOK', DeleteBid
  PROVE  UNCHANGED Seen
<1>1. TypeOK /\ DepartureIsOn /\ FlaggedTakePart
  BY DEF DInv, GInv
<1>2. /\ job \in Departure /\ job.op = "depart" /\ BidsLeft
      /\ bids' = [bids EXCEPT ![Row] = @ - 1]
      /\ Flush(job.cancelled)
      /\ UNCHANGED <<groupVars, groupOf, takes, leads, job>>
  BY <1>1 DEF DeleteBid, TypeOK, Idle, Founding
<1>3. \A u \in Users, r \in Runs : Leaving(u, r)' <=> Leaving(u, r)
  BY <1>2 DEF Leaving
<1>4. \A r \in Runs : state'[r] = IF r \in job.cancelled THEN "cancelled" ELSE state[r]
  BY <1>2 DEF Flush
<1>5. \A r \in job.cancelled : /\ Leaving(job.user, r) /\ <<job.user, r>> \in leads
                               /\ state[r] # "completed"
                               /\ IsActive(r) => bids[<<job.user, r>>] = 0
                               /\ r # job.run
  BY <1>1, <1>2 DEF DepartureIsOn, Leaving, RunsOf, TypeOK, Ahead
<1>6. \A u \in Users, r \in Runs :
        (<<u, r>> \in removed \/ Leaving(u, r)) <=> (<<u, r>> \in removed' \/ Leaving(u, r))
  <2>1. \A r \in job.flagged : Leaving(job.user, r)
    BY <1>1, <1>2 DEF DepartureIsOn, FlaggedTakePart, Leaving, RunsOf
  <2> QED BY <1>2, <2>1 DEF Flush
<1>7. \A r \in Runs :
        (IF \E u \in Users : Leaving(u, r) /\ <<u, r>> \in leads /\ IsActive(r)
         THEN "cancelled" ELSE state[r])
        = (IF \E u \in Users : Leaving(u, r) /\ <<u, r>> \in leads /\ IsActive(r)'
           THEN "cancelled" ELSE state'[r])
  <2> SUFFICES ASSUME NEW r \in Runs
               PROVE  (IF \E u \in Users : Leaving(u, r) /\ <<u, r>> \in leads /\ IsActive(r)
                       THEN "cancelled" ELSE state[r])
                      = (IF \E u \in Users : Leaving(u, r) /\ <<u, r>> \in leads /\ IsActive(r)'
                         THEN "cancelled" ELSE state'[r])
    OBVIOUS
  <2>1. CASE r \in job.cancelled
    <3>1. state[r] = "cancelled" \/ IsActive(r)
      BY <1>5, <2>1 DEF IsActive
    <3>2. job.user \in Users
      BY <1>2 DEF Departure
    <3> QED BY <1>4, <1>5, <2>1, <3>1, <3>2 DEF IsActive
  <2>2. CASE r \notin job.cancelled
    BY <1>4, <2>2 DEF IsActive
  <2> QED BY <2>1, <2>2
<1>8. \A u \in Users, r \in Runs :
        (IF Leaving(u, r) /\ IsActive(r) THEN 0 ELSE bids[<<u, r>>])
        = (IF Leaving(u, r) /\ IsActive(r)' THEN 0 ELSE bids'[<<u, r>>])
  <2> SUFFICES ASSUME NEW u \in Users, NEW r \in Runs
               PROVE  (IF Leaving(u, r) /\ IsActive(r) THEN 0 ELSE bids[<<u, r>>])
                      = (IF Leaving(u, r) /\ IsActive(r)' THEN 0 ELSE bids'[<<u, r>>])
    OBVIOUS
  <2>1. <<u, r>> \in Rows
    BY DEF Rows
  <2>2. CASE <<u, r>> = Row
    <3>1. r = job.run /\ u = job.user
      BY <2>2 DEF Row
    <3>2. Leaving(u, r) /\ IsActive(r) /\ r \notin job.cancelled
      BY <1>1, <1>2, <1>5, <3>1 DEF BidsLeft, Leaving, DepartureIsOn, FlaggedTakePart, RunsOf
    <3> QED BY <1>4, <3>2 DEF IsActive
  <2>3. CASE <<u, r>> # Row
    <3>1. bids'[<<u, r>>] = bids[<<u, r>>]
      BY <1>1, <1>2, <2>1, <2>3 DEF TypeOK
    <3>2. CASE r \in job.cancelled
      <4>1. Leaving(u, r) => u = job.user
        BY DEF Leaving
      <4>2. ~IsActive(r)'
        BY <1>4, <3>2 DEF IsActive
      <4> QED BY <1>5, <3>1, <3>2, <4>1, <4>2
    <3>3. CASE r \notin job.cancelled
      BY <1>4, <3>1, <3>3 DEF IsActive
    <3> QED BY <3>2, <3>3
  <2> QED BY <2>2, <2>3
<1> QED BY <1>1, <1>2, <1>3, <1>6, <1>7, <1>8, Unseen

\* The last commit leaves nothing to be seen that is not there.
LEMMA DepartedUnseen ==
  ASSUME DInv, TypeOK', Departed
  PROVE  UNCHANGED Seen
<1>1. TypeOK /\ DepartureIsOn /\ FlaggedTakePart
  BY DEF DInv, GInv
<1>2. /\ job \in Departure /\ job.op = "depart" /\ ~BidsLeft /\ job.todo = {}
      /\ Flush(Cancelled) /\ job'.op = "idle"
      /\ UNCHANGED <<groupVars, groupOf, takes, leads, bids>>
  BY <1>1 DEF Departed, TypeOK, Idle, Founding
<1>3. \A u \in Users, r \in Runs : ~Leaving(u, r)'
  BY <1>2 DEF Leaving
<1>4. \A u \in Users, r \in Runs :
        Leaving(u, r) => /\ u = job.user /\ r \in RunsOf(job.group) /\ <<job.user, r>> \in takes
                         /\ r \notin job.todo /\ r \in job.flagged
  BY <1>1, <1>2 DEF Leaving, RunsOf, DepartureIsOn
<1>5. \A r \in Cancelled : /\ Leaving(job.user, r) /\ <<job.user, r>> \in leads
                           /\ state[r] # "completed"
  BY <1>1, <1>2, LeadersAreCancelled DEF Leaving, RunsOf, TypeOK
<1>6. \A r \in Runs : state'[r] = IF r \in Cancelled THEN "cancelled" ELSE state[r]
  BY <1>2 DEF Flush
<1>7. \A u \in Users, r \in Runs :
        (<<u, r>> \in removed \/ Leaving(u, r)) <=> <<u, r>> \in removed'
  <2>1. \A r \in job.flagged : Leaving(job.user, r)
    BY <1>1, <1>2 DEF DepartureIsOn, FlaggedTakePart, Leaving, RunsOf
  <2>2. \A u \in Users, r \in Runs :
          <<u, r>> \in removed' <=> <<u, r>> \in removed \/ (u = job.user /\ r \in job.flagged)
    BY <1>2 DEF Flush
  <2> QED BY <1>4, <2>1, <2>2
<1>8. \A r \in Runs :
        (IF \E u \in Users : Leaving(u, r) /\ <<u, r>> \in leads /\ IsActive(r)
         THEN "cancelled" ELSE state[r]) = state'[r]
  <2> SUFFICES ASSUME NEW r \in Runs
               PROVE  (IF \E u \in Users : Leaving(u, r) /\ <<u, r>> \in leads /\ IsActive(r)
                       THEN "cancelled" ELSE state[r]) = state'[r]
    OBVIOUS
  <2>1. CASE r \in Cancelled
    <3>1. state[r] = "cancelled" \/ IsActive(r)
      BY <1>5, <2>1 DEF IsActive
    <3>2. job.user \in Users
      BY <1>2 DEF Departure
    <3> QED BY <1>5, <1>6, <2>1, <3>1, <3>2
  <2>2. CASE r \notin Cancelled
    <3>1. ~\E u \in Users : Leaving(u, r) /\ <<u, r>> \in leads /\ IsActive(r)
      BY <1>1, <1>2, <1>4, <2>2, LeadersAreCancelled
    <3> QED BY <1>6, <2>2, <3>1
  <2> QED BY <2>1, <2>2
<1>9. \A u \in Users, r \in Runs :
        (IF Leaving(u, r) /\ IsActive(r) THEN 0 ELSE bids[<<u, r>>]) = bids[<<u, r>>]
  <2>1. ASSUME NEW u \in Users, NEW r \in Runs, Leaving(u, r), IsActive(r)
        PROVE  bids[<<u, r>>] = 0
    BY <1>1, <1>2, <1>4, <2>1, RunIsDone
  <2> QED BY <2>1
<1>10. bids' = bids /\ UNCHANGED <<members, admins, groupOf, takes, leads>>
  BY <1>2
<1> QED BY <1>1, <1>3, <1>7, <1>8, <1>9, <1>10, Unseen

\* The first commit of a departure shows all of it.
LEMMA DepartSeen ==
  ASSUME DInv, TypeOK', NEW u \in Users, NEW g \in Groups, job = Idle, u \in members[g],
         u \in admins[g] => Cardinality(admins[g]) > 1, Depart(u, g)
  PROVE  AllAtOnce!Depart(u, g)
<1>1. TypeOK /\ AdminRemains
  BY DEF DInv, GInv
<1>2. /\ job'.op = "depart" /\ job'.user = u /\ job'.group = g
      /\ members' = [members EXCEPT ![g] = @ \ {u}]
      /\ admins' = [admins EXCEPT ![g] = @ \ {u}]
      /\ UNCHANGED <<groupOf, state, takes, leads, removed, bids>>
  BY DEF Depart
<1>3. RemovedSeen = removed /\ StateSeen = state /\ BidsSeen = bids
  BY <1>1, SeenAsItIs DEF Idle
<1> DEFINE Hers == {r \in Runs : groupOf[r] = g /\ <<u, r>> \in takes}
<1>4. \A v \in Users, r \in Runs : Leaving(v, r)' <=> v = u /\ r \in Hers
  BY <1>2 DEF Leaving
<1>5. \A r \in Runs : IsActive(r)' <=> state[r] = "open"
  BY <1>1, <1>2 DEF IsActive, TypeOK
<1>6. RemovedSeen' = removed \cup ({u} \X Hers)
  <2> DEFINE after == removed \cup ({u} \X Hers)
  <2>1. RemovedSeen' \in SUBSET Rows /\ after \in SUBSET Rows
    BY <1>1, <1>2 DEF RemovedSeen, TypeOK, Rows
  <2>2. \A v \in Users, r \in Runs : <<v, r>> \in RemovedSeen' <=> <<v, r>> \in after
    BY <1>2, <1>4 DEF RemovedSeen, Rows
  <2> HIDE DEF after
  <2>3. RemovedSeen' = after
    BY <2>1, <2>2, SameRows
  <2> QED BY <2>3 DEF after
<1>7. StateSeen' = [r \in Runs |->
                      IF r \in Hers /\ <<u, r>> \in leads /\ state[r] = "open"
                      THEN "cancelled" ELSE state[r]]
  BY <1>2, <1>4, <1>5 DEF StateSeen
<1>8. BidsSeen' = [k \in Rows |-> IF k[1] = u /\ k[2] \in Hers /\ state[k[2]] = "open"
                                  THEN 0 ELSE bids[k]]
  <2>1. \A k \in Rows : k[1] \in Users /\ k[2] \in Runs
    BY DEF Rows
  <2> QED BY <1>2, <1>4, <1>5, <2>1 DEF BidsSeen
<1>9. admins[g] \ {u} # {}
  <2>1. CASE u \in admins[g]
    <3>1. Cardinality({u}) = 1
      BY FS_Singleton
    <3>2. admins[g] # {u}
      <4> SUFFICES ASSUME admins[g] = {u} PROVE FALSE
        OBVIOUS
      <4> QED BY <2>1, <3>1
    <3> QED BY <2>1, <3>2
  <2>2. CASE u \notin admins[g]
    BY <1>1, <2>2 DEF AdminRemains
  <2> QED BY <2>1, <2>2
<1> HIDE DEF Hers
<1>10. AllAtOnce!Hers(u, g) = Hers
  BY DEF AllAtOnce!Hers, Hers
<1> QED BY <1>2, <1>3, <1>6, <1>7, <1>8, <1>9, <1>10
        DEF AllAtOnce!Depart, RemovedSeen, StateSeen, BidsSeen, AllAtOnce!Rows, Rows

LEMMA SeenAfter ==
  ASSUME TypeOK', job'.op # "depart"
  PROVE  RemovedSeen' = removed' /\ StateSeen' = state' /\ BidsSeen' = bids'
<1>1. \A u \in Users, r \in Runs : ~Leaving(u, r)'
  BY DEF Leaving
<1>2. RemovedSeen' = removed'
  <2>1. RemovedSeen' \in SUBSET Rows /\ removed' \in SUBSET Rows
    BY DEF RemovedSeen, TypeOK
  <2>2. \A u \in Users, r \in Runs : <<u, r>> \in RemovedSeen' <=> <<u, r>> \in removed'
    BY <1>1 DEF RemovedSeen, Rows
  <2> QED BY <2>1, <2>2, SameRows
<1>3. StateSeen' = state'
  BY <1>1 DEF StateSeen, TypeOK
<1>4. BidsSeen' = bids'
  <2>1. \A k \in Rows : k[1] \in Users /\ k[2] \in Runs
    BY DEF Rows
  <2> QED BY <1>1, <2>1 DEF BidsSeen, TypeOK
<1> QED BY <1>2, <1>3, <1>4

\* Every other operation is one of the promise, or shows nothing.
LEMMA OthersSeen ==
  ASSUME DInv, TypeOK', job.op # "depart", job'.op # "depart",
         Membership \/ Running \/ FounderJoins
  PROVE  AllAtOnce!Next \/ UNCHANGED Seen
<1>1. TypeOK /\ Founded
  BY DEF DInv, GInv
<1>2. /\ RemovedSeen = removed /\ StateSeen = state /\ BidsSeen = bids
      /\ RemovedSeen' = removed' /\ StateSeen' = state' /\ BidsSeen' = bids'
  BY <1>1, SeenAsItIs, SeenAfter
<1>3. \A r \in Runs : IsActive(r) <=> state[r] = "open"
  BY <1>1 DEF IsActive, TypeOK
<1> USE DEF RemovedSeen, StateSeen, BidsSeen
<1>4. ASSUME NEW u \in Users, NEW g \in Groups, JoinGroup(u, g)
      PROVE  AllAtOnce!Join(u, g)
  <2>1. /\ u \notin members[g] /\ Cardinality(members[g]) < MaxMembers
        /\ members' = [members EXCEPT ![g] = @ \cup {u}]
        /\ UNCHANGED <<admins, groupOf, state, takes, leads, removed, bids>>
    BY <1>4 DEF JoinGroup, MayBecomeMember
  <2>2. AllAtOnce!Cardinality(members[g]) = Cardinality(members[g])
    BY DEF AllAtOnce!Cardinality, Cardinality
  <2> QED BY <1>2, <2>1, <2>2 DEF AllAtOnce!Join
<1>5. ASSUME NEW u \in Users, NEW v \in Users, NEW g \in Groups, PromoteMember(u, v, g)
      PROVE  AllAtOnce!Promote(v, g)
  BY <1>2, <1>5 DEF PromoteMember, AllAtOnce!Promote
<1>6. CASE FounderJoins
  <2>1. job \in Founding
    BY <1>1, <1>6 DEF FounderJoins, TypeOK, Idle, Departure
  <2>2. job.user \in Users /\ job.group \in Groups
    BY <2>1 DEF Founding
  <2>3. members[job.group] = {} /\ admins[job.group] = {}
    BY <1>1, <1>6, <2>2 DEF FounderJoins, Founded, TypeOK
  <2>4. /\ members' = [members EXCEPT ![job.group] = {job.user}]
        /\ admins' = [admins EXCEPT ![job.group] = {job.user}]
        /\ UNCHANGED runVars
    BY <1>6, <2>3 DEF FounderJoins
  <2>5. AllAtOnce!Found(job.user, job.group)
    BY <1>2, <2>3, <2>4 DEF AllAtOnce!Found
  <2> QED BY <2>2, <2>5 DEF AllAtOnce!Next
<1>7. ASSUME NEW u \in Users, NEW g \in Groups, NEW r \in Runs, CreateRun(u, g, r)
      PROVE  AllAtOnce!Create(u, g, r)
  <2>1. ActiveRuns(g) = {s \in Runs : groupOf[s] = g /\ state[s] = "open"}
    BY <1>3 DEF ActiveRuns, RunsOf
  <2>2. /\ groupOf[r] = None /\ u \in members[g]
        /\ Cardinality({s \in Runs : groupOf[s] = g /\ state[s] = "open"}) < MaxActiveRuns
        /\ groupOf' = [groupOf EXCEPT ![r] = g]
        /\ takes' = takes \cup {<<u, r>>}
        /\ leads' = leads \cup {<<u, r>>}
        /\ UNCHANGED <<members, admins, state, removed, bids>>
    BY <1>7, <2>1 DEF CreateRun, WithinRunLimit
  <2>3. AllAtOnce!Cardinality({s \in Runs : groupOf[s] = g /\ state[s] = "open"})
        = Cardinality({s \in Runs : groupOf[s] = g /\ state[s] = "open"})
    BY DEF AllAtOnce!Cardinality, Cardinality
  <2>4. AllAtOnce!Cardinality({s \in Runs : groupOf[s] = g /\ StateSeen[s] = "open"}) < MaxActiveRuns
    BY <1>2, <2>2, <2>3
  <2> QED BY <1>2, <2>2, <2>4 DEF AllAtOnce!Create, AllAtOnce!group
<1>8. ASSUME NEW u \in Users, NEW r \in Runs, PlaceBid(u, r)
      PROVE  AllAtOnce!Bid(u, r)
  BY <1>2, <1>3, <1>8 DEF PlaceBid, AllAtOnce!Bid, AllAtOnce!group
<1>9. ASSUME NEW u \in Users, NEW v \in Users, NEW r \in Runs, HandOver(u, v, r)
      PROVE  AllAtOnce!HandOver(u, v, r)
  BY <1>2, <1>9 DEF HandOver, AllAtOnce!HandOver, AllAtOnce!group
<1>10. ASSUME NEW u \in Users, NEW r \in Runs, CompleteRun(u, r) \/ CancelRun(u, r)
      PROVE  AllAtOnce!End(r)
  BY <1>2, <1>3, <1>10 DEF CompleteRun, CancelRun, EndRun, AllAtOnce!End, AllAtOnce!group
<1>11. CASE UNCHANGED <<members, admins, runVars>>
  BY <1>2, <1>11 DEF Seen
<1> HIDE DEF RemovedSeen, StateSeen, BidsSeen
<1>12. CASE Running
  BY <1>7, <1>8, <1>9, <1>10, <1>12 DEF Running, AllAtOnce!Next
<1>13. CASE Membership
  <2>1. PICK u \in Users, g \in Groups :
          \/ CreateGroup(u, g) \/ JoinGroup(u, g) \/ LeaveGroup(u, g)
          \/ PostLink(u, g) \/ RegenerateInviteToken(u, g)
          \/ ToggleJoiningAllowed(u, g)
          \/ \E v \in Users : PromoteMember(u, v, g) \/ RemoveMember(u, v, g)
    BY <1>13 DEF Membership
  <2>2. CASE JoinGroup(u, g)
    BY <1>4, <2>2 DEF AllAtOnce!Next
  <2>3. CASE \E v \in Users : PromoteMember(u, v, g)
    BY <1>5, <2>3 DEF AllAtOnce!Next
  <2>4. CASE CreateGroup(u, g) \/ PostLink(u, g) \/ RegenerateInviteToken(u, g)
             \/ ToggleJoiningAllowed(u, g)
    BY <1>11, <2>4 DEF CreateGroup, PostLink, RegenerateInviteToken, ToggleJoiningAllowed
  <2>5. ~LeaveGroup(u, g) /\ ~\E v \in Users : RemoveMember(u, v, g)
    BY DEF LeaveGroup, RemoveMember, Depart
  <2> QED BY <2>1, <2>2, <2>3, <2>4, <2>5
<1> QED BY <1>6, <1>12, <1>13

LEMMA PromiseStep ==
  ASSUME DInv, TypeOK', [Next]_vars
  PROVE  AllAtOnce!Next \/ UNCHANGED Seen
<1>1. CASE NextRun \/ DeleteBid \/ Departed
  BY <1>1, NextRunUnseen, DeleteBidUnseen, DepartedUnseen
<1>2. ASSUME NEW u \in Users, NEW g \in Groups, job = Idle, u \in members[g],
             u \in admins[g] => Cardinality(admins[g]) > 1, Depart(u, g)
      PROVE  AllAtOnce!Next
  BY <1>2, DepartSeen DEF AllAtOnce!Next
<1>3. CASE UNCHANGED vars
  <2>1. UNCHANGED <<members, admins, groupOf, state, takes, leads, removed, bids, job>>
    BY <1>3 DEF vars
  <2>2. \A u \in Users, r \in Runs : (Leaving(u, r)' <=> Leaving(u, r)) /\ (IsActive(r)' <=> IsActive(r))
    BY <2>1 DEF Leaving, IsActive
  <2> QED BY <2>1, <2>2, Unseen DEF DInv, GInv
<1>4. CASE Running \/ FounderJoins
  <2>1. job = Idle \/ job.op = "found"
    BY <1>4 DEF Running, CreateRun, PlaceBid, HandOver, CompleteRun, CancelRun, EndRun,
                FounderJoins
  <2>2. job' = Idle
    BY <1>4 DEF Running, CreateRun, PlaceBid, HandOver, CompleteRun, CancelRun, EndRun,
                FounderJoins
  <2>3. job.op # "depart" /\ job'.op # "depart"
    BY <2>1, <2>2 DEF Idle
  <2> QED BY <1>4, <2>3, OthersSeen
<1>5. CASE Membership
  <2>1. job = Idle
    BY <1>5 DEF Membership, CreateGroup, JoinGroup, LeaveGroup, RemoveMember, PostLink,
                RegenerateInviteToken, ToggleJoiningAllowed, PromoteMember
  <2>2. \/ \E u \in Users, g \in Groups :
             /\ u \in members[g] /\ Depart(u, g)
             /\ u \in admins[g] => Cardinality(admins[g]) > 1
        \/ job'.op # "depart"
    BY <1>5, <2>1 DEF Membership, CreateGroup, JoinGroup, LeaveGroup, RemoveMember, MayLeave,
                PostLink, RegenerateInviteToken, ToggleJoiningAllowed, PromoteMember, Idle
  <2>3. CASE job'.op # "depart"
    BY <1>5, <2>1, <2>3, OthersSeen DEF Idle
  <2> QED BY <1>2, <2>1, <2>2, <2>3
<1> QED BY <1>1, <1>3, <1>4, <1>5 DEF Next, JobStep

\* A founding and a departure that are not cut short look as if they had
\* happened in one step, whatever the size of the group and the number of its
\* runs: the services implement GroupPromise.
THEOREM HandlersLookAtomic == Spec => HandlersAreAtomic
<1>1. Init => AllAtOnce!Init
  BY PromiseInit
<1>2. DInv /\ DInv' /\ [Next]_vars => [AllAtOnce!Next]_(AllAtOnce!promise)
  <2> SUFFICES ASSUME DInv, DInv', [Next]_vars
               PROVE  [AllAtOnce!Next]_(AllAtOnce!promise)
    OBVIOUS
  <2>1. AllAtOnce!Next \/ UNCHANGED Seen
    BY PromiseStep DEF DInv, GInv
  <2>2. CASE UNCHANGED Seen
    BY <2>2 DEF Seen, RemovedSeen, StateSeen, BidsSeen, AllAtOnce!promise
  <2> QED BY <2>1, <2>2
<1> QED BY <1>1, <1>2, DepartureInvariant, PTL DEF Spec, HandlersAreAtomic, AllAtOnce!Spec
=============================================================================
