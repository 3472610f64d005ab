----------------------- MODULE RunProperties_proofs -----------------------
(***************************************************************************)
(* For every set of users, products and inputs:                            *)
(*  - while no handler is cut short, RunLifecycle implements RunPromise:   *)
(*    the many commits of the services look, to those who take part, like  *)
(*    the few steps of the promise;                                        *)
(*  - while nobody departs and quantities are whole, the shopping list     *)
(*    asks for what the bids ask for, and what was bought is allotted to   *)
(*    the bids, to the last unit.                                          *)
(***************************************************************************)
EXTENDS RunLifecycle_proofs

(* Why a run on which nothing was bought may be completed at once: no bid   *)
(* has an allocation then.  Inductive: allocations are written only by the  *)
(* handlers that end in the distribution, so there are none before; and     *)
(* whoever leaves a completed run has no bids to erase.                     *)

NothingAllotted == \A k \in HasBid : bids[k].distributed = None

Unallotted ==
  \/ state \in {"planning", "active", "confirmed", "shopping"}
     /\ job.op # "distribute"
  \/ job.op = "complete"

NInv ==
  /\ Unallotted => NothingAllotted
  /\ state = "completed" /\ job.op = "depart" => job.bids = {}

\* Most steps allot nothing and enter no stage in which nothing is allotted.
LEMMA NothingAdded ==
  ASSUME NInv, Unallotted' => Unallotted, job'.op # "depart",
         \A k \in HasBid' :
           \/ k \in HasBid /\ bids'[k].distributed = bids[k].distributed
           \/ bids'[k].distributed = None
  PROVE  NInv'
BY DEF NInv, NothingAllotted

LEMMA NothingClaimed ==
  ASSUME ~Unallotted', job'.op # "depart"
  PROVE  NInv'
BY DEF NInv

LEMMA SameBids ==
  ASSUME NInv, Unallotted' => Unallotted, job'.op # "depart", bids' = bids
  PROVE  NInv'
BY NothingAdded DEF HasBid

\* A bid that is placed anew keeps the allocation it had.
LEMMA RebidAllotsNothing ==
  ASSUME TypeOK, NEW k \in Keys, NEW q, NEW i,
         bids' = [bids EXCEPT ![k] = Rebid(@, q, i)]
  PROVE  \A j \in HasBid' :
           \/ j \in HasBid /\ bids'[j].distributed = bids[j].distributed
           \/ bids'[j].distributed = None
<1> DEFINE b == Rebid(bids[k], q, i)
<1>1. b.distributed = IF bids[k] = None THEN None ELSE bids[k].distributed
  BY DEF Rebid
<1>2. bids' = [bids EXCEPT ![k] = b]
  OBVIOUS
<1> HIDE DEF b
<1> QED BY <1>1, <1>2 DEF HasBid, TypeOK

LEMMA JobNInv ==
  ASSUME IInv, StageHeld, NInv, JobStep
  PROVE  NInv'
<1>1. CASE WriteFirstBid
  <2>1. <<job.user, job.product>> \in Keys
    BY <1>1, JobShapes DEF WriteFirstBid, IInv, TypeOK, FirstBidJobs, Keys
  <2>2. Unallotted /\ job'.op # "depart"
    BY <1>1 DEF WriteFirstBid, AfterFirstBid, Idle, StageHeld, Unallotted
  <2> QED BY <1>1, <2>1, <2>2, RebidAllotsNothing, NothingAdded
          DEF WriteFirstBid, IInv
<1>2. CASE RejectFirstBid \/ Activate \/ ShoppingStarted \/ AddItem
  BY <1>2, SameBids
  DEF RejectFirstBid, Activate, ShoppingStarted, AddItem, StageHeld,
      Unallotted, Idle, run
<1>3. CASE ListItem
  <2>1. job'.op = "list"
    BY <1>3, JobShapes DEF ListItem, IInv, TypeOK, ListJobs
  <2> QED BY <1>3, <2>1, SameBids DEF ListItem, StageHeld, Unallotted
<1>4. CASE SkipDistribution \/ ShoppingCompleted \/ AdjustingFinished
  BY <1>4, NothingClaimed
  DEF SkipDistribution, ShoppingCompleted, AdjustingFinished, Transition,
      Unallotted, Idle
<1>5. CASE DistributeBid
  <2>1. job'.op = "distribute" /\ state' = "shopping"
    BY <1>5, JobShapes DEF DistributeBid, IInv, TypeOK, DistributeJobs, StageHeld
  <2> QED BY <2>1, NothingClaimed DEF Unallotted
<1>6. CASE AllocateItem \/ AllocateBid \/ ItemAllocated \/ TakeSurplus
           \/ AllocateSurplus \/ RequestSurplus
  <2>1. state' = "adjusting"
    BY <1>6
    DEF AllocateItem, AllocateBid, ItemAllocated, TakeSurplus, AllocateSurplus,
        RequestSurplus, StageHeld, run
  <2>2. job'.op \notin {"complete", "depart"}
    <3>1. CASE AllocateBid
      BY <3>1, JobShapes DEF AllocateBid, IInv, TypeOK, ShareJobs
    <3>2. CASE AllocateItem
      BY <3>2 DEF AllocateItem, ShareOut
    <3>3. CASE ItemAllocated \/ RequestSurplus
      BY <3>3 DEF ItemAllocated, RequestSurplus, NextItem
    <3>4. CASE TakeSurplus
      BY <3>4 DEF TakeSurplus, SurplusStep
    <3>5. CASE AllocateSurplus
      BY <3>5 DEF AllocateSurplus, SurplusStep
    <3> QED BY <1>6, <3>1, <3>2, <3>3, <3>4, <3>5
  <2> QED BY <2>1, <2>2, NothingClaimed DEF Unallotted
<1>7. CASE EraseBid
  <2>1. job \in DepartJobs
    BY <1>7, JobShapes DEF EraseBid, IInv, TypeOK
  <2>2. PICK k \in job.bids :
          /\ bids' = [bids EXCEPT ![k] = None]
          /\ job' = [job EXCEPT !.bids = @ \ {k}]
    BY <1>7 DEF EraseBid
  <2>3. job'.op = "depart" /\ state' = state /\ job.op = "depart"
    BY <1>7, <2>1, <2>2 DEF EraseBid, DepartJobs
  <2>4. state # "completed"
    BY <2>2, <2>3 DEF NInv
  <2>5. \A j \in HasBid' : j \in HasBid /\ bids'[j] = bids[j]
    BY <2>2 DEF HasBid, IInv, TypeOK
  <2> QED BY <2>3, <2>4, <2>5 DEF NInv, Unallotted, NothingAllotted
<1>8. CASE MemberGone
  BY <1>8, SameBids DEF MemberGone, StateAfter, Unallotted, Idle
<1> QED BY <1>1, <1>2, <1>3, <1>4, <1>5, <1>6, <1>7, <1>8 DEF JobStep

LEMMA RequestNInv ==
  ASSUME IInv, NInv, NEW u \in Users,
         Bidding(u) \/ Shopping(u) \/ Distribution(u) \/ Governing(u)
  PROVE  NInv'
<1>1. CASE Bidding(u)
  <2>1. PICK p \in Products :
          \/ RetractBid(u, p)
          \/ \E bid \in BidInputs : PlaceBid(u, p, bid) \/ JoinRun(u, p, bid)
    BY <1>1 DEF Bidding
  <2>2. CASE RetractBid(u, p)
    <3>1. \A k \in HasBid' : k \in HasBid /\ bids'[k] = bids[k]
      BY <2>2 DEF RetractBid, HasBid, IInv, TypeOK
    <3> QED BY <2>2, <3>1, NothingAdded DEF RetractBid, Idle, Unallotted
  <2>3. ASSUME NEW bid \in BidInputs, PlaceBid(u, p, bid)
        PROVE  NInv'
    <3>1. <<u, p>> \in Keys
      BY DEF Keys
    <3> QED BY <2>3, <3>1, RebidAllotsNothing, NothingAdded
            DEF PlaceBid, Idle, Unallotted, IInv
  <2>4. ASSUME NEW bid \in BidInputs, JoinRun(u, p, bid)
        PROVE  NInv'
    BY <2>4, SameBids DEF JoinRun, Idle, Unallotted, run
  <2> QED BY <2>1, <2>2, <2>3, <2>4
<1>2. CASE Shopping(u)
  <2>1. ASSUME NEW p \in Products, NEW quantity \in AddInputs,
               AddProduct(u, p, quantity)
        PROVE  NInv'
    <3>1. <<u, p>> \in Keys
      BY DEF Keys
    <3> QED BY <2>1, <3>1, RebidAllotsNothing, NothingAdded
            DEF AddProduct, Idle, Unallotted, IInv
  <2>2. CASE StartShopping(u) \/ CompleteUnbought(u)
             \/ CompleteMismatched(u) \/ CompleteMatched(u)
    BY <2>2, SameBids
    DEF StartShopping, CompleteUnbought, CompleteMismatched, CompleteMatched,
        MayCompleteShopping, CanCompleteShopping, Unallotted, Idle, run
  <2>3. ASSUME NEW i \in DOMAIN items,
               \/ Unpurchase(u, i)
               \/ \E quantity \in PurchaseInputs :
                    MarkPurchased(u, i, quantity) \/ UpdatePurchase(u, i, quantity)
        PROVE  NInv'
    BY <2>3, SameBids
    DEF Unpurchase, MarkPurchased, UpdatePurchase, SetPurchased, Unallotted, Idle
  <2> QED BY <1>2, <2>1, <2>2, <2>3 DEF Shopping
<1>3. CASE Distribution(u)
  <2>1. ASSUME NEW k \in Keys, MarkPickedUp(u, k)
        PROVE  NInv'
    <3>1. /\ HasBid' \subseteq HasBid
          /\ \A j \in HasBid : bids'[j].distributed = bids[j].distributed
      <4>1. bids[k] \in Bid
        BY <2>1 DEF MarkPickedUp, HasBid, IInv, TypeOK
      <4>2. [bids[k] EXCEPT !.picked = TRUE].distributed = bids[k].distributed
        BY <4>1 DEF Bid
      <4> QED BY <2>1, <4>2 DEF MarkPickedUp, HasBid, IInv, TypeOK
    <3> QED BY <2>1, <3>1, NothingAdded DEF MarkPickedUp, Idle, Unallotted
  <2>2. ASSUME NEW force \in BOOLEAN, FinishAdjusting(u, force)
        PROVE  NInv'
    BY <2>2, SameBids DEF FinishAdjusting, CanFinishAdjusting, Unallotted, run
  <2>3. CASE CompleteDistribution(u)
    BY <2>3, SameBids DEF CompleteDistribution, Unallotted, Idle
  <2> QED BY <1>3, <2>1, <2>2, <2>3 DEF Distribution
<1>4. CASE Governing(u)
  <2>1. CASE LeaveGroup(u)
    <3>1. /\ state' = state /\ bids' = bids /\ HasBid' = HasBid
          /\ job = Idle /\ job'.op \in {"depart", "idle"}
      BY <2>1 DEF LeaveGroup, HasBid, Idle, roles
    <3>2. state = "completed" /\ job'.op = "depart" => job'.bids = {}
      BY <2>1 DEF LeaveGroup, BidsToErase, Idle
    <3> QED BY <3>1, <3>2 DEF NInv, Unallotted, NothingAllotted, Idle
  <2>2. CASE ~LeaveGroup(u)
    <3>1. /\ bids' = bids /\ job' = Idle /\ job = Idle
          /\ state' = state \/ (state = "active" /\ state' = "confirmed")
             \/ state' = "cancelled"
      BY <1>4, <2>2
      DEF Governing, ToggleReady, ForceConfirm, CancelRun, ToggleHelper,
          RequestReassignment, JoinGroup, Transition, run
    <3> QED BY <3>1, SameBids DEF Unallotted, Idle
  <2> QED BY <2>1, <2>2
<1> QED BY <1>1, <1>2, <1>3, <1>4

LEMMA StepNInv ==
  ASSUME MaxCrashes = 0, IInv, StageHeld, NInv, [Next]_vars
  PROVE  NInv'
<1>1. CASE UNCHANGED vars
  BY <1>1 DEF vars, NInv, Unallotted, NothingAllotted, HasBid
<1>2. CASE Crash
  BY <1>2 DEF Crash, IInv, TypeOK
<1>3. CASE JobStep
  BY <1>3, JobNInv
<1>4. CASE Answer
  <2>1. bids' = bids /\ job = Idle /\ job' = job /\ state' = state
    BY <1>4
    DEF Answer, AcceptReassignment, DeclineReassignment, CancelReassignment,
        Dropped
  <2> QED BY <2>1, SameBids DEF Unallotted, Idle
<1> QED BY <1>1, <1>2, <1>3, <1>4, RequestNInv DEF Next
-----------------------------------------------------------------------------
(* How the steps look to those who take part. *)

\* The instance reads the same state machine.
LEMMA SameMachine ==
  /\ Promise!States = States
  /\ \A from, to : Promise!CanTransition(from, to) <=> CanTransition(from, to)
  /\ \A s : Promise!CanViewDistribution(s) <=> CanViewDistribution(s)
  /\ Promise!Keys = Keys
BY DEF Promise!States, States, Promise!CanTransition, CanTransition,
       Promise!ValidTransitions, ValidTransitions,
       Promise!CanViewDistribution, CanViewDistribution, Promise!Keys, Keys

\* Nobody sees anything of an unpublished distribution.
LEMMA Hidden == ~Published => Parts = Promise!Nothing /\ Collected = {}
BY SameMachine DEF Parts, Part, Collected, Promise!Nothing

LEMMA HiddenNext == ~Published' => Parts' = Promise!Nothing /\ Collected' = {}
BY SameMachine DEF Parts, Part, Collected, Promise!Nothing

SameLead == leaders' = leaders /\ request' = request

LEMMA LeadSeen == SameLead => Owner' = Owner /\ Heir' = Heir
BY DEF SameLead, Owner, Heir

\* Before the distribution only the stage and the leadership show.
LEMMA UnseenStep ==
  ASSUME SameLead, state' = state, ~Published
  PROVE  UNCHANGED Promise!promise
<1>1. ~Published'
  BY DEF Published
<1> QED BY <1>1, Hidden, HiddenNext, LeadSeen DEF Promise!promise

LEMMA SameBidsStep ==
  ASSUME SameLead, state' = state, bids' = bids
  PROVE  UNCHANGED Promise!promise
<1>1. HasBid' = HasBid /\ Published' = Published
  BY DEF HasBid, Published
<1>2. \A k \in Keys : Part(k)' = Part(k)
  BY <1>1 DEF Part
<1>3. Parts' = Parts /\ Collected' = Collected
  BY <1>1, <1>2 DEF Parts, Collected
<1> QED BY <1>3, LeadSeen DEF Promise!promise

LEMMA AdvanceStep ==
  ASSUME SameLead, CanTransition(state, state'),
         state' \in States \ {"distributing", "completed"}
  PROVE  Promise!Advance
<1>1. ~Published'
  BY DEF Published, CanViewDistribution
<1> QED BY <1>1, HiddenNext, LeadSeen, SameMachine DEF Promise!Advance

LEMMA PublishStep ==
  ASSUME SameLead, CanTransition(state, "distributing"), state' = "distributing"
  PROVE  Promise!Publish
<1>1. DOMAIN Parts' = Keys
  BY DEF Parts
<1>2. Collected' \subseteq Keys
  BY DEF Collected, HasBid
<1> QED BY <1>1, <1>2, LeadSeen, SameMachine DEF Promise!Publish

LEMMA CompleteStep ==
  ASSUME SameLead, state = "distributing", state' = "completed", bids' = bids,
         AllPickedUp
  PROVE  Promise!Complete
<1>1. Published /\ Published' /\ HasBid' = HasBid
  BY DEF Published, CanViewDistribution, HasBid
<1>2. \A k \in Keys : Part(k)' = Part(k)
  BY <1>1 DEF Part
<1>3. Parts' = Parts /\ Collected' = Collected
  BY <1>1, <1>2 DEF Parts, Collected
<1>4. \A k \in Keys : Parts[k] \in {None, 0} \/ k \in Collected
  BY <1>1 DEF Parts, Part, Collected, AllPickedUp, Allotted
<1>5. CanTransition(state, "completed")
  BY DEF CanTransition, ValidTransitions
<1> QED BY <1>3, <1>4, <1>5, LeadSeen, SameMachine DEF Promise!Complete

\* A bid is marked as picked up.
LEMMA CollectStep ==
  ASSUME TypeOK, SameLead, state' = state, NEW k \in HasBid,
         bids' = [bids EXCEPT ![k].picked = TRUE]
  PROVE  Promise!Collect \/ UNCHANGED Promise!promise
<1>1. CASE ~Published
  BY <1>1, UnseenStep
<1>2. CASE Published
  <2> DEFINE b == [bids[k] EXCEPT !.picked = TRUE]
  <2>1. bids[k] \in Bid
    BY DEF TypeOK, HasBid
  <2>2. /\ b \in Bid /\ b.picked
        /\ b.interested = bids[k].interested
        /\ b.distributed = bids[k].distributed
    BY <2>1 DEF Bid
  <2>3. bids' = [bids EXCEPT ![k] = b]
    OBVIOUS
  <2> HIDE DEF b
  <2>4. HasBid' = HasBid
    BY <2>2, <2>3, NoneAssumption DEF TypeOK, HasBid
  <2>5. Published'
    BY <1>2 DEF Published
  <2>6. \A j \in Keys : Part(j)' = Part(j)
    BY <1>2, <2>2, <2>3, <2>4, <2>5 DEF Part, TypeOK, HasBid
  <2>7. Parts' = Parts
    BY <2>6 DEF Parts
  <2>8. Collected' = Collected \cup {k}
    BY <1>2, <2>2, <2>3, <2>4, <2>5 DEF Collected, TypeOK, HasBid
  <2>9. k \in Keys
    BY DEF HasBid
  <2> QED BY <1>2, <2>7, <2>8, <2>9, LeadSeen, SameMachine
          DEF Promise!Collect, Published
<1> QED BY <1>1, <1>2

\* A bid of somebody who is leaving is erased.
LEMMA WithdrawStep ==
  ASSUME TypeOK, SameLead, state' = state, state # "completed",
         NEW k \in HasBid, bids' = [bids EXCEPT ![k] = None]
  PROVE  Promise!Withdraw \/ UNCHANGED Promise!promise
<1>1. CASE ~Published
  BY <1>1, UnseenStep
<1>2. CASE Published
  <2>1. state = "distributing" /\ Published'
    BY <1>2 DEF Published, CanViewDistribution
  <2>2. k \in Keys /\ HasBid' = HasBid \ {k}
    BY DEF HasBid, TypeOK
  <2>3. \A j \in Keys : bids'[j] = IF j = k THEN None ELSE bids[j]
    BY DEF TypeOK
  <2>4. Parts' = [Parts EXCEPT ![k] = None]
    <3>1. \A j \in Keys : Part(j)' = IF j = k THEN None ELSE Part(j)
      BY <1>2, <2>1, <2>2, <2>3 DEF Part
    <3> QED BY <3>1 DEF Parts
  <2>5. Collected' = Collected \ {k}
    BY <1>2, <2>1, <2>2, <2>3 DEF Collected, HasBid
  <2> QED BY <2>1, <2>2, <2>4, <2>5, LeadSeen, SameMachine DEF Promise!Withdraw
<1> QED BY <1>1, <1>2

LEMMA InitPromise == Init => Promise!Init
<1> SUFFICES ASSUME Init PROVE Promise!Init
  OBVIOUS
<1>1. ~Published
  BY DEF Init, Published, CanViewDistribution
<1>2. Owner = Creator /\ Heir = None
  BY DEF Init, Owner, Heir
<1> QED BY <1>1, <1>2, Hidden DEF Init, Promise!Init

LEMMA OfferStep ==
  ASSUME LInv, NEW u \in Users, NEW heir \in Users, RequestReassignment(u, heir)
  PROVE  Promise!Offer
<1>1. /\ request = None /\ request' = [from |-> u, to |-> heir]
      /\ leaders = {u} /\ heir # u
  BY DEF RequestReassignment, IsLeader, MayOffer, LInv, OneLeader
<1>2. Owner = u /\ Owner' = u
  BY <1>1 DEF Owner, RequestReassignment, roles
<1>3. Heir = None /\ Heir' = heir
  <2>1. request' \in Request
    BY <1>1 DEF Request
  <2> QED BY <1>1, <2>1, NoneAssumption DEF Heir
<1>4. UNCHANGED <<state, Parts, Collected>>
  BY DEF RequestReassignment, Parts, Part, Collected, HasBid, Published
<1> QED BY <1>1, <1>2, <1>3, <1>4 DEF Promise!Offer

LEMMA AnswerStep ==
  ASSUME LInv, Answer
  PROVE  Promise!HandOver \/ Promise!TakeBack
<1>1. request # None /\ request' = None
  BY DEF Answer, AcceptReassignment, DeclineReassignment, CancelReassignment,
         Dropped
<1>2. request \in Request /\ request.to \in Users
  BY <1>1 DEF LInv, TypeOK, Request
<1>3. Heir = request.to /\ Heir # None /\ Heir' = None
  BY <1>1, <1>2, NoneAssumption DEF Heir
<1>4. UNCHANGED <<state, Parts, Collected>>
  <2>1. state' = state /\ bids' = bids
    BY DEF Answer, AcceptReassignment, DeclineReassignment,
           CancelReassignment, Dropped
  <2> QED BY <2>1 DEF Parts, Part, Collected, HasBid, Published
<1>5. CASE AcceptReassignment
  <2>1. leaders' = {request.to}
    BY <1>1, <1>5 DEF AcceptReassignment, LeadersAfter, LInv, OfferIsLeaders
  <2>2. Owner' = request.to
    BY <2>1 DEF Owner
  <2> QED BY <1>3, <1>4, <2>2 DEF Promise!HandOver
<1>6. CASE ~AcceptReassignment
  <2>1. leaders' = leaders
    BY <1>6 DEF Answer, DeclineReassignment, CancelReassignment, Dropped, roles
  <2>2. Owner' = Owner
    BY <2>1 DEF Owner
  <2> QED BY <1>3, <1>4, <2>2 DEF Promise!TakeBack
<1> QED BY <1>5, <1>6

Shown == Promise!Next \/ UNCHANGED Promise!promise

LEMMA JobShown ==
  ASSUME IInv, StageHeld, NInv, JobStep
  PROVE  Shown
<1> USE DEF Shown, Promise!Next
<1>1. SameLead
  BY DEF JobStep, WriteFirstBid, RejectFirstBid, Activate, ListItem,
         ShoppingStarted, AddItem, SkipDistribution, DistributeBid,
         ShoppingCompleted, AllocateItem, AllocateBid, ItemAllocated,
         TakeSurplus, AllocateSurplus, RequestSurplus, AdjustingFinished,
         EraseBid, MemberGone, MarkRemoved, run, roles, SameLead
<1>2. CASE WriteFirstBid \/ RejectFirstBid \/ ListItem \/ AddItem
           \/ DistributeBid \/ AllocateItem \/ AllocateBid \/ ItemAllocated
           \/ TakeSurplus \/ AllocateSurplus \/ RequestSurplus
  <2>1. state' = state /\ ~Published
    BY <1>2
    DEF WriteFirstBid, RejectFirstBid, ListItem, AddItem, DistributeBid,
        AllocateItem, AllocateBid, ItemAllocated, TakeSurplus,
        AllocateSurplus, RequestSurplus, StageHeld, Published,
        CanViewDistribution, run
  <2> QED BY <1>1, <2>1, UnseenStep
<1>3. CASE Activate \/ ShoppingStarted
  <2>1. /\ CanTransition(state, state')
        /\ state' \in States \ {"distributing", "completed"}
    BY <1>3
    DEF Activate, ShoppingStarted, Transition, StageHeld, CanTransition,
        ValidTransitions, States
  <2> QED BY <1>1, <2>1, AdvanceStep
<1>4. CASE ShoppingCompleted \/ AdjustingFinished
  <2>1. CanTransition(state, "distributing") /\ state' = "distributing"
    BY <1>4
    DEF ShoppingCompleted, AdjustingFinished, Transition, StageHeld,
        CanTransition, ValidTransitions
  <2> QED BY <1>1, <2>1, PublishStep
<1>5. CASE SkipDistribution
  <2>1. state = "distributing" /\ NothingAllotted
    BY <1>5 DEF SkipDistribution, StageHeld, NInv, Unallotted
  <2>2. AllPickedUp
    BY <2>1 DEF AllPickedUp, NothingAllotted, Allotted
  <2> QED BY <1>1, <1>5, <2>1, <2>2, CompleteStep DEF SkipDistribution
<1>6. CASE EraseBid
  <2>1. PICK k \in job.bids : bids' = [bids EXCEPT ![k] = None]
    BY <1>6 DEF EraseBid
  <2>2. state # "completed" /\ state' = state /\ k \in HasBid
    BY <1>6, <2>1 DEF EraseBid, NInv, IInv, ReadsStayTrue, BidsStayThere
  <2> QED BY <1>1, <2>1, <2>2, WithdrawStep DEF IInv
<1>7. CASE MemberGone
  <2>1. bids' = bids
    BY <1>7 DEF MemberGone
  <2>2. CASE state' = state
    BY <1>1, <2>1, <2>2, SameBidsStep
  <2>3. CASE state' # state
    <3>1. /\ state' = "cancelled"
          /\ state \in States \ {"completed", "cancelled"}
      BY <1>7, <2>3 DEF MemberGone, StateAfter, IInv, TypeOK
    <3>2. CanTransition(state, state')
      BY <3>1 DEF CanTransition, ValidTransitions, States
    <3> QED BY <1>1, <3>1, <3>2, AdvanceStep DEF States
  <2> QED BY <2>2, <2>3
<1> QED BY <1>2, <1>3, <1>4, <1>5, <1>6, <1>7 DEF JobStep

LEMMA RequestShown ==
  ASSUME IInv, LInv, NEW u \in Users,
         Bidding(u) \/ Shopping(u) \/ Distribution(u) \/ Governing(u)
  PROVE  Shown
<1> USE DEF Shown, Promise!Next
<1>1. CASE Bidding(u)
  <2>1. SameLead /\ state' = state /\ ~Published
    BY <1>1
    DEF Bidding, RetractBid, MayRetract, CanRetractBid, PlaceBid, CanPlaceBid,
        JoinRun, Published, CanViewDistribution, SameLead, run, roles
  <2> QED BY <2>1, UnseenStep
<1>2. CASE Shopping(u)
  <2>1. SameLead
    BY <1>2
    DEF Shopping, StartShopping, AddProduct, Unpurchase, MarkPurchased,
        UpdatePurchase, SetPurchased, CompleteUnbought, CompleteMismatched,
        CompleteMatched, SameLead, run, roles
  <2>2. CASE CompleteUnbought(u)
    <3>1. CanTransition(state, "distributing") /\ state' = "distributing"
      BY <2>2
      DEF CompleteUnbought, MayCompleteShopping, CanCompleteShopping,
          CanTransition, ValidTransitions
    <3> QED BY <2>1, <3>1, PublishStep
  <2>3. CASE CompleteMismatched(u)
    <3>1. CanTransition(state, "adjusting") /\ state' = "adjusting"
      BY <2>3
      DEF CompleteMismatched, MayCompleteShopping, CanCompleteShopping,
          CanTransition, ValidTransitions
    <3> QED BY <2>1, <3>1, AdvanceStep DEF States
  <2>4. ASSUME NEW p \in Products, NEW quantity \in AddInputs,
               AddProduct(u, p, quantity)
        PROVE  Shown
    <3>1. state' = state /\ ~Published
      BY <2>4 DEF AddProduct, Published, CanViewDistribution
    <3> QED BY <2>1, <3>1, UnseenStep
  <2>5. CASE StartShopping(u) \/ CompleteMatched(u)
    BY <2>1, <2>5, SameBidsStep DEF StartShopping, CompleteMatched, run
  <2>6. ASSUME NEW i \in DOMAIN items,
               \/ Unpurchase(u, i)
               \/ \E quantity \in PurchaseInputs :
                    MarkPurchased(u, i, quantity) \/ UpdatePurchase(u, i, quantity)
        PROVE  Shown
    BY <2>1, <2>6, SameBidsStep
    DEF Unpurchase, MarkPurchased, UpdatePurchase, SetPurchased
  <2> QED BY <1>2, <2>2, <2>3, <2>4, <2>5, <2>6 DEF Shopping
<1>3. CASE Distribution(u)
  <2>1. SameLead
    BY <1>3
    DEF Distribution, FinishAdjusting, MarkPickedUp, CompleteDistribution,
        SameLead, run, roles
  <2>2. ASSUME NEW force \in BOOLEAN, FinishAdjusting(u, force)
        PROVE  Shown
    BY <2>1, <2>2, SameBidsStep DEF FinishAdjusting, run
  <2>3. ASSUME NEW k \in Keys, MarkPickedUp(u, k)
        PROVE  Shown
    BY <2>1, <2>3, CollectStep DEF MarkPickedUp, IInv
  <2>4. CASE CompleteDistribution(u)
    BY <2>1, <2>4, CompleteStep
    DEF CompleteDistribution, CanCompleteDistribution
  <2> QED BY <1>3, <2>2, <2>3, <2>4 DEF Distribution
<1>4. CASE Governing(u)
  <2>1. ASSUME NEW heir \in Users, RequestReassignment(u, heir)
        PROVE  Shown
    BY <2>1, OfferStep
  <2>2. CASE ForceConfirm(u) \/ CancelRun(u)
    <3>1. /\ SameLead /\ CanTransition(state, state')
          /\ state' \in States \ {"distributing", "completed"}
      BY <2>2 DEF ForceConfirm, CancelRun, Transition, SameLead, States, roles
    <3> QED BY <3>1, AdvanceStep
  <2>3. CASE \/ ToggleReady(u) \/ LeaveGroup(u) \/ JoinGroup(u)
             \/ \E other \in Users : ToggleHelper(u, other)
    <3>1. SameLead /\ state' = state /\ bids' = bids
      BY <2>3
      DEF ToggleReady, LeaveGroup, JoinGroup, ToggleHelper, SameLead, run, roles
    <3> QED BY <3>1, SameBidsStep
  <2> QED BY <1>4, <2>1, <2>2, <2>3 DEF Governing
<1> QED BY <1>1, <1>2, <1>3, <1>4

LEMMA StepShown ==
  ASSUME MaxCrashes = 0, IInv, LInv, StageHeld, NInv, [Next]_vars
  PROVE  Shown
<1>1. CASE UNCHANGED vars
  BY <1>1, SameBidsStep DEF vars, SameLead, Shown
<1>2. CASE Crash
  BY <1>2 DEF Crash, IInv, TypeOK
<1>3. CASE JobStep
  BY <1>3, JobShown
<1>4. CASE Answer
  BY <1>4, AnswerStep DEF Shown, Promise!Next
<1> QED BY <1>1, <1>2, <1>3, <1>4, RequestShown DEF Next

\* As long as no handler is cut short, the commits of the services keep the
\* promise of a run: everything that happens between two requests is one of
\* its few steps, or shows nothing.
THEOREM ServicesKeepPromise ==
  ASSUME MaxCrashes = 0
  PROVE  Spec => KeepsPromise
<1>1. Init => NInv
  BY DEF Init, NInv, NothingAllotted, HasBid, Idle
<1>2. Init => StageHeld
  BY DEF Init, StageHeld, Idle
<1>3. Init => LInv
  <2>1. Init => OneLeader /\ OfferIsLeaders
    BY DEF Init, OneLeader, OfferIsLeaders
  <2> QED BY <2>1, InitIInv DEF LInv, IInv
<1>4. IInv /\ StageHeld /\ NInv /\ [Next]_vars => NInv'
  BY StepNInv
<1>5. IInv /\ StageHeld /\ [Next]_vars => StageHeld'
  BY StepStageHeld DEF IInv
<1>6. IInv /\ LInv /\ [Next]_vars => LInv'
  BY StepIInv, StepLInv DEF LInv, IInv
<1>7. IInv /\ LInv /\ StageHeld /\ NInv /\ [Next]_vars
        => [Promise!Next]_Promise!promise
  BY StepShown DEF Shown
<1> QED
  BY <1>1, <1>2, <1>3, <1>4, <1>5, <1>6, <1>7, InitIInv, StepIInv, InitPromise,
     PTL DEF Spec, KeepsPromise, Promise!Spec
-----------------------------------------------------------------------------
(* Sums as numbers of units. *)

\* The units a set of keys stands for are finitely many.
LEMMA UnitsFinite ==
  ASSUME NEW K, IsFiniteSet(K), NEW f, \A k \in K : f[k] \in Int
  PROVE  IsFiniteSet(UNION {{k} \X (1..f[k]) : k \in K})
<1> DEFINE U(k) == {k} \X (1..f[k])
<1>1. ASSUME NEW k \in K PROVE IsFiniteSet(U(k))
  <2>1. IsFiniteSet({k})
    BY FS_Singleton
  <2>2. IsFiniteSet(1..f[k])
    BY FS_Interval
  <2> QED BY <2>1, <2>2, FS_Product
<1>2. IsFiniteSet({U(k) : k \in K})
  <2> DEFINE V == {U(k) : k \in K}
             g == [k \in K |-> U(k)]
  <2>1. g \in Surjection(K, V)
    BY DEF Surjection
  <2> HIDE DEF g, V, U
  <2>2. IsFiniteSet(V)
    BY ONLY <2>1, FS_Surjection, IsFiniteSet(K)
  <2> QED BY <2>2 DEF V
<1> QED BY <1>1, <1>2, FS_UNION

\* A key is taken out of a function.
Without(f, k) == [j \in DOMAIN f \ {k} |-> f[j]]

LEMMA UnitsType ==
  ASSUME NEW K, IsFiniteSet(K), NEW f \in [K -> Int]
  PROVE  Units(f) \in Nat
BY UnitsFinite, FS_CardinalityType DEF Units

LEMMA UnitsLess ==
  ASSUME NEW K, IsFiniteSet(K), NEW f \in [K -> Int], NEW k \in K
  PROVE  Units(f) = Units(Without(f, k)) + (IF f[k] > 0 THEN f[k] ELSE 0)
<1> DEFINE A == UNION {{j} \X (1..f[j]) : j \in K \ {k}}
           B == {k} \X (1..f[k])
<1>1. IsFiniteSet(A)
  <2>1. IsFiniteSet(K \ {k})
    BY FS_RemoveElement
  <2> QED BY <2>1, UnitsFinite
<1>2. /\ IsFiniteSet(B)
      /\ Cardinality(B) = IF f[k] > 0 THEN f[k] ELSE 0
  <2>1. /\ IsFiniteSet(1..f[k])
        /\ Cardinality(1..f[k]) = IF f[k] > 0 THEN f[k] ELSE 0
    BY FS_Interval
  <2>2. IsFiniteSet({k}) /\ Cardinality({k}) = 1
    BY FS_Singleton
  <2>3. /\ IsFiniteSet(B)
        /\ Cardinality(B) = Cardinality({k}) * Cardinality(1..f[k])
    BY <2>1, <2>2, FS_Product
  <2> HIDE DEF B
  <2> QED BY <2>1, <2>2, <2>3
<1>3. A \cap B = {}
  OBVIOUS
<1>4. UNION {{j} \X (1..f[j]) : j \in DOMAIN f} = A \cup B
  OBVIOUS
<1>5. Units(Without(f, k)) = Cardinality(A)
  <2>1. DOMAIN Without(f, k) = K \ {k}
    BY DEF Without
  <2>2. {{j} \X (1..Without(f, k)[j]) : j \in K \ {k}}
          = {{j} \X (1..f[j]) : j \in K \ {k}}
    BY DEF Without
  <2> QED BY <2>1, <2>2 DEF Units
<1>6. Cardinality(A \cup B) = Cardinality(A) + Cardinality(B)
  <2> HIDE DEF A, B
  <2>1. Cardinality(A) \in Nat /\ Cardinality(B) \in Nat
    BY <1>1, <1>2, FS_CardinalityType
  <2>2. Cardinality(A \cap B) = 0
    BY <1>3, FS_EmptySet
  <2>3. Cardinality(A \cup B)
          = Cardinality(A) + Cardinality(B) - Cardinality(A \cap B)
    BY <1>1, <1>2, FS_Union
  <2> QED BY <2>1, <2>2, <2>3
<1>7. Units(f) = Cardinality(A \cup B)
  BY <1>4 DEF Units
<1> HIDE DEF A, B
<1> QED BY <1>2, <1>5, <1>6, <1>7

Opposite(f) == [k \in DOMAIN f |-> -f[k]]

\* The sum of a function over finitely many keys is a number: taking out one
\* key takes its value from the sum, and nothing sums to zero.
LEMMA SumType ==
  ASSUME NEW K, IsFiniteSet(K), NEW f \in [K -> Int]
  PROVE  SumOf(f) \in Int
<1>1. Opposite(f) \in [K -> Int]
  BY DEF Opposite
<1>2. Units(f) \in Nat /\ Units(Opposite(f)) \in Nat
  BY <1>1, UnitsType
<1> QED BY <1>2 DEF SumOf, Opposite

LEMMA SumLess ==
  ASSUME NEW K, IsFiniteSet(K), NEW f \in [K -> Int], NEW k \in K
  PROVE  SumOf(f) = SumOf(Without(f, k)) + f[k]
<1> DEFINE g == Opposite(f)
<1>1. g \in [K -> Int] /\ g[k] = -f[k]
  BY DEF Opposite
<1>2. Opposite(Without(f, k)) = Without(g, k)
  BY DEF Opposite, Without
<1>3. /\ Units(f) = Units(Without(f, k)) + (IF f[k] > 0 THEN f[k] ELSE 0)
      /\ Units(g) = Units(Without(g, k)) + (IF g[k] > 0 THEN g[k] ELSE 0)
  BY <1>1, UnitsLess
<1>4. Units(Without(f, k)) \in Nat /\ Units(Without(g, k)) \in Nat
  <2>1. IsFiniteSet(K \ {k})
    BY FS_RemoveElement
  <2>2. Without(f, k) \in [K \ {k} -> Int] /\ Without(g, k) \in [K \ {k} -> Int]
    BY <1>1 DEF Without
  <2> QED BY <2>1, <2>2, UnitsType
<1>5. /\ SumOf(f) = Units(f) - Units(g)
      /\ SumOf(Without(f, k)) = Units(Without(f, k)) - Units(Without(g, k))
  BY <1>2 DEF SumOf, Opposite
<1>6. f[k] \in Int
  OBVIOUS
<1> HIDE DEF g
<1> QED BY <1>1, <1>3, <1>4, <1>5, <1>6

LEMMA SumOfZeros ==
  \A f : (\A k \in DOMAIN f : f[k] = 0) => SumOf(f) = 0
<1> SUFFICES ASSUME NEW f, \A k \in DOMAIN f : f[k] = 0 PROVE SumOf(f) = 0
  OBVIOUS
<1>1. /\ UNION {{k} \X (1..f[k]) : k \in DOMAIN f} = {}
      /\ DOMAIN Opposite(f) = DOMAIN f
      /\ UNION {{k} \X (1..Opposite(f)[k]) : k \in DOMAIN Opposite(f)} = {}
  BY DEF Opposite
<1>2. Units(f) = 0 /\ Units(Opposite(f)) = 0
  BY <1>1, FS_EmptySet DEF Units
<1> QED BY <1>2 DEF SumOf, Opposite

\* Two functions that differ at one key.
LEMMA SumChanged ==
  ASSUME NEW K, IsFiniteSet(K), NEW f \in [K -> Int], NEW k \in K,
         NEW n \in Int
  PROVE  SumOf([f EXCEPT ![k] = n]) = SumOf(f) - f[k] + n
<1> DEFINE g == [f EXCEPT ![k] = n]
<1>1. g \in [K -> Int] /\ g[k] = n
  OBVIOUS
<1>2. Without(g, k) = Without(f, k)
  BY DEF Without
<1>3. SumOf(Without(f, k)) \in Int
  <2>1. IsFiniteSet(K \ {k}) /\ Without(f, k) \in [K \ {k} -> Int]
    BY FS_RemoveElement DEF Without
  <2> QED BY <2>1, SumType
<1>4. SumOf(g) = SumOf(Without(g, k)) + n
  BY <1>1, SumLess
<1>5. SumOf(f) = SumOf(Without(f, k)) + f[k]
  BY SumLess
<1>6. f[k] \in Int
  OBVIOUS
<1> HIDE DEF g
<1> QED BY <1>2, <1>3, <1>4, <1>5, <1>6 DEF g

\* The sum of a function on the keys that are left when one is added.
LEMMA SumMore ==
  ASSUME NEW K, IsFiniteSet(K), NEW k, k \notin K,
         NEW f \in [K \cup {k} -> Int]
  PROVE  SumOf(f) = SumOf([j \in K |-> f[j]]) + f[k]
<1>1. IsFiniteSet(K \cup {k})
  BY FS_AddElement
<1>2. Without(f, k) = [j \in K |-> f[j]]
  BY DEF Without
<1> QED BY <1>1, <1>2, SumLess

\* What bids ask for, as a sum.
LEMMA TotalIsSum ==
  ASSUME NEW K, IsFiniteSet(K), NEW b, \A k \in K : b[k].quantity \in Nat
  PROVE  Cardinality(UNION {{k} \X (1..b[k].quantity) : k \in K})
           = SumOf([k \in K |-> b[k].quantity])
<1> DEFINE f == [k \in K |-> b[k].quantity]
<1>1. f \in [K -> Nat] /\ DOMAIN f = K
  OBVIOUS
<1>2. Units(f) = Cardinality(UNION {{k} \X (1..b[k].quantity) : k \in K})
  <2>1. {{k} \X (1..f[k]) : k \in K} = {{k} \X (1..b[k].quantity) : k \in K}
    OBVIOUS
  <2> QED BY <1>1, <2>1 DEF Units
<1>3. Units(Opposite(f)) = 0
  <2>1. \A k \in K : 1..(-f[k]) = {}
    BY <1>1
  <2>2. \A k \in K : {k} \X (1..Opposite(f)[k]) = {}
    BY <1>1, <2>1 DEF Opposite
  <2>3. UNION {{k} \X (1..Opposite(f)[k]) : k \in K} = {}
    BY <2>2
  <2> QED BY <1>1, <2>3, FS_EmptySet DEF Units, Opposite
<1>4. Units(f) \in Nat
  BY <1>1, UnitsType
<1> HIDE DEF f
<1>5. SumOf(f) = Units(f)
  BY <1>3, <1>4 DEF SumOf, Opposite
<1> QED BY <1>2, <1>5 DEF f
-----------------------------------------------------------------------------
(* The list and the bids.  Inductive: there is no list before the leader    *)
(* starts shopping; while it is written every row asks for what the bids    *)
(* ask for, and what they ask for is listed or about to be; and while a     *)
(* product is added only that product is out of step.                       *)

Matched(p) ==
  /\ Total(p) > 0 => ItemsOf(p) # {}
  /\ \A i \in ItemsOf(p) : ItemsOf(p) = {i} => items[i].requested = Total(p)

DInv ==
  /\ state \in {"planning", "active"} => DOMAIN items = {}
  /\ state = "confirmed" =>
       \A p \in Products : \A i \in ItemsOf(p) : items[i].requested = Total(p)
  /\ job.op = "list" =>
       \A p \in Products : Total(p) > 0 => p \in job.products \/ ItemsOf(p) # {}
  /\ state = "shopping" =>
       \A p \in Products : Matched(p) \/ (job.op = "add_item" /\ p = job.product)
  /\ job.op = "add_item" =>
       /\ MaxCrashes = 0
       /\ ItemsOf(job.product) = {} => Total(job.product) = job.requested
  /\ job.op # "depart"

\* What the list must be spared to match the bids: a member who leaves takes
\* bids along, a fraction that is added is cut off the bid but not the row,
\* and a crash between the two commits of add_product leaves a bid without
\* a row.
Undisturbed ==
  /\ Departing = {}
  /\ \A quantity \in AddInputs : Truncated(quantity) = quantity
  /\ MaxCrashes = 0 \/ AddInputs = {}

SameDemand == \A p \in Products : Total(p)' = Total(p)

SameRows ==
  /\ DOMAIN items' = DOMAIN items
  /\ \A i \in DOMAIN items : /\ items'[i].product = items[i].product
                             /\ items'[i].requested = items[i].requested

\* Out of the confirmed run and of the shopping, bids may change.
LEMMA ListLater ==
  ASSUME state' \in {"planning", "active"} => DOMAIN items' = {},
         state' \notin {"confirmed", "shopping"},
         job'.op \notin {"list", "add_item", "depart"}
  PROVE  DInv'
BY DEF DInv

\* Most steps change neither what is asked for nor the rows.
LEMMA ListKept ==
  ASSUME DInv, TypeOK, SameDemand, SameRows,
         job'.op \notin {"list", "add_item", "depart"},
         job.op = "add_item" => state # "shopping",
         state' = state \/ (state \in {"planning", "active"}
                            /\ state' \in {"active", "confirmed"})
  PROVE  DInv'
<1>1. \A p \in Products : ItemsOf(p)' = ItemsOf(p)
  BY DEF SameRows, ItemsOf
<1>2. \A p \in Products : Matched(p) => Matched(p)'
  BY <1>1 DEF Matched, SameDemand, SameRows, ItemsOf
<1>3. state' \in {"planning", "active"} => DOMAIN items' = {}
  BY DEF DInv, SameRows
<1>4. state' = "confirmed" =>
        \A p \in Products : \A i \in ItemsOf(p) : items'[i].requested = Total(p)
  BY DEF DInv, SameRows, ItemsOf
<1>5. state' = "confirmed" =>
        \A p \in Products : \A i \in ItemsOf(p)' : items'[i].requested = Total(p)'
  BY <1>1, <1>4 DEF SameDemand
<1>6. state' = "shopping" => \A p \in Products : Matched(p)'
  BY <1>2 DEF DInv
<1> QED BY <1>3, <1>5, <1>6 DEF DInv

\* What keeps the demand: the bids of a product still count, for as much.
LEMMA DemandKept ==
  ASSUME HasBid' = HasBid,
         \A k \in HasBid : /\ bids'[k].quantity = bids[k].quantity
                           /\ bids'[k].interested = bids[k].interested
  PROVE  SameDemand
<1> SUFFICES ASSUME NEW p \in Products PROVE Total(p)' = Total(p)
  BY DEF SameDemand
<1>1. Counted(p)' = Counted(p)
  BY DEF Counted, BidsOn
<1>2. Counted(p) \subseteq HasBid
  BY DEF Counted, BidsOn
<1>3. {{k} \X (1..bids'[k].quantity) : k \in Counted(p)}
        = {{k} \X (1..bids[k].quantity) : k \in Counted(p)}
  BY <1>2
<1> QED BY <1>1, <1>3 DEF Total, TotalOf

LEMMA AllocationKeepsDemand ==
  ASSUME TypeOK, NEW k \in HasBid, NEW share \in Int,
         bids' = [bids EXCEPT ![k].distributed = share]
  PROVE  SameDemand
<1> DEFINE new == [bids[k] EXCEPT !.distributed = share]
<1>1. bids[k] \in Bid
  BY DEF TypeOK, HasBid
<1>2. /\ new \in Bid
      /\ new.quantity = bids[k].quantity
      /\ new.interested = bids[k].interested
  BY <1>1 DEF Bid
<1>3. bids' = [bids EXCEPT ![k] = new]
  OBVIOUS
<1> HIDE DEF new
<1> QED BY <1>2, <1>3, NoneAssumption, DemandKept DEF HasBid, TypeOK

\* The handler of finish_adjusting goes on until the last item is allocated.
LEMMA AllocationGoesOn ==
  ASSUME TypeOK,
         \/ AllocateItem \/ AllocateBid \/ ItemAllocated
         \/ TakeSurplus \/ AllocateSurplus \/ RequestSurplus
  PROVE  job'.op \in {"allocate", "share", "surplus_alloc", "surplus_request"}
<1>1. CASE AllocateBid
  BY <1>1, JobShapes DEF AllocateBid, TypeOK, ShareJobs
<1>2. CASE AllocateItem
  BY <1>2 DEF AllocateItem, ShareOut
<1>3. CASE ItemAllocated \/ RequestSurplus
  BY <1>3 DEF ItemAllocated, RequestSurplus, NextItem
<1>4. CASE TakeSurplus
  BY <1>4 DEF TakeSurplus, SurplusStep
<1>5. CASE AllocateSurplus
  BY <1>5 DEF AllocateSurplus, SurplusStep
<1> QED BY <1>1, <1>2, <1>3, <1>4, <1>5

LEMMA SameBidsDemand == bids' = bids => SameDemand
BY DemandKept DEF HasBid

LEMMA SameItemsRows == items' = items => SameRows
BY DEF SameRows

LEMMA AppendedRow ==
  ASSUME items \in Seq(Item), NEW p \in Products, NEW n \in Nat,
         items' = Append(items, NewItem(p, n))
  PROVE  \E i : /\ i \notin DOMAIN items
                /\ DOMAIN items' = DOMAIN items \cup {i}
                /\ \A j \in DOMAIN items : items'[j] = items[j]
                /\ items'[i].product = p /\ items'[i].requested = n
                /\ ItemsOf(p)' = ItemsOf(p) \cup {i}
                /\ \A q \in Products \ {p} : ItemsOf(q)' = ItemsOf(q)
<1> DEFINE i == Len(items) + 1
           new == NewItem(p, n)
<1>1. new \in Item /\ new.product = p /\ new.requested = n
  BY DEF NewItem, Item
<1> HIDE DEF new
<1>2. /\ i \notin DOMAIN items
      /\ DOMAIN items' = DOMAIN items \cup {i}
      /\ \A j \in DOMAIN items : items'[j] = items[j]
      /\ items'[i] = new
  BY <1>1 DEF new
<1> HIDE DEF i
<1>3. ItemsOf(p)' = ItemsOf(p) \cup {i}
  BY <1>1, <1>2 DEF ItemsOf
<1>4. \A q \in Products \ {p} : ItemsOf(q)' = ItemsOf(q)
  BY <1>1, <1>2 DEF ItemsOf
<1> QED BY <1>1, <1>2, <1>3, <1>4

\* The bids on a product as a sum, before a step and after it.
LEMMA FiniteBids ==
  /\ \A K \in SUBSET HasBid : IsFiniteSet(K)
  /\ \A K \in SUBSET HasBid' : IsFiniteSet(K)
<1>1. IsFiniteSet(Keys)
  BY FS_Product, UsersAssumption, ProductsAssumption DEF Keys
<1>2. HasBid \subseteq Keys /\ HasBid' \subseteq Keys
  BY DEF HasBid
<1> QED BY <1>1, <1>2, FS_Subset

LEMMA TotalSum ==
  ASSUME TypeOK, NEW K \in SUBSET HasBid
  PROVE  TotalOf(K) = SumOf([k \in K |-> bids[k].quantity])
<1>1. \A k \in K : bids[k].quantity \in Nat
  BY DEF TypeOK, HasBid, Bid
<1> QED BY <1>1, FiniteBids, TotalIsSum DEF TotalOf

LEMMA NextTotalSum ==
  ASSUME TypeOK', NEW p \in Products
  PROVE  Total(p)' = SumOf([k \in Counted(p)' |-> bids'[k].quantity])
<1>1. Counted(p)' \subseteq HasBid'
  BY DEF Counted, BidsOn
<1>2. \A k \in Counted(p)' : bids'[k].quantity \in Nat
  BY <1>1 DEF TypeOK, HasBid, Bid
<1>3. \A K : (IsFiniteSet(K) /\ \A k \in K : bids'[k].quantity \in Nat) =>
         Cardinality(UNION {{k} \X (1..bids'[k].quantity) : k \in K})
           = SumOf([k \in K |-> bids'[k].quantity])
  BY TotalIsSum
<1> QED BY <1>1, <1>2, <1>3, FiniteBids DEF Total, TotalOf

\* Bids that ask for nothing together ask for nothing each.
LEMMA NothingAsked ==
  ASSUME TypeOK, NEW K \in SUBSET HasBid, TotalOf(K) = 0
  PROVE  \A k \in K : bids[k].quantity = 0
<1> DEFINE U == UNION {{k} \X (1..bids[k].quantity) : k \in K}
<1>1. \A k \in K : bids[k].quantity \in Nat
  BY DEF TypeOK, HasBid, Bid
<1>2. IsFiniteSet(U)
  <2> DEFINE f == [k \in K |-> bids[k].quantity]
  <2>1. IsFiniteSet(UNION {{k} \X (1..f[k]) : k \in K})
    <3>1. IsFiniteSet(K) /\ \A k \in K : f[k] \in Int
      BY <1>1, FiniteBids
    <3> HIDE DEF f
    <3> QED BY <3>1, UnitsFinite
  <2>2. {{k} \X (1..f[k]) : k \in K} = {{k} \X (1..bids[k].quantity) : k \in K}
    OBVIOUS
  <2> QED BY <2>1, <2>2
<1>3. U = {}
  BY <1>2, FS_EmptySet DEF TotalOf
<1> SUFFICES ASSUME NEW k \in K, bids[k].quantity # 0 PROVE FALSE
  OBVIOUS
<1>4. 1 \in 1..bids[k].quantity
  BY <1>1
<1>5. <<k, 1>> \in U
  BY <1>4
<1> QED BY <1>3, <1>5

\* A row is written for a product on which there was a demand.
LEMMA ListItemDInv ==
  ASSUME IInv, StageHeld, DInv, ListItem
  PROVE  DInv'
<1>1. job \in ListJobs /\ job.op = "list" /\ state = "confirmed"
  BY JobShapes DEF ListItem, IInv, TypeOK, StageHeld
<1>2. PICK p \in job.products :
        /\ items' = Append(items, NewItem(p, Total(p)))
        /\ job' = [job EXCEPT !.products = @ \ {p}]
  BY DEF ListItem
<1>3. p \in Products
  BY <1>1 DEF ListJobs
<1>4. Total(p) \in Nat
  BY TotalIsNat DEF Total, Counted, BidsOn, IInv, TypeOK
<1>5. PICK i :
        /\ i \notin DOMAIN items
        /\ DOMAIN items' = DOMAIN items \cup {i}
        /\ \A j \in DOMAIN items : items'[j] = items[j]
        /\ items'[i].product = p /\ items'[i].requested = Total(p)
        /\ ItemsOf(p)' = ItemsOf(p) \cup {i}
        /\ \A q \in Products \ {p} : ItemsOf(q)' = ItemsOf(q)
  BY <1>2, <1>3, <1>4, AppendedRow DEF IInv, TypeOK
<1>6. job'.op = "list" /\ job'.products = job.products \ {p}
  BY <1>1, <1>2 DEF ListJobs
<1>7. state' = "confirmed" /\ \A q \in Products : Total(q)' = Total(q)
  BY <1>1, SameBidsDemand DEF ListItem, SameDemand
<1>8. ASSUME NEW q \in Products, NEW j \in ItemsOf(q)'
      PROVE  items'[j].requested = Total(q)
  <2>1. CASE j = i
    <3>1. items'[j].product = q
      BY DEF ItemsOf
    <3> QED BY <1>5, <2>1, <3>1
  <2>2. CASE j # i
    <3>1. j \in ItemsOf(q)
      BY <1>5, <2>2 DEF ItemsOf
    <3> QED BY <1>1, <1>5, <3>1 DEF DInv, ItemsOf
  <2> QED BY <2>1, <2>2
<1>9. \A q \in Products :
        Total(q) > 0 => q \in job'.products \/ ItemsOf(q)' # {}
  BY <1>1, <1>5, <1>6 DEF DInv
<1> QED BY <1>6, <1>7, <1>8, <1>9 DEF DInv

\* The list is complete: every row asks for what the bids ask for.
LEMMA ShoppingStartedDInv ==
  ASSUME StageHeld, DInv, ShoppingStarted
  PROVE  DInv'
<1>1. /\ job.op = "list" /\ job.products = {} /\ state = "confirmed"
      /\ state' = "shopping" /\ job' = Idle /\ bids' = bids /\ items' = items
  BY DEF ShoppingStarted, Transition, StageHeld
<1>2. \A p \in Products : Total(p)' = Total(p) /\ ItemsOf(p)' = ItemsOf(p)
  BY <1>1, SameBidsDemand DEF SameDemand, ItemsOf
<1>3. \A p \in Products : Matched(p)
  BY <1>1 DEF DInv, Matched
<1>4. \A p \in Products : Matched(p)'
  BY <1>1, <1>2, <1>3 DEF Matched
<1> QED BY <1>1, <1>4 DEF DInv, Idle

\* A product is added: its demand is the new bid, if nothing was listed.
LEMMA AddProductDInv ==
  ASSUME Undisturbed, IInv, IInv', DInv, NEW u \in Users, NEW p \in Products,
         NEW quantity \in AddInputs, AddProduct(u, p, quantity)
  PROVE  DInv'
<1> DEFINE k == <<u, p>>
           b == Rebid(bids[k], quantity, FALSE)
<1>1. /\ state = "shopping" /\ state' = "shopping" /\ items' = items
      /\ job = Idle
      /\ job' = [op |-> "add_item", product |-> p, requested |-> quantity]
  BY DEF AddProduct
<1>2. k \in Keys /\ quantity \in Nat /\ MaxCrashes = 0
  BY InputsAssumption DEF Keys, Undisturbed
<1>3. bids' = [bids EXCEPT ![k] = b]
  BY DEF AddProduct, Undisturbed
<1>4. b \in Bid /\ b.quantity = quantity /\ ~b.interested
  BY <1>2, RebidIsBid DEF Rebid, IInv, TypeOK
<1> HIDE DEF b, k
<1>5. HasBid' = HasBid \cup {k} /\ k[2] = p
  BY <1>2, <1>3, <1>4, NoneAssumption DEF HasBid, IInv, TypeOK, k
<1>6. \A j \in HasBid \ {k} : bids'[j] = bids[j]
  BY <1>3 DEF HasBid, IInv, TypeOK
<1>7. bids'[k] = b
  BY <1>2, <1>3 DEF IInv, TypeOK
<1>8. Counted(p)' = Counted(p) \cup {k}
  BY <1>4, <1>5, <1>6, <1>7 DEF Counted, BidsOn
<1>9. \A q \in Products \ {p} : Total(q)' = Total(q)
  <2> SUFFICES ASSUME NEW q \in Products \ {p} PROVE Total(q)' = Total(q)
    OBVIOUS
  <2>1. Counted(q)' = Counted(q) /\ k \notin Counted(q)
    BY <1>5, <1>6 DEF Counted, BidsOn
  <2>2. \A j \in Counted(q) : bids'[j] = bids[j]
    BY <1>6, <2>1 DEF Counted, BidsOn
  <2>3. {{j} \X (1..bids'[j].quantity) : j \in Counted(q)}
          = {{j} \X (1..bids[j].quantity) : j \in Counted(q)}
    BY <2>2
  <2> QED BY <2>1, <2>3 DEF Total, TotalOf
<1>10. \A q \in Products : ItemsOf(q)' = ItemsOf(q)
  BY <1>1 DEF ItemsOf
<1>11. ASSUME ItemsOf(p) = {} PROVE Total(p)' = quantity
  <2> DEFINE f == [j \in Counted(p)' |-> bids'[j].quantity]
  <2>1. Total(p) = 0
    <3>1. Total(p) \in Nat
      BY TotalIsNat DEF Total, Counted, BidsOn, IInv, TypeOK
    <3>2. Matched(p)
      BY <1>1 DEF DInv, Idle
    <3> QED BY <1>11, <3>1, <3>2 DEF Matched
  <2>2. \A j \in Counted(p) : bids[j].quantity = 0
    BY <2>1, NothingAsked DEF Total, Counted, BidsOn, IInv
  <2>3. \A j \in Counted(p)' \ {k} : f[j] = 0
    BY <1>6, <1>8, <2>2 DEF Counted, BidsOn
  <2>4. IsFiniteSet(Counted(p)') /\ k \in Counted(p)'
    BY <1>8, FiniteBids DEF Counted, BidsOn
  <2>5. f \in [Counted(p)' -> Int] /\ f[k] = quantity
    <3>1. \A j \in Counted(p)' : bids'[j].quantity \in Nat
      BY DEF IInv, TypeOK, Counted, BidsOn, HasBid, Bid
    <3> QED BY <1>4, <1>7, <2>4, <3>1
  <2> HIDE DEF f
  <2>6. SumOf(f) = SumOf(Without(f, k)) + quantity
    BY <2>4, <2>5, SumLess
  <2>7. SumOf(Without(f, k)) = 0
    <3>1. DOMAIN Without(f, k) = Counted(p)' \ {k}
      BY <2>5 DEF Without
    <3>2. \A j \in DOMAIN Without(f, k) : Without(f, k)[j] = 0
      BY <2>3, <2>5, <3>1 DEF Without
    <3> QED BY <3>2, SumOfZeros
  <2>8. Total(p)' = SumOf(f)
    BY NextTotalSum DEF f, IInv
  <2> QED BY <1>2, <2>6, <2>7, <2>8
<1>12. \A q \in Products \ {p} : Matched(q)'
  <2>1. \A q \in Products : Matched(q)
    BY <1>1 DEF DInv, Idle
  <2> QED BY <1>1, <1>9, <1>10, <2>1 DEF Matched
<1> QED BY <1>1, <1>2, <1>10, <1>11, <1>12 DEF DInv

LEMMA AddItemDInv ==
  ASSUME IInv, StageHeld, DInv, AddItem
  PROVE  DInv'
<1>1. job \in AddJobs /\ job.op = "add_item" /\ state = "shopping"
  BY JobShapes DEF AddItem, IInv, TypeOK, StageHeld
<1>2. job.product \in Products /\ job.requested \in Nat
  BY <1>1 DEF AddJobs
<1> PICK p \in Products : p = job.product
  BY <1>2
<1>3. /\ items' = Append(items, NewItem(p, job.requested))
      /\ job' = Idle /\ state' = state /\ bids' = bids
  BY DEF AddItem
<1>4. PICK i :
        /\ i \notin DOMAIN items
        /\ DOMAIN items' = DOMAIN items \cup {i}
        /\ \A j \in DOMAIN items : items'[j] = items[j]
        /\ items'[i].product = p /\ items'[i].requested = job.requested
        /\ ItemsOf(p)' = ItemsOf(p) \cup {i}
        /\ \A q \in Products \ {p} : ItemsOf(q)' = ItemsOf(q)
  BY <1>2, <1>3, AppendedRow DEF IInv, TypeOK
<1>5. \A q \in Products : Total(q)' = Total(q)
  BY <1>3, SameBidsDemand DEF SameDemand
<1>6. Matched(p)'
  <2>1. ItemsOf(p) = {} => Total(p) = job.requested
    BY <1>1 DEF DInv
  <2>2. i \notin ItemsOf(p)
    BY <1>4 DEF ItemsOf
  <2> QED BY <1>2, <1>4, <1>5, <2>1, <2>2 DEF Matched
<1>7. \A q \in Products \ {p} : Matched(q)'
  <2>1. \A q \in Products \ {p} : Matched(q)
    BY <1>1 DEF DInv
  <2> QED BY <1>4, <1>5, <2>1 DEF Matched, ItemsOf
<1> QED BY <1>1, <1>3, <1>6, <1>7 DEF DInv, Idle

LEMMA JobDInv ==
  ASSUME IInv, StageHeld, DInv, JobStep
  PROVE  DInv'
<1>1. CASE WriteFirstBid \/ RejectFirstBid \/ Activate
  <2>1. state \in {"planning", "active"} /\ state' \in {"planning", "active"}
    BY <1>1 DEF WriteFirstBid, RejectFirstBid, Activate, StageHeld, run
  <2>2. items' = items /\ job'.op \in {"activate", "idle"}
    BY <1>1
    DEF WriteFirstBid, RejectFirstBid, Activate, AfterFirstBid, Idle, run
  <2>3. DOMAIN items' = {}
    BY <2>1, <2>2 DEF DInv
  <2> QED BY <2>1, <2>2, <2>3, ListLater
<1>2. CASE ListItem
  BY <1>2, ListItemDInv
<1>3. CASE ShoppingStarted
  BY <1>3, ShoppingStartedDInv
<1>4. CASE AddItem
  BY <1>4, AddItemDInv
<1>5. CASE SkipDistribution \/ ShoppingCompleted \/ AdjustingFinished
  BY <1>5, ListLater
  DEF SkipDistribution, ShoppingCompleted, AdjustingFinished, Transition, Idle
<1>6. CASE DistributeBid
  <2>1. job \in DistributeJobs /\ job.bids \subseteq HasBid
    BY <1>6, JobShapes
    DEF DistributeBid, IInv, TypeOK, ReadsStayTrue, BidsStayThere
  <2>2. PICK k \in job.bids :
          /\ bids' = [bids EXCEPT ![k].distributed = bids[k].quantity]
          /\ job' = [job EXCEPT !.bids = @ \ {k}]
    BY <1>6 DEF DistributeBid
  <2>3. k \in HasBid /\ bids[k].quantity \in Int
    BY <2>1, <2>2 DEF IInv, TypeOK, HasBid, Bid
  <2>4. SameDemand
    BY <2>2, <2>3, AllocationKeepsDemand DEF IInv
  <2>5. job'.op = "distribute" /\ job.op = "distribute"
    BY <2>1, <2>2 DEF DistributeJobs
  <2> QED BY <1>6, <2>4, <2>5, SameItemsRows, ListKept DEF DistributeBid, IInv
<1>7. CASE AllocateItem \/ AllocateBid \/ ItemAllocated \/ TakeSurplus
           \/ AllocateSurplus \/ RequestSurplus
  <2>1. state' = "adjusting"
    BY <1>7
    DEF AllocateItem, AllocateBid, ItemAllocated, TakeSurplus, AllocateSurplus,
        RequestSurplus, StageHeld, run
  <2>2. job'.op \in {"allocate", "share", "surplus_alloc", "surplus_request"}
    BY <1>7, AllocationGoesOn DEF IInv
  <2> QED BY <2>1, <2>2, ListLater
<1>8. CASE EraseBid \/ MemberGone
  BY <1>8 DEF EraseBid, MemberGone, DInv
<1> QED BY <1>1, <1>2, <1>3, <1>4, <1>5, <1>6, <1>7, <1>8 DEF JobStep

LEMMA ShoppingDInv ==
  ASSUME Undisturbed, IInv, IInv', DInv, NEW u \in Users, Shopping(u)
  PROVE  DInv'
<1>1. CASE StartShopping(u)
  <2>1. /\ bids' = bids /\ items' = items /\ state' = state
        /\ state = "confirmed"
        /\ job' = [op |-> "list", products |-> {p \in Products : Total(p) > 0}]
    BY <1>1 DEF StartShopping, CanStartShopping, run
  <2>2. \A p \in Products : Total(p)' = Total(p) /\ ItemsOf(p)' = ItemsOf(p)
    BY <2>1, SameBidsDemand DEF SameDemand, ItemsOf
  <2>3. /\ job'.op = "list"
        /\ \A p \in Products : Total(p) > 0 => p \in job'.products
    BY <2>1
  <2>4. \A p \in Products : \A i \in ItemsOf(p) : items[i].requested = Total(p)
    BY <2>1 DEF DInv
  <2> QED BY <2>1, <2>2, <2>3, <2>4 DEF DInv
<1>2. ASSUME NEW p \in Products, NEW quantity \in AddInputs,
             AddProduct(u, p, quantity)
      PROVE  DInv'
  BY <1>2, AddProductDInv
<1>3. CASE CompleteUnbought(u) \/ CompleteMismatched(u)
  BY <1>3, ListLater
  DEF CompleteUnbought, CompleteMismatched, MayCompleteShopping, Idle
<1>4. CASE CompleteMatched(u)
  BY <1>4, SameBidsDemand, SameItemsRows, ListKept
  DEF CompleteMatched, MayCompleteShopping, Idle, IInv, run
<1>5. ASSUME NEW i \in DOMAIN items, NEW quantity, SetPurchased(i, quantity),
             job = Idle
      PROVE  DInv'
  <2> DEFINE new == [items[i] EXCEPT !.purchased = quantity]
  <2>1. items[i] \in Item
    BY ListedItem DEF IInv, TypeOK
  <2>2. new.product = items[i].product /\ new.requested = items[i].requested
    BY <2>1 DEF Item
  <2>3. items' = [items EXCEPT ![i] = new]
    BY <1>5 DEF SetPurchased
  <2> HIDE DEF new
  <2>4. SameRows
    BY <2>2, <2>3 DEF SameRows
  <2> QED BY <1>5, <2>4, SameBidsDemand, ListKept DEF SetPurchased, Idle, IInv
<1>6. ASSUME NEW i \in DOMAIN items,
             \/ Unpurchase(u, i)
             \/ \E quantity \in PurchaseInputs :
                  MarkPurchased(u, i, quantity) \/ UpdatePurchase(u, i, quantity)
      PROVE  DInv'
  BY <1>5, <1>6 DEF Unpurchase, MarkPurchased, UpdatePurchase
<1> QED BY <1>1, <1>2, <1>3, <1>4, <1>6, Shopping(u) DEF Shopping

LEMMA StepDInv ==
  ASSUME Undisturbed, IInv, IInv', StageHeld, DInv, [Next]_vars
  PROVE  DInv'
<1>1. CASE UNCHANGED vars
  <2>1. \A p \in Products : Total(p)' = Total(p) /\ ItemsOf(p)' = ItemsOf(p)
    BY <1>1, SameBidsDemand DEF SameDemand, ItemsOf, vars
  <2>2. \A p \in Products : Matched(p)' <=> Matched(p)
    BY <1>1, <2>1 DEF vars, Matched
  <2>3. state' = state /\ items' = items /\ job' = job
    BY <1>1 DEF vars
  <2>4. job.op = "add_item" => job.product \in Products
    BY JobShapes DEF IInv, TypeOK, AddJobs
  <2> QED BY <2>1, <2>2, <2>3, <2>4 DEF DInv
<1>2. CASE Crash
  <2>1. job.op # "add_item"
    BY <1>2 DEF Crash, DInv, IInv, TypeOK
  <2> QED BY <1>2, <2>1, SameBidsDemand, SameItemsRows, ListKept
          DEF Crash, Idle, IInv, run
<1>3. CASE JobStep
  BY <1>3, JobDInv
<1>4. CASE Answer
  BY <1>4, SameBidsDemand, SameItemsRows, ListKept
  DEF Answer, AcceptReassignment, DeclineReassignment, CancelReassignment,
      Dropped, Idle, IInv
<1>5. ASSUME NEW u \in Users, Bidding(u)
      PROVE  DInv'
  <2>1. /\ state' = state /\ items' = items
        /\ state \in {"planning", "active", "adjusting"}
        /\ job'.op \in {"idle", "first_bid"}
    BY <1>5
    DEF Bidding, RetractBid, MayRetract, CanRetractBid, PlaceBid, CanPlaceBid,
        JoinRun, Idle, run
  <2>2. state' \in {"planning", "active"} => DOMAIN items' = {}
    BY <2>1 DEF DInv
  <2> QED BY <2>1, <2>2, ListLater
<1>6. ASSUME NEW u \in Users, Shopping(u)
      PROVE  DInv'
  BY <1>6, ShoppingDInv
<1>7. ASSUME NEW u \in Users, Distribution(u)
      PROVE  DInv'
  <2>1. ASSUME NEW k \in Keys, MarkPickedUp(u, k)
        PROVE  DInv'
    <3>1. SameDemand
      <4> DEFINE b == [bids[k] EXCEPT !.picked = TRUE]
      <4>1. bids[k] \in Bid /\ k \in HasBid
        BY <2>1 DEF MarkPickedUp, HasBid, IInv, TypeOK
      <4>2. /\ b \in Bid /\ b.quantity = bids[k].quantity
            /\ b.interested = bids[k].interested
        BY <4>1 DEF Bid
      <4>3. bids' = [bids EXCEPT ![k] = b]
        BY <2>1 DEF MarkPickedUp
      <4> HIDE DEF b
      <4>4. HasBid' = HasBid
        BY <4>1, <4>2, <4>3, NoneAssumption DEF HasBid, IInv, TypeOK
      <4>5. \A j \in HasBid : bids'[j] = IF j = k THEN b ELSE bids[j]
        BY <4>3 DEF HasBid, IInv, TypeOK
      <4> QED BY <4>2, <4>4, <4>5, DemandKept
    <3> QED BY <2>1, <3>1, SameItemsRows, ListKept DEF MarkPickedUp, Idle, IInv
  <2>2. ASSUME NEW force \in BOOLEAN, FinishAdjusting(u, force)
        PROVE  DInv'
    BY <2>2, ListLater DEF FinishAdjusting, CanFinishAdjusting, run
  <2>3. CASE CompleteDistribution(u)
    BY <2>3, ListLater DEF CompleteDistribution, Idle
  <2> QED BY <1>7, <2>1, <2>2, <2>3 DEF Distribution
<1>8. ASSUME NEW u \in Users, Governing(u)
      PROVE  DInv'
  <2>1. bids' = bids /\ items' = items /\ job = Idle /\ job' = Idle
    BY <1>8
    DEF Governing, ToggleReady, ForceConfirm, CancelRun, ToggleHelper,
        RequestReassignment, LeaveGroup, JoinGroup, Undisturbed, run
  <2>2. \/ state' = state
        \/ state = "active" /\ state' = "confirmed"
        \/ state' = "cancelled"
    BY <1>8
    DEF Governing, ToggleReady, ForceConfirm, CancelRun, ToggleHelper,
        RequestReassignment, LeaveGroup, JoinGroup, Transition, run
  <2>3. CASE state' = "cancelled"
    BY <2>1, <2>3, ListLater DEF Idle
  <2>4. CASE state' # "cancelled"
    BY <2>1, <2>2, <2>4, SameBidsDemand, SameItemsRows, ListKept DEF Idle, IInv
  <2> QED BY <2>3, <2>4
<1> QED BY <1>1, <1>2, <1>3, <1>4, <1>5, <1>6, <1>7, <1>8 DEF Next

\* While nobody leaves, only whole quantities are added to the list and no
\* add is cut short, the list asks all through the shopping for exactly what
\* the bids ask for, whatever is added, bought and changed.
THEOREM ListIsTrue ==
  ASSUME Undisturbed
  PROVE  Spec => []ListMatchesBids
<1>1. Init => DInv
  BY DEF Init, DInv, Idle
<1>2. Init => StageHeld
  BY DEF Init, StageHeld, Idle
<1>3. DInv => ListMatchesBids
  BY DEF DInv, ListMatchesBids, Matched, Idle
<1>4. IInv /\ StageHeld /\ [Next]_vars => StageHeld'
  BY StepStageHeld DEF IInv
<1>5. IInv /\ IInv' /\ StageHeld /\ DInv /\ [Next]_vars => DInv'
  BY StepDInv
<1> QED BY <1>1, <1>2, <1>3, <1>4, <1>5, InitIInv, StepIInv, PTL DEF Spec
-----------------------------------------------------------------------------
(* What the bids are allotted.  Inductive, over the commits of the handlers *)
(* that allocate: a row that is dealt with is allotted in full; the row at  *)
(* hand is on its way there; and the bids on a row to come are all known.   *)

InFull(K) == \A k \in K : bids[k].distributed = bids[k].quantity

\* CompleteMatched: whoever was served got what she asked for.
MatchedShares ==
  job.op = "distribute" =>
    \A p \in Products : \A i \in ItemsOf(p) \cap Bought :
      /\ items[i].purchased = items[i].requested
      /\ InFull(Counted(p) \ job.bids)

Allocation == {"allocate", "share", "surplus_alloc", "surplus_request"}

AtHand == Allocation \ {"allocate"}

OtherRows ==
  job.op \in Allocation =>
    \A p \in Products : \A i \in Bought : ItemsOf(p) = {i} =>
      /\ i \in job.items => Counted(p) \subseteq job.known
      /\ \/ i \in job.items
         \/ job.op \in AtHand /\ i = job.item
         \/ AllottedOf(p) = items[i].purchased

\* The row at hand, on product p: enough of it for everybody, or not.
SharesSoFar(p) ==
  LET served == (job.known \cap Counted(p)) \ job.bids IN
  /\ job.bids \subseteq job.known \cap Counted(p)
  /\ ItemsOf(p) = {job.item} => Counted(p) \subseteq job.known
  /\ IF items[job.item].requested =< items[job.item].purchased
     THEN InFull(served)
     ELSE /\ \A k \in served : bids[k].distributed \in Int
          /\ SumOf([k \in served |-> bids[k].distributed]) = job.given
          /\ job.bids = {} => job.given = items[job.item].purchased

RowAtHand ==
  /\ job.op \in AtHand => job.item \notin job.items
  /\ job.op = "share" =>
       \A p \in Products : items[job.item].product = p => SharesSoFar(p)
  /\ job.op = "surplus_alloc" =>
       \A p \in Products : ItemsOf(p) = {job.item} =>
         /\ Total(p) = items[job.item].purchased
         /\ InFull(Counted(p) \ {<<job.user, p>>})
  /\ job.op = "surplus_request" =>
       \A p \in Products : ItemsOf(p) = {job.item} =>
         AllottedOf(p) = items[job.item].purchased

QInv == MatchedShares /\ OtherRows /\ RowAtHand

LEMMA NothingToAllot ==
  ASSUME job'.op \notin Allocation \cup {"distribute"}
  PROVE  QInv'
BY DEF QInv, MatchedShares, OtherRows, RowAtHand, Allocation, AtHand

\* Bids that all have an allocation are allotted its sum; in full, what they
\* ask for.
LEMMA AllAllotted ==
  ASSUME NEW p \in Products, \A k \in Counted(p) : bids[k].distributed # None
  PROVE  AllottedOf(p) = SumOf([k \in Counted(p) |-> bids[k].distributed])
<1>1. {k \in Counted(p) : bids[k].distributed # None} = Counted(p)
  OBVIOUS
<1> QED BY <1>1 DEF AllottedOf

LEMMA InFullAllotted ==
  ASSUME TypeOK, NEW p \in Products, InFull(Counted(p))
  PROVE  AllottedOf(p) = Total(p)
<1>1. Counted(p) \in SUBSET HasBid
  BY DEF Counted, BidsOn
<1>2. \A k \in Counted(p) :
        bids[k].distributed = bids[k].quantity /\ bids[k].quantity \in Nat
  BY <1>1 DEF InFull, TypeOK, HasBid, Bid
<1>3. \A k \in Counted(p) : bids[k].distributed # None
  BY <1>2, NoneAssumption
<1>4. [k \in Counted(p) |-> bids[k].distributed]
        = [k \in Counted(p) |-> bids[k].quantity]
  BY <1>2
<1> QED BY <1>1, <1>3, <1>4, AllAllotted, TotalSum DEF Total

LEMMA SameAllotted ==
  ASSUME NEW p \in Products, Counted(p)' = Counted(p),
         \A k \in Counted(p) : bids'[k].distributed = bids[k].distributed
  PROVE  AllottedOf(p)' = AllottedOf(p)
<1> DEFINE K == {k \in Counted(p) : bids[k].distributed # None}
<1>1. {k \in Counted(p)' : bids'[k].distributed # None} = K
  OBVIOUS
<1>2. [k \in K |-> bids'[k].distributed] = [k \in K |-> bids[k].distributed]
  OBVIOUS
<1>3. AllottedOf(p)'
        = SumOf([k \in {k \in Counted(p)' : bids'[k].distributed # None} |->
                   bids'[k].distributed])
  BY DEF AllottedOf
<1> QED BY <1>1, <1>2, <1>3 DEF AllottedOf

\* Writing a bid leaves the bids on other products alone.
LEMMA OtherProducts ==
  ASSUME TypeOK, NEW u, NEW p \in Products, NEW b,
         bids' = [bids EXCEPT ![<<u, p>>] = b], NEW q \in Products, q # p
  PROVE  Counted(q)' = Counted(q) /\ AllottedOf(q)' = AllottedOf(q)
<1>1. \A k \in Keys : k[2] = q => bids'[k] = bids[k]
  BY DEF TypeOK, Keys
<1>2. Counted(q)' = Counted(q)
  BY <1>1 DEF Counted, BidsOn, HasBid
<1>3. \A k \in Counted(q) : bids'[k] = bids[k]
  BY <1>1 DEF Counted, BidsOn, HasBid
<1> QED BY <1>2, <1>3, SameAllotted

\* What a commit of the allocation leaves as it is.
SamePurchases ==
  /\ Bought' = Bought
  /\ \A p \in Products : ItemsOf(p)' = ItemsOf(p)
  /\ \A i \in DOMAIN items : /\ items'[i].product = items[i].product
                             /\ items'[i].purchased = items[i].purchased

LEMMA SameItemsPurchases == items' = items => SamePurchases
BY DEF SamePurchases, Bought, ItemsOf

LEMMA RequestKeepsPurchases ==
  ASSUME items \in Seq(Item), NEW i \in DOMAIN items, NEW n,
         items' = [items EXCEPT ![i].requested = n]
  PROVE  SamePurchases
<1> DEFINE new == [items[i] EXCEPT !.requested = n]
<1>1. items[i] \in Item
  BY ListedItem
<1>2. new.product = items[i].product /\ new.purchased = items[i].purchased
  BY <1>1 DEF Item
<1>3. items' = [items EXCEPT ![i] = new]
  OBVIOUS
<1> HIDE DEF new
<1>4. DOMAIN items' = DOMAIN items
  BY <1>3
<1>5. \A j \in DOMAIN items : /\ items'[j].product = items[j].product
                              /\ items'[j].purchased = items[j].purchased
  BY <1>2, <1>3
<1>6. Bought' = Bought
  BY <1>4, <1>5 DEF Bought
<1>7. \A p \in Products : ItemsOf(p)' = ItemsOf(p)
  BY <1>4, <1>5 DEF ItemsOf
<1> QED BY <1>5, <1>6, <1>7 DEF SamePurchases

\* A commit for the row at hand deals with no other row.
LEMMA OtherRowsKept ==
  ASSUME IInv, OtherRows, job.op \in AtHand, job.item \notin job.items,
         NEW p \in Products, items[job.item].product = p, SamePurchases,
         job'.op \in Allocation, job'.items = job.items, job'.known = job.known,
         \A q \in Products \ {p} : /\ Counted(q)' = Counted(q)
                                   /\ AllottedOf(q)' = AllottedOf(q),
         ItemsOf(p) = {job.item} =>
           \/ job'.op \in AtHand /\ job'.item = job.item
           \/ AllottedOf(p)' = items[job.item].purchased
  PROVE  OtherRows'
<1> SUFFICES ASSUME NEW q \in Products, NEW i \in Bought', ItemsOf(q)' = {i}
             PROVE  /\ i \in job.items => Counted(q)' \subseteq job.known
                    /\ \/ i \in job.items
                       \/ job'.op \in AtHand /\ i = job'.item
                       \/ AllottedOf(q)' = items'[i].purchased
  BY DEF OtherRows
<1>1. /\ i \in Bought /\ ItemsOf(q) = {i} /\ i \in DOMAIN items
      /\ items'[i].purchased = items[i].purchased
  BY DEF SamePurchases, Bought
<1>2. job.item \in DOMAIN items
  <2>1. job.item \in Bought
    BY ItemAtHand DEF AtHand, Allocation
  <2> QED BY <2>1 DEF Bought
<1>3. CASE q = p
  <2>1. i = job.item
    BY <1>1, <1>2, <1>3 DEF ItemsOf
  <2> QED BY <1>1, <1>3, <2>1
<1>4. CASE q # p
  <2>1. i # job.item
    BY <1>1, <1>4 DEF ItemsOf
  <2>2. job.op \in Allocation
    BY DEF AtHand
  <2>3. /\ i \in job.items => Counted(q) \subseteq job.known
        /\ i \in job.items \/ AllottedOf(q) = items[i].purchased
    BY <1>1, <2>1, <2>2 DEF OtherRows
  <2> QED BY <1>1, <1>4, <2>3
<1> QED BY <1>3, <1>4

\* Every bid on a bought product is to get what it asks for.
LEMMA CompleteMatchedQInv ==
  ASSUME IInv, NEW u \in Users, CompleteMatched(u)
  PROVE  QInv'
<1>1. /\ Mismatched = {} /\ items' = items /\ bids' = bids
      /\ job' = [op |-> "distribute",
                 bids |-> UNION {Counted(items[i].product) : i \in Bought}]
  BY DEF CompleteMatched, run
<1>2. ASSUME NEW p \in Products, NEW i \in ItemsOf(p)' \cap Bought'
      PROVE  /\ items'[i].purchased = items'[i].requested
             /\ InFull(Counted(p) \ job.bids)'
  <2>1. i \in Bought /\ i \in DOMAIN items /\ items[i].product = p
    BY <1>1 DEF ItemsOf, Bought
  <2>2. items[i].requested \in Nat /\ items[i].purchased \in Nat
    BY <2>1, ListedItem DEF IInv, TypeOK
  <2>3. Difference(items[i]) = 0 /\ items[i].purchased # None
    BY <1>1, <2>1 DEF Mismatched, Bought
  <2>4. items[i].purchased = items[i].requested
    BY <2>2, <2>3 DEF Difference
  <2>5. Counted(p)' = Counted(p)
    BY <1>1 DEF Counted, BidsOn, HasBid
  <2>6. Counted(p) \subseteq job'.bids
    BY <1>1, <2>1
  <2> QED BY <1>1, <2>4, <2>5, <2>6 DEF InFull
<1>3. job'.op = "distribute"
  BY <1>1
<1> QED BY <1>2, <1>3 DEF QInv, MatchedShares, OtherRows, RowAtHand, Allocation,
                          AtHand

LEMMA DistributeBidQInv ==
  ASSUME IInv, QInv, DistributeBid
  PROVE  QInv'
<1>1. /\ job \in DistributeJobs /\ job.bids \subseteq HasBid
      /\ job.op = "distribute" /\ items' = items
  BY JobShapes DEF DistributeBid, IInv, TypeOK, ReadsStayTrue, BidsStayThere
<1>2. PICK k \in job.bids :
        /\ bids' = [bids EXCEPT ![k].distributed = bids[k].quantity]
        /\ job' = [job EXCEPT !.bids = @ \ {k}]
  BY DEF DistributeBid
<1>3. k \in HasBid /\ bids[k] \in Bid /\ bids[k].quantity \in Int
  BY <1>1, <1>2 DEF IInv, TypeOK, HasBid, Bid
<1>4. \A p \in Products : Counted(p)' = Counted(p)
  BY <1>2, <1>3, AllocationKeepsBids DEF IInv, TypeOK
<1>5. job'.op = "distribute" /\ job'.bids = job.bids \ {k}
  BY <1>1, <1>2 DEF DistributeJobs
<1>6. \A j \in HasBid :
        /\ bids'[j].quantity = bids[j].quantity
        /\ bids'[j].distributed = IF j = k THEN bids[k].quantity
                                  ELSE bids[j].distributed
  BY <1>2, <1>3 DEF IInv, TypeOK, HasBid, Bid
<1>7. ASSUME NEW p \in Products, NEW i \in ItemsOf(p)' \cap Bought'
      PROVE  /\ items'[i].purchased = items'[i].requested
             /\ InFull(Counted(p) \ job.bids)'
  <2>1. i \in ItemsOf(p) \cap Bought
    BY <1>1 DEF ItemsOf, Bought
  <2>2. /\ items[i].purchased = items[i].requested
        /\ InFull(Counted(p) \ job.bids)
    BY <1>1, <2>1 DEF QInv, MatchedShares
  <2>3. Counted(p) \subseteq HasBid
    BY DEF Counted, BidsOn
  <2> QED BY <1>1, <1>4, <1>5, <1>6, <2>2, <2>3 DEF InFull
<1> QED BY <1>5, <1>7 DEF QInv, MatchedShares, OtherRows, RowAtHand, Allocation,
                          AtHand

\* The handler knows every bid there is.
LEMMA FinishAdjustingQInv ==
  ASSUME NEW u \in Users, NEW force \in BOOLEAN, FinishAdjusting(u, force)
  PROVE  QInv'
<1>1. /\ items' = items /\ bids' = bids
      /\ job' = [op |-> "allocate", items |-> Bought, known |-> HasBid]
  BY DEF FinishAdjusting, run
<1>2. Bought' = Bought /\ \A p \in Products : Counted(p)' \subseteq HasBid
  BY <1>1 DEF Counted, BidsOn, HasBid, Bought
<1>3. OtherRows'
  BY <1>1, <1>2 DEF OtherRows
<1> QED BY <1>1, <1>3 DEF QInv, MatchedShares, RowAtHand, AtHand

\* A row is taken up: nobody has a share of it yet, and when there is not
\* enough of it somebody asks for it.
LEMMA AllocateItemQInv ==
  ASSUME IInv, QInv, AllocateItem
  PROVE  QInv'
<1>1. job \in AllocateJobs /\ job.op = "allocate" /\ job.items \subseteq Bought
  BY JobShapes DEF AllocateItem, IInv, TypeOK, ReadsStayTrue, ItemsStayBought
<1>2. PICK i \in job.items :
        /\ items' = [items EXCEPT ![i].requested = TotalOf(Sharers(i))]
        /\ job' = ShareOut(i)
  BY DEF AllocateItem
<1>3. /\ i \in Bought /\ i \in DOMAIN items /\ items[i].purchased \in Nat
      /\ bids' = bids
  BY <1>1, <1>2, ListedItem DEF Bought, AllocateItem, IInv, TypeOK
<1>4. SamePurchases
  BY <1>2, <1>3, RequestKeepsPurchases DEF IInv, TypeOK
<1>5. items'[i].requested = TotalOf(Sharers(i))
  <2>1. TotalOf(Sharers(i)) \in Nat
    BY TotalIsNat DEF Sharers, Counted, BidsOn, IInv, TypeOK
  <2> QED BY <1>2, <1>3, <2>1, RequestKeepsItems DEF IInv, TypeOK
<1>6. /\ job'.op = "share" /\ job'.items = job.items \ {i} /\ job'.item = i
      /\ job'.known = job.known /\ job'.bids = Sharers(i) /\ job'.given = 0
  BY <1>2 DEF ShareOut
<1>7. \A p \in Products : /\ Counted(p)' = Counted(p)
                          /\ AllottedOf(p)' = AllottedOf(p)
  <2>1. \A p \in Products : Counted(p)' = Counted(p)
    BY <1>3 DEF Counted, BidsOn, HasBid
  <2> QED BY <1>3, <2>1, SameAllotted
<1>8. OtherRows'
  <2> SUFFICES ASSUME NEW p \in Products, NEW j \in Bought', ItemsOf(p)' = {j}
               PROVE  /\ j \in job'.items => Counted(p)' \subseteq job'.known
                      /\ \/ j \in job'.items
                         \/ job'.op \in AtHand /\ j = job'.item
                         \/ AllottedOf(p)' = items'[j].purchased
    BY DEF OtherRows
  <2>1. /\ j \in Bought /\ ItemsOf(p) = {j}
        /\ items'[j].purchased = items[j].purchased
    BY <1>4 DEF SamePurchases, Bought
  <2>2. /\ j \in job.items => Counted(p) \subseteq job.known
        /\ j \in job.items \/ AllottedOf(p) = items[j].purchased
    BY <1>1, <2>1 DEF QInv, OtherRows, Allocation, AtHand
  <2> QED BY <1>6, <1>7, <2>1, <2>2 DEF AtHand, Allocation
<1>9. ASSUME NEW p \in Products, items'[i].product = p
      PROVE  SharesSoFar(p)'
  <2>1. items[i].product = p
    BY <1>3, <1>4, <1>9 DEF SamePurchases
  <2>2. /\ job'.bids = job.known \cap Counted(p)
        /\ (job'.known \cap Counted(p)') \ job'.bids = {}
    BY <1>6, <1>7, <2>1 DEF Sharers
  <2>3. ItemsOf(p)' = {job'.item} => Counted(p)' \subseteq job'.known
    BY <1>1, <1>2, <1>3, <1>4, <1>6, <1>7 DEF SamePurchases, QInv, OtherRows, Allocation
  <2>4. SumOf([k \in {} |-> bids'[k].distributed]) = 0
    <3> DEFINE f == [k \in {} |-> bids'[k].distributed]
    <3>1. \A k \in DOMAIN f : f[k] = 0
      OBVIOUS
    <3> HIDE DEF f
    <3>2. SumOf(f) = 0
      BY <3>1, SumOfZeros
    <3> QED BY <3>2 DEF f
  <2>5. ~(items'[i].requested =< items'[i].purchased) => job'.bids # {}
    <3>1. TotalOf({}) = 0
      <4>1. UNION {{k} \X (1..bids[k].quantity) : k \in {}} = {}
        OBVIOUS
      <4> QED BY <4>1, FS_EmptySet DEF TotalOf
    <3>2. items'[i].purchased = items[i].purchased
      BY <1>3, <1>4 DEF SamePurchases
    <3> QED BY <1>3, <1>5, <1>6, <3>1, <3>2
  <2> QED BY <1>6, <1>7, <2>2, <2>3, <2>4, <2>5 DEF SharesSoFar, InFull
<1>10. RowAtHand'
  BY <1>6, <1>9 DEF RowAtHand
<1>11. MatchedShares'
  BY <1>6 DEF MatchedShares
<1> QED BY <1>8, <1>10, <1>11 DEF QInv

\* A bid gets its share: in full, or what is added to what was given.
LEMMA AllocateBidQInv ==
  ASSUME IInv, QInv, AllocateBid
  PROVE  QInv'
<1>1. /\ job \in ShareJobs /\ job.op = "share" /\ job.bids \subseteq HasBid
      /\ items' = items /\ job.given \in Int
  BY JobShapes
  DEF AllocateBid, IInv, TypeOK, ReadsStayTrue, BidsStayThere, ShareJobs
<1>2. PICK k \in job.bids :
        \E share \in SharesOf(items[job.item], bids[k].quantity,
                              job.bids = {k}, job.given) :
          /\ bids' = [bids EXCEPT ![k].distributed = share]
          /\ job' = [job EXCEPT !.bids = @ \ {k}, !.given = @ + share]
  BY DEF AllocateBid
<1>3. PICK share \in SharesOf(items[job.item], bids[k].quantity,
                              job.bids = {k}, job.given) :
        /\ bids' = [bids EXCEPT ![k].distributed = share]
        /\ job' = [job EXCEPT !.bids = @ \ {k}, !.given = @ + share]
  BY <1>2
<1>4. /\ job.item \in Bought /\ items[job.item].product \in Products
      /\ items[job.item].requested \in Nat /\ items[job.item].purchased \in Nat
  BY <1>1, ItemAtHand
<1> PICK p \in Products : p = items[job.item].product
  BY <1>4
<1>5. SharesSoFar(p) /\ job.item \notin job.items
  BY <1>1 DEF QInv, RowAtHand, AtHand, Allocation
<1>6. k \in HasBid /\ k \in Counted(p) /\ k \in job.known /\ bids[k] \in Bid
  BY <1>1, <1>2, <1>5 DEF IInv, TypeOK, HasBid, SharesSoFar
<1>7. bids[k].quantity \in Nat
  BY <1>6 DEF Bid
<1>8. share \in Int
  <2>1. \A n, d : Rounded(n, d) \subseteq Int
    BY DEF Rounded
  <2> QED BY <1>1, <1>3, <1>4, <1>7, <2>1 DEF SharesOf
<1>9. \A q \in Products : Counted(q)' = Counted(q)
  BY <1>3, <1>6, <1>8, AllocationKeepsBids DEF IInv, TypeOK
<1>10. /\ bids'[k].quantity = bids[k].quantity /\ bids'[k].distributed = share
       /\ \A j \in Keys \ {k} : bids'[j] = bids[j]
  BY <1>3, <1>6 DEF IInv, TypeOK, HasBid, Bid
<1>11. /\ job'.op = "share" /\ job'.item = job.item /\ job'.items = job.items
       /\ job'.known = job.known /\ job'.bids = job.bids \ {k}
       /\ job'.given = job.given + share
  BY <1>1, <1>3 DEF ShareJobs
<1> DEFINE served == (job.known \cap Counted(p)) \ job.bids
<1>12. /\ (job'.known \cap Counted(p)') \ job'.bids = served \cup {k}
       /\ k \notin served /\ served \subseteq HasBid /\ served \subseteq Keys
  BY <1>2, <1>6, <1>9, <1>11 DEF Counted, BidsOn, HasBid
<1>13. ASSUME items[job.item].requested =< items[job.item].purchased
       PROVE  \A j \in served \cup {k} :
                bids'[j].distributed = bids'[j].quantity
  <2>1. share = bids[k].quantity
    BY <1>3, <1>13 DEF SharesOf
  <2>2. InFull(served)
    BY <1>5, <1>13 DEF SharesSoFar
  <2> QED BY <1>10, <1>12, <2>1, <2>2 DEF InFull
<1>14. ASSUME ~(items[job.item].requested =< items[job.item].purchased)
       PROVE  /\ \A j \in served \cup {k} : bids'[j].distributed \in Int
              /\ SumOf([j \in served \cup {k} |-> bids'[j].distributed])
                   = job'.given
              /\ job'.bids = {} => job'.given = items[job.item].purchased
  <2> DEFINE f == [j \in served \cup {k} |-> bids'[j].distributed]
  <2>1. /\ \A j \in served : bids[j].distributed \in Int
        /\ SumOf([j \in served |-> bids[j].distributed]) = job.given
    BY <1>5, <1>14 DEF SharesSoFar
  <2>2. \A j \in served : bids'[j].distributed = bids[j].distributed
    BY <1>10, <1>12
  <2>3. [j \in served |-> f[j]] = [j \in served |-> bids[j].distributed]
    BY <2>2
  <2>4. f \in [served \cup {k} -> Int] /\ f[k] = share
    BY <1>8, <1>10, <2>1, <2>2
  <2>5. IsFiniteSet(served)
    BY <1>12, FiniteBids
  <2> HIDE DEF served, f
  <2>6. SumOf(f) = SumOf([j \in served |-> f[j]]) + share
    BY <1>12, <2>4, <2>5, SumMore
  <2>7. SumOf(f) = job'.given
    BY <1>11, <2>1, <2>3, <2>6
  <2>8. ASSUME job'.bids = {} PROVE job'.given = items[job.item].purchased
    <3>1. job.bids = {k}
      BY <1>2, <1>11, <2>8
    <3>2. share = items[job.item].purchased - job.given
      BY <1>3, <1>14, <3>1 DEF SharesOf
    <3> QED BY <1>1, <1>4, <1>11, <3>2
  <2>9. \A j \in served \cup {k} : bids'[j].distributed \in Int
    BY <1>8, <1>10, <2>1, <2>2
  <2> QED BY <2>7, <2>8, <2>9 DEF f
<1>15. SharesSoFar(p)'
  <2>1. job'.bids \subseteq job'.known \cap Counted(p)'
    BY <1>5, <1>9, <1>11 DEF SharesSoFar
  <2>2. ItemsOf(p)' = {job'.item} => Counted(p)' \subseteq job'.known
    BY <1>1, <1>5, <1>9, <1>11 DEF SharesSoFar, ItemsOf
  <2>3. items'[job'.item] = items[job.item]
    BY <1>1, <1>11
  <2> DEFINE next == (job'.known \cap Counted(p)') \ job'.bids
  <2>4. next = served \cup {k}
    BY <1>12
  <2> HIDE DEF served, next
  <2>5. items[job.item].requested =< items[job.item].purchased =>
          \A j \in next : bids'[j].distributed = bids'[j].quantity
    BY <1>13, <2>4
  <2>6. ~(items[job.item].requested =< items[job.item].purchased) =>
          /\ \A j \in next : bids'[j].distributed \in Int
          /\ SumOf([j \in next |-> bids'[j].distributed]) = job'.given
          /\ job'.bids = {} => job'.given = items[job.item].purchased
    BY <1>14, <2>4
  <2> QED BY <2>1, <2>2, <2>3, <2>5, <2>6 DEF SharesSoFar, InFull, next
<1>16. RowAtHand'
  BY <1>1, <1>5, <1>11, <1>15 DEF RowAtHand
<1>17. \A q \in Products \ {p} : AllottedOf(q)' = AllottedOf(q)
  <2> SUFFICES ASSUME NEW q \in Products \ {p}
               PROVE  AllottedOf(q)' = AllottedOf(q)
    OBVIOUS
  <2>1. \A j \in Counted(q) : bids'[j].distributed = bids[j].distributed
    BY <1>6, <1>10 DEF Counted, BidsOn, HasBid
  <2> QED BY <1>9, <2>1, SameAllotted
<1>18. OtherRows'
  <2>1. SamePurchases
    BY <1>1, SameItemsPurchases
  <2>2. job.op \in AtHand /\ job'.op \in AtHand /\ job'.op \in Allocation
    BY <1>1, <1>11 DEF AtHand, Allocation
  <2> QED BY <1>5, <1>9, <1>11, <1>17, <2>1, <2>2, OtherRowsKept DEF QInv
<1>19. MatchedShares'
  BY <1>11 DEF MatchedShares
<1> QED BY <1>16, <1>18, <1>19 DEF QInv

\* A row that is listed once and all of whose bids are known asks for what
\* they ask for.
LEMMA OnlyRow ==
  ASSUME IInv, QInv, job.op = "share", NEW p \in Products,
         items[job.item].product = p, ItemsOf(p) = {job.item}
  PROVE  /\ Sharers(job.item) = Counted(p)
         /\ items[job.item].requested = Total(p)
<1>1. SharesSoFar(p)
  BY DEF QInv, RowAtHand
<1>2. Sharers(job.item) = Counted(p)
  BY <1>1 DEF SharesSoFar, Sharers
<1> QED BY <1>2 DEF IInv, ReadsStayTrue, RequestStaysTheirs, Total

\* The row is dealt with: there was just enough, or the last one got what
\* was left.
LEMMA ItemAllocatedQInv ==
  ASSUME IInv, LInv, QInv, ItemAllocated
  PROVE  QInv'
<1>1. /\ job.op = "share" /\ job.bids = {} /\ Surplus =< 0
      /\ job' = NextItem /\ items' = items /\ bids' = bids
  BY DEF ItemAllocated, LInv, OneLeader, run
<1>2. /\ job.item \in Bought /\ items[job.item].product \in Products
      /\ items[job.item].requested \in Nat /\ items[job.item].purchased \in Nat
  BY <1>1, ItemAtHand
<1> PICK p \in Products : p = items[job.item].product
  BY <1>2
<1>3. SharesSoFar(p) /\ job.item \notin job.items
  BY <1>1 DEF QInv, RowAtHand, AtHand, Allocation
<1>4. /\ job'.op = "allocate" /\ job'.items = job.items
      /\ job'.known = job.known
  BY <1>1 DEF NextItem
<1>5. \A q \in Products : /\ Counted(q)' = Counted(q)
                          /\ AllottedOf(q)' = AllottedOf(q)
  <2>1. \A q \in Products : Counted(q)' = Counted(q)
    BY <1>1 DEF Counted, BidsOn, HasBid
  <2> QED BY <1>1, <2>1, SameAllotted
<1>6. ASSUME ItemsOf(p) = {job.item}
      PROVE  AllottedOf(p) = items[job.item].purchased
  <2>1. (job.known \cap Counted(p)) \ job.bids = Counted(p)
    BY <1>1, <1>3, <1>6 DEF SharesSoFar
  <2>2. CASE items[job.item].requested =< items[job.item].purchased
    <3>1. InFull(Counted(p))
      BY <1>3, <2>1, <2>2 DEF SharesSoFar
    <3>2. AllottedOf(p) = Total(p)
      BY <3>1, InFullAllotted DEF IInv
    <3>3. items[job.item].requested = items[job.item].purchased
      BY <1>1, <1>2, <2>2 DEF Surplus
    <3>4. items[job.item].requested = Total(p)
      BY <1>1, <1>6, OnlyRow
    <3> QED BY <3>2, <3>3, <3>4
  <2>3. CASE ~(items[job.item].requested =< items[job.item].purchased)
    <3>1. /\ \A k \in Counted(p) : bids[k].distributed \in Int
          /\ SumOf([k \in Counted(p) |-> bids[k].distributed])
               = items[job.item].purchased
      BY <1>1, <1>3, <2>1, <2>3 DEF SharesSoFar
    <3> QED BY <3>1, NoneAssumption, AllAllotted
  <2> QED BY <2>2, <2>3
<1>7. OtherRows'
  <2>1. job.op \in AtHand /\ job'.op \in Allocation
    BY <1>1, <1>4 DEF AtHand, Allocation
  <2> QED BY <1>1, <1>3, <1>4, <1>5, <1>6, <2>1, SameItemsPurchases, OtherRowsKept
          DEF QInv
<1> QED BY <1>4, <1>7 DEF QInv, MatchedShares, RowAtHand, AtHand

\* The leader takes the surplus on top of what her bid asked for, so that the
\* bids now ask for all there is.
LEMMA TakeSurplusQInv ==
  ASSUME IInv, IInv', QInv, TakeSurplus
  PROVE  QInv'
<1>1. /\ job.op = "share" /\ job.bids = {} /\ Surplus > 0 /\ items' = items
  BY DEF TakeSurplus
<1>2. /\ job.item \in Bought /\ items[job.item].product \in Products
      /\ items[job.item].requested \in Nat /\ items[job.item].purchased \in Nat
  BY <1>1, ItemAtHand
<1> PICK p \in Products : p = items[job.item].product
  BY <1>2
<1>3. SharesSoFar(p) /\ job.item \notin job.items
  BY <1>1 DEF QInv, RowAtHand, AtHand, Allocation
<1>4. PICK u \in leaders :
        /\ bids' = [bids EXCEPT ![<<u, p>>] = WithSurplus(<<u, p>>)]
        /\ job' = SurplusStep("surplus_alloc", u)
  BY DEF TakeSurplus
<1>5. /\ job'.op = "surplus_alloc" /\ job'.items = job.items
      /\ job'.known = job.known /\ job'.item = job.item /\ job'.user = u
  BY <1>4 DEF SurplusStep
<1>6. \A q \in Products \ {p} : /\ Counted(q)' = Counted(q)
                                /\ AllottedOf(q)' = AllottedOf(q)
  BY <1>4, OtherProducts DEF IInv
<1> DEFINE k == <<u, p>>
           b == WithSurplus(<<u, p>>)
<1>7. k \in Keys /\ k[2] = p
  BY DEF IInv, TypeOK, Keys
<1>8. /\ b.quantity = (IF k \in Sharers(job.item)
                       THEN bids[k].quantity ELSE 0) + Surplus
      /\ ~b.interested
  BY DEF WithSurplus, Rebid
<1>9. bids' = [bids EXCEPT ![k] = b]
  BY <1>4
<1> HIDE DEF k, b
<1>10. bids'[k] = b /\ \A j \in Keys \ {k} : bids'[j] = bids[j]
  BY <1>7, <1>9 DEF IInv, TypeOK
<1>11. b # None
  <2>1. k \in HasBid'
    <3>1. <<job'.user, items'[job'.item].product>> \in HasBid'
      BY <1>5 DEF IInv, ReadsStayTrue, BidsStayThere
    <3> QED BY <1>1, <1>5, <3>1 DEF k
  <2> QED BY <1>10, <2>1 DEF HasBid
<1>12. Counted(p)' = Counted(p) \cup {k}
  BY <1>7, <1>8, <1>10, <1>11 DEF Counted, BidsOn, HasBid
<1>13. ASSUME ItemsOf(p) = {job.item}
       PROVE  /\ Total(p)' = items[job.item].purchased
              /\ \A j \in Counted(p)' \ {k} :
                   bids'[j].distributed = bids'[j].quantity
  <2>1. /\ Sharers(job.item) = Counted(p)
        /\ items[job.item].requested = Total(p)
    BY <1>1, <1>13, OnlyRow
  <2>2. InFull(Counted(p))
    <3>1. (job.known \cap Counted(p)) \ job.bids = Counted(p)
      BY <1>1, <1>3, <1>13 DEF SharesSoFar
    <3>2. items[job.item].requested =< items[job.item].purchased
      BY <1>1, <1>2 DEF Surplus
    <3> QED BY <1>3, <3>1, <3>2 DEF SharesSoFar
  <2>3. \A j \in Counted(p) \ {k} : bids'[j] = bids[j]
    BY <1>10 DEF Counted, BidsOn, HasBid
  <2> DEFINE f == [j \in Counted(p) |-> bids[j].quantity]
             g == [j \in Counted(p)' |-> bids'[j].quantity]
  <2>4. Counted(p) \in SUBSET HasBid /\ IsFiniteSet(Counted(p))
    BY FiniteBids DEF Counted, BidsOn
  <2>5. /\ Total(p) = SumOf(f) /\ Total(p)' = SumOf(g)
        /\ SumOf(f) \in Int
    <3>1. f \in [Counted(p) -> Int]
      BY <2>4 DEF IInv, TypeOK, HasBid, Bid
    <3>2. Total(p) = SumOf(f)
      BY <2>4, TotalSum DEF IInv, Total
    <3>3. Total(p)' = SumOf(g)
      BY NextTotalSum DEF IInv
    <3> HIDE DEF f, g
    <3> QED BY <2>4, <3>1, <3>2, <3>3, SumType
  <2>6. SumOf(g) = SumOf(f) + Surplus
    <3>1. \A j \in Counted(p) : bids[j].quantity \in Nat
      BY <2>4 DEF IInv, TypeOK, HasBid, Bid
    <3>2. Surplus \in Nat
      BY <1>1, <1>2 DEF Surplus
    <3>3. CASE k \in Counted(p)
      <4>1. /\ f \in [Counted(p) -> Int] /\ f[k] = bids[k].quantity
            /\ bids[k].quantity + Surplus \in Int /\ bids[k].quantity \in Int
        BY <3>1, <3>2, <3>3
      <4>2. g = [f EXCEPT ![k] = bids[k].quantity + Surplus]
        <5>1. Counted(p)' = Counted(p)
          BY <1>12, <3>3
        <5>2. b.quantity = bids[k].quantity + Surplus
          BY <1>8, <2>1, <3>3
        <5> QED BY <1>10, <2>3, <3>3, <5>1, <5>2
      <4> HIDE DEF f, g
      <4>3. SumOf(g) = SumOf(f) - f[k] + (bids[k].quantity + Surplus)
        BY <2>4, <3>3, <4>1, <4>2, SumChanged
      <4> QED BY <2>5, <3>2, <4>1, <4>3
    <3>4. CASE k \notin Counted(p)
      <4>1. b.quantity = Surplus
        BY <1>8, <2>1, <3>2, <3>4
      <4>2. g \in [Counted(p) \cup {k} -> Int] /\ g[k] = Surplus
        BY <1>10, <1>12, <2>3, <3>1, <3>2, <3>4, <4>1
      <4>3. [j \in Counted(p) |-> g[j]] = f
        BY <1>12, <2>3, <3>4
      <4> HIDE DEF f, g
      <4>4. SumOf(g) = SumOf([j \in Counted(p) |-> g[j]]) + g[k]
        BY <2>4, <3>4, <4>2, SumMore
      <4> QED BY <4>2, <4>3, <4>4
    <3> QED BY <3>3, <3>4
  <2> HIDE DEF f, g
  <2>7. Total(p)' = items[job.item].purchased
    BY <1>2, <2>1, <2>5, <2>6 DEF Surplus
  <2>8. \A j \in Counted(p)' \ {k} : bids'[j].distributed = bids'[j].quantity
    BY <1>12, <2>2, <2>3 DEF InFull
  <2> QED BY <2>7, <2>8
<1>14. OtherRows'
  <2>1. job.op \in AtHand /\ job'.op \in AtHand /\ job'.op \in Allocation
    BY <1>1, <1>5 DEF AtHand, Allocation
  <2> QED BY <1>1, <1>3, <1>5, <1>6, <2>1, SameItemsPurchases, OtherRowsKept
          DEF QInv
<1>15. RowAtHand'
  <2>1. ASSUME NEW q \in Products, ItemsOf(q)' = {job'.item}
        PROVE  /\ Total(q)' = items'[job'.item].purchased
               /\ \A j \in Counted(q)' \ {<<job'.user, q>>} :
                    bids'[j].distributed = bids'[j].quantity
    <3>1. ItemsOf(q) = {job.item} /\ q = p
      BY <1>1, <1>5, <2>1 DEF ItemsOf
    <3> QED BY <1>1, <1>5, <1>13, <3>1 DEF k
  <2> QED BY <1>3, <1>5, <2>1 DEF RowAtHand, InFull
<1>16. MatchedShares'
  BY <1>5 DEF MatchedShares
<1> QED BY <1>14, <1>15, <1>16 DEF QInv

LEMMA NextInFullAllotted ==
  (\A p \in Products :
     TypeOK /\ InFull(Counted(p)) => AllottedOf(p) = Total(p))'
<1>1. \A p \in Products :
        TypeOK /\ InFull(Counted(p)) => AllottedOf(p) = Total(p)
  BY InFullAllotted
<1> QED BY <1>1, PTL

\* The surplus is allotted to the leader: everybody has what she asks for.
LEMMA AllocateSurplusQInv ==
  ASSUME IInv, IInv', QInv, AllocateSurplus
  PROVE  QInv'
<1>1. job.op = "surplus_alloc" /\ items' = items
  BY DEF AllocateSurplus
<1>2. job.item \in Bought /\ items[job.item].product \in Products
  BY <1>1, ItemAtHand
<1> PICK p \in Products : p = items[job.item].product
  BY <1>2
<1>3. job.item \notin job.items
  BY <1>1 DEF QInv, RowAtHand, AtHand, Allocation
<1> DEFINE k == <<job.user, p>>
<1>4. /\ k \in HasBid /\ k[2] = p
      /\ bids' = [bids EXCEPT ![k].distributed = bids[k].quantity]
      /\ job' = SurplusStep("surplus_request", job.user)
  BY <1>1 DEF AllocateSurplus, IInv, ReadsStayTrue, BidsStayThere
<1>5. /\ job'.op = "surplus_request" /\ job'.items = job.items
      /\ job'.known = job.known /\ job'.item = job.item
  BY <1>4 DEF SurplusStep
<1> HIDE DEF k
<1>6. bids[k] \in Bid /\ bids[k].quantity \in Int
  BY <1>4 DEF IInv, TypeOK, HasBid, Bid
<1>7. \A q \in Products : Counted(q)' = Counted(q) /\ Total(q)' = Total(q)
  <2>1. \A q \in Products : Counted(q)' = Counted(q)
    BY <1>4, <1>6, AllocationKeepsBids DEF IInv, TypeOK
  <2> QED BY <1>4, <1>6, <2>1, AllocationKeepsDemand DEF SameDemand, IInv
<1>8. /\ bids'[k].quantity = bids[k].quantity
      /\ bids'[k].distributed = bids[k].quantity
      /\ \A j \in Keys \ {k} : bids'[j] = bids[j]
  BY <1>4, <1>6 DEF IInv, TypeOK, HasBid, Bid
<1>9. \A q \in Products \ {p} : AllottedOf(q)' = AllottedOf(q)
  <2> SUFFICES ASSUME NEW q \in Products \ {p}
               PROVE  AllottedOf(q)' = AllottedOf(q)
    OBVIOUS
  <2>1. \A j \in Counted(q) : bids'[j].distributed = bids[j].distributed
    BY <1>4, <1>8 DEF Counted, BidsOn, HasBid
  <2> QED BY <1>7, <2>1, SameAllotted
<1>10. ASSUME ItemsOf(p) = {job.item}
       PROVE  AllottedOf(p)' = items[job.item].purchased
  <2>1. /\ Total(p) = items[job.item].purchased
        /\ InFull(Counted(p) \ {k})
    BY <1>1, <1>10 DEF QInv, RowAtHand, k
  <2>2. \A j \in Counted(p)' : bids'[j].distributed = bids'[j].quantity
    BY <1>7, <1>8, <2>1 DEF InFull, Counted, BidsOn, HasBid
  <2>3. AllottedOf(p)' = Total(p)'
    BY <2>2, NextInFullAllotted DEF InFull, IInv
  <2> QED BY <1>7, <2>1, <2>3
<1>11. OtherRows'
  <2>1. job.op \in AtHand /\ job'.op \in AtHand /\ job'.op \in Allocation
    BY <1>1, <1>5 DEF AtHand, Allocation
  <2> QED BY <1>1, <1>3, <1>5, <1>7, <1>9, <2>1, SameItemsPurchases, OtherRowsKept
          DEF QInv
<1>12. RowAtHand'
  <2>1. ASSUME NEW q \in Products, ItemsOf(q)' = {job'.item}
        PROVE  AllottedOf(q)' = items'[job'.item].purchased
    <3>1. ItemsOf(q) = {job.item} /\ q = p
      BY <1>1, <1>5, <2>1 DEF ItemsOf
    <3> QED BY <1>1, <1>5, <1>10, <3>1
  <2> QED BY <1>3, <1>5, <2>1 DEF RowAtHand
<1>13. MatchedShares'
  BY <1>5 DEF MatchedShares
<1> QED BY <1>11, <1>12, <1>13 DEF QInv

LEMMA RequestSurplusQInv ==
  ASSUME IInv, QInv, RequestSurplus
  PROVE  QInv'
<1>1. job.op = "surplus_request" /\ bids' = bids /\ job' = NextItem
  BY DEF RequestSurplus
<1>2. /\ job.item \in Bought /\ items[job.item].product \in Products
      /\ job.item \in DOMAIN items
  BY <1>1, ItemAtHand DEF Bought
<1> PICK p \in Products : p = items[job.item].product
  BY <1>2
<1>3. job.item \notin job.items
  BY <1>1 DEF QInv, RowAtHand, AtHand, Allocation
<1>4. SamePurchases
  BY <1>2, RequestKeepsPurchases DEF RequestSurplus, IInv, TypeOK
<1>5. /\ job'.op = "allocate" /\ job'.items = job.items
      /\ job'.known = job.known
  BY <1>1 DEF NextItem
<1>6. \A q \in Products : /\ Counted(q)' = Counted(q)
                          /\ AllottedOf(q)' = AllottedOf(q)
  <2>1. \A q \in Products : Counted(q)' = Counted(q)
    BY <1>1 DEF Counted, BidsOn, HasBid
  <2> QED BY <1>1, <2>1, SameAllotted
<1>7. ItemsOf(p) = {job.item} => AllottedOf(p)' = items[job.item].purchased
  BY <1>1, <1>6 DEF QInv, RowAtHand
<1>8. OtherRows'
  <2>1. job.op \in AtHand /\ job'.op \in Allocation
    BY <1>1, <1>5 DEF AtHand, Allocation
  <2> QED BY <1>3, <1>4, <1>5, <1>6, <1>7, <2>1, OtherRowsKept DEF QInv
<1> QED BY <1>5, <1>8 DEF QInv, MatchedShares, RowAtHand, AtHand

LEMMA JobQInv ==
  ASSUME IInv, IInv', LInv, QInv, JobStep
  PROVE  QInv'
<1>1. CASE \/ WriteFirstBid \/ RejectFirstBid \/ Activate
           \/ ShoppingStarted \/ AddItem \/ SkipDistribution
           \/ ShoppingCompleted \/ AdjustingFinished \/ MemberGone
  <2>1. job'.op \in {"activate", "idle"}
    BY <1>1
    DEF WriteFirstBid, RejectFirstBid, Activate, AfterFirstBid, ShoppingStarted,
        AddItem, SkipDistribution, ShoppingCompleted, AdjustingFinished,
        MemberGone, Idle
  <2> QED BY <2>1, NothingToAllot DEF Allocation
<1>2. CASE ListItem \/ EraseBid
  <2>1. job \in ListJobs \cup DepartJobs
    BY <1>2, JobShapes DEF ListItem, EraseBid, IInv, TypeOK
  <2>2. job'.op \in {"list", "depart"}
    BY <1>2, <2>1 DEF ListItem, EraseBid, ListJobs, DepartJobs
  <2> QED BY <2>2, NothingToAllot DEF Allocation
<1> QED
  BY <1>1, <1>2, DistributeBidQInv, AllocateItemQInv, AllocateBidQInv,
     ItemAllocatedQInv, TakeSurplusQInv, AllocateSurplusQInv, RequestSurplusQInv
  DEF JobStep

LEMMA StepQInv ==
  ASSUME IInv, IInv', LInv, QInv, [Next]_vars
  PROVE  QInv'
<1>1. CASE UNCHANGED vars
  BY <1>1
  DEF vars, QInv, MatchedShares, OtherRows, RowAtHand, SharesSoFar, InFull,
      Counted, BidsOn, HasBid, ItemsOf, Bought, AllottedOf, Total, TotalOf
<1>2. CASE Crash
  BY <1>2, NothingToAllot DEF Crash, Idle, Allocation
<1>3. CASE JobStep
  BY <1>3, JobQInv
<1>4. CASE Answer
  BY <1>4, NothingToAllot
  DEF Answer, AcceptReassignment, DeclineReassignment, CancelReassignment,
      Dropped, Idle, Allocation
<1>5. ASSUME NEW u \in Users, Bidding(u)
      PROVE  QInv'
  <2>1. job'.op \in {"idle", "first_bid"}
    BY <1>5 DEF Bidding, RetractBid, PlaceBid, JoinRun, Idle
  <2> QED BY <2>1, NothingToAllot DEF Allocation
<1>6. ASSUME NEW u \in Users, Shopping(u)
      PROVE  QInv'
  <2>1. CASE CompleteMatched(u)
    BY <2>1, CompleteMatchedQInv
  <2>2. CASE StartShopping(u) \/ CompleteUnbought(u) \/ CompleteMismatched(u)
    <3>1. job'.op \in {"idle", "list", "complete"}
      BY <2>2
      DEF StartShopping, CompleteUnbought, CompleteMismatched,
          MayCompleteShopping, Idle
    <3> QED BY <3>1, NothingToAllot DEF Allocation
  <2>3. ASSUME NEW p \in Products, NEW quantity \in AddInputs,
               AddProduct(u, p, quantity)
        PROVE  QInv'
    BY <2>3, NothingToAllot DEF AddProduct, Allocation
  <2>4. ASSUME NEW i \in DOMAIN items,
               \/ Unpurchase(u, i)
               \/ \E quantity \in PurchaseInputs :
                    MarkPurchased(u, i, quantity) \/ UpdatePurchase(u, i, quantity)
        PROVE  QInv'
    BY <2>4, NothingToAllot
    DEF Unpurchase, MarkPurchased, UpdatePurchase, SetPurchased, Idle, Allocation
  <2> QED BY <1>6, <2>1, <2>2, <2>3, <2>4 DEF Shopping
<1>7. ASSUME NEW u \in Users, Distribution(u)
      PROVE  QInv'
  <2>1. ASSUME NEW force \in BOOLEAN, FinishAdjusting(u, force)
        PROVE  QInv'
    BY <2>1, FinishAdjustingQInv
  <2>2. ASSUME (\E k \in Keys : MarkPickedUp(u, k)) \/ CompleteDistribution(u)
        PROVE  QInv'
    BY <2>2, NothingToAllot
    DEF MarkPickedUp, CompleteDistribution, Idle, Allocation
  <2> QED BY <1>7, <2>1, <2>2 DEF Distribution
<1>8. ASSUME NEW u \in Users, Governing(u)
      PROVE  QInv'
  <2>1. job'.op \in {"idle", "depart"}
    BY <1>8
    DEF Governing, ToggleReady, ForceConfirm, CancelRun, ToggleHelper,
        RequestReassignment, LeaveGroup, JoinGroup, Idle
  <2> QED BY <2>1, NothingToAllot DEF Allocation
<1> QED BY <1>1, <1>2, <1>3, <1>4, <1>5, <1>6, <1>7, <1>8 DEF Next

\* The distribution begins in three ways: with nothing bought, with as much
\* bought as was asked for, or when the last row is allotted.
LEMMA DistributionBegins ==
  ASSUME [Next]_vars, state # "distributing", state' = "distributing"
  PROVE  \/ \E u \in Users : CompleteUnbought(u)
         \/ ShoppingCompleted
         \/ AdjustingFinished
<1>1. CASE UNCHANGED vars
  BY <1>1 DEF vars
<1>2. CASE Crash
  BY <1>2 DEF Crash, run
<1>3. CASE JobStep
  <2>1. CASE WriteFirstBid \/ RejectFirstBid \/ ListItem \/ AddItem
             \/ DistributeBid \/ EraseBid
    BY <2>1
    DEF WriteFirstBid, RejectFirstBid, ListItem, AddItem, DistributeBid,
        EraseBid, run
  <2>2. CASE Activate \/ ShoppingStarted \/ SkipDistribution \/ MemberGone
    BY <2>2
    DEF Activate, ShoppingStarted, SkipDistribution, Transition, MemberGone,
        StateAfter
  <2>3. CASE AllocateItem \/ AllocateBid \/ ItemAllocated \/ TakeSurplus
             \/ AllocateSurplus \/ RequestSurplus
    BY <2>3
    DEF AllocateItem, AllocateBid, ItemAllocated, TakeSurplus, AllocateSurplus,
        RequestSurplus, run
  <2> QED BY <1>3, <2>1, <2>2, <2>3 DEF JobStep
<1>4. CASE Answer
  BY <1>4
  DEF Answer, AcceptReassignment, DeclineReassignment, CancelReassignment,
      Dropped
<1>5. ASSUME NEW u \in Users, Bidding(u)
      PROVE  FALSE
  BY <1>5 DEF Bidding, RetractBid, PlaceBid, JoinRun, run
<1>6. ASSUME NEW u \in Users, Shopping(u), ~CompleteUnbought(u)
      PROVE  FALSE
  <2>1. CASE StartShopping(u) \/ CompleteMatched(u) \/ CompleteMismatched(u)
    BY <2>1 DEF StartShopping, CompleteMatched, CompleteMismatched, run
  <2>2. ASSUME NEW p \in Products, NEW quantity \in AddInputs,
               AddProduct(u, p, quantity)
        PROVE  FALSE
    BY <2>2 DEF AddProduct
  <2>3. ASSUME NEW i \in DOMAIN items,
               \/ Unpurchase(u, i)
               \/ \E quantity \in PurchaseInputs :
                    MarkPurchased(u, i, quantity) \/ UpdatePurchase(u, i, quantity)
        PROVE  FALSE
    BY <2>3 DEF Unpurchase, MarkPurchased, UpdatePurchase, SetPurchased
  <2> QED BY <1>6, <2>1, <2>2, <2>3 DEF Shopping
<1>7. ASSUME NEW u \in Users, Distribution(u)
      PROVE  FALSE
  BY <1>7
  DEF Distribution, FinishAdjusting, MarkPickedUp, CompleteDistribution, run
<1>8. ASSUME NEW u \in Users, Governing(u)
      PROVE  FALSE
  BY <1>8
  DEF Governing, ToggleReady, ForceConfirm, CancelRun, ToggleHelper,
      RequestReassignment, LeaveGroup, JoinGroup, Transition, run
<1> QED BY <1>1, <1>2, <1>3, <1>4, <1>5, <1>6, <1>7, <1>8 DEF Next

LEMMA AllottedAtLast ==
  ASSUME IInv, StageHeld, DInv, QInv, [Next]_vars,
         state # "distributing", state' = "distributing",
         NEW i \in Bought, ItemsOf(items[i].product) = {i}
  PROVE  AllottedOf(items[i].product) = items[i].purchased
<1>1. i \in DOMAIN items /\ items[i].product \in Products
  BY ListedItem DEF Bought, IInv, TypeOK
<1> PICK p \in Products : p = items[i].product
  BY <1>1
<1>2. i \in ItemsOf(p) /\ ItemsOf(p) = {i}
  OBVIOUS
<1>3. ASSUME NEW u \in Users, CompleteUnbought(u)
      PROVE  FALSE
  BY <1>3 DEF CompleteUnbought
<1>4. CASE ShoppingCompleted
  <2>1. job.op = "distribute" /\ job.bids = {} /\ state = "shopping"
    BY <1>4 DEF ShoppingCompleted, StageHeld
  <2>2. items[i].purchased = items[i].requested /\ InFull(Counted(p))
    BY <1>2, <2>1 DEF QInv, MatchedShares, InFull
  <2>3. items[i].requested = Total(p)
    BY <1>2, <2>1 DEF DInv, Matched
  <2> QED BY <2>2, <2>3, InFullAllotted DEF IInv
<1>5. CASE AdjustingFinished
  BY <1>2, <1>5 DEF AdjustingFinished, QInv, OtherRows, Allocation, AtHand
<1> QED BY <1>3, <1>4, <1>5, DistributionBegins

\* While nobody leaves, only whole quantities are added and no add is cut
\* short, the distribution of a run begins with exactly what was bought of
\* every product allotted to the bids on it, whoever bids what, whatever is
\* bought and in whatever order it is shared out, and however often the
\* sharing is cut short and begun again.
THEOREM NothingIsLost ==
  ASSUME Undisturbed
  PROVE  Spec => BoughtIsAllotted
<1>1. Init => DInv /\ QInv /\ StageHeld
  BY DEF Init, DInv, QInv, MatchedShares, OtherRows, RowAtHand, Allocation,
         AtHand, StageHeld, Idle
<1>2. Init => LInv
  <2>1. Init => OneLeader /\ OfferIsLeaders
    BY DEF Init, OneLeader, OfferIsLeaders
  <2> QED BY <2>1, InitIInv DEF LInv, IInv
<1>3. IInv /\ LInv /\ [Next]_vars => LInv'
  BY StepIInv, StepLInv DEF LInv, IInv
<1>4. IInv /\ StageHeld /\ [Next]_vars => StageHeld'
  BY StepStageHeld DEF IInv
<1>5. IInv /\ IInv' /\ StageHeld /\ DInv /\ [Next]_vars => DInv'
  BY StepDInv
<1>6. IInv /\ IInv' /\ LInv /\ QInv /\ [Next]_vars => QInv'
  BY StepQInv
<1> DEFINE Exactly ==
      state # "distributing" /\ state' = "distributing" =>
        \A i \in Bought :
          ItemsOf(items[i].product) = {i} =>
            AllottedOf(items[i].product) = items[i].purchased
<1>7. IInv /\ StageHeld /\ DInv /\ QInv /\ [Next]_vars => [Exactly]_vars
  BY AllottedAtLast
<1> HIDE DEF Exactly
<1>8. [][Exactly]_vars <=> BoughtIsAllotted
  BY DEF Exactly, BoughtIsAllotted
<1> QED
  BY <1>1, <1>2, <1>3, <1>4, <1>5, <1>6, <1>7, <1>8, InitIInv, StepIInv, PTL
  DEF Spec
=============================================================================
