---------------------------- MODULE RunLifecycle ----------------------------
(***************************************************************************)
(* One shopping run of a group, from planning to completion, as the        *)
(* services of backend/app/services change it in the database: the bids,   *)
(* the shopping list, the roles of the participants, the hand-over of the  *)
(* leadership, the allocation of what was bought and its collection, and   *)
(* the departure of group members.                                         *)
(*                                                                         *)
(* Grain.  One event loop serves every request and the services do not     *)
(* await between reading and writing, so a handler runs alone; but every   *)
(* write of a repository commits by itself, whatever transaction() block   *)
(* surrounds it.  A handler that commits once is one action.  A handler    *)
(* that commits several times is a sequence of actions, one per commit,    *)
(* under the variable job: while job is not Idle no other handler runs,    *)
(* and only a crash (the process dies, the database refuses a write) can   *)
(* keep it from finishing.                                                 *)
(*                                                                         *)
(* Quantities are integers: a unit is the smallest quantity of the         *)
(* DECIMAL(10, 2) columns, Whole units make a whole one.                   *)
(***************************************************************************)
EXTENDS RunStateMachine, Integers, FiniteSets, Sequences

CONSTANTS
  Users,            \* the people of the group
  Creator,          \* the member who created the run
  Products,
  None,             \* NULL: no bid, no purchase, no request, no allocation
  BidInputs,        \* the bids a client sends: [quantity, interested]
  AddInputs,        \* the quantities a client adds to the list
  PurchaseInputs,   \* the quantities a client reports as bought
  ProductLimit,     \* MAX_PRODUCTS_PER_RUN
  Whole,            \* units in a whole one, for int()
  \* Bounds of the model, one per source of growth:
  MaxItems,         \* a product is added only to a list shorter than this
  MaxCrashes,       \* crashes in one behaviour
  Togglers,         \* who toggles the ready flag
  HelperCandidates, \* who is made a helper
  Heirs,            \* who is offered the leadership
  Departing         \* who leaves the group, or is removed, and comes back

BidInput == [quantity : Nat \ {0}, interested : BOOLEAN]
Bid == [quantity : Nat, interested : BOOLEAN,
        distributed : Int \cup {None}, picked : BOOLEAN]
Item == [product : Products, requested : Nat, purchased : Nat \cup {None}]
Request == [from : Users, to : Users]
Keys == Users \X Products

ASSUME UsersAssumption == Creator \in Users /\ IsFiniteSet(Users)
ASSUME ProductsAssumption == IsFiniteSet(Products)
ASSUME NoneAssumption == /\ None \notin Int /\ None \notin Users
                         /\ None \notin Bid /\ None \notin Request
ASSUME InputsAssumption == /\ BidInputs \subseteq BidInput
                           /\ AddInputs \subseteq Nat
                           /\ PurchaseInputs \subseteq Nat \ {0}
ASSUME WholeAssumption == Whole \in Nat \ {0}
ASSUME CrashesAssumption == MaxCrashes \in Nat

VARIABLES
  state,         \* runs.state
  members,       \* group_membership
  participants,  \* the users with a row in run_participations ...
  leaders,       \* ... those with is_leader,
  helpers,       \* is_helper,
  ready,         \* is_ready,
  removed,       \* is_removed
  bids,          \* product_bids, None where there is no row
  items,         \* shopping_list_items, in the order they were created
  request,       \* the pending row of leader_reassignment_requests
  job,           \* the handler that has commits left to make
  crashes

run == <<state, members, bids, items, request>>
roles == <<participants, leaders, helpers, ready, removed>>
vars == <<state, members, participants, leaders, helpers, ready, removed,
          bids, items, request, job, crashes>>

Idle == [op |-> "idle"]

\* What a handler with commits left still has to remember.
FirstBidJobs == [op : {"first_bid"}, user : Users, product : Products,
                 bid : BidInput]
ListJobs == [op : {"list"}, products : SUBSET Products]
AddJobs == [op : {"add_item"}, product : Products, requested : Nat]
DistributeJobs == [op : {"distribute"}, bids : SUBSET Keys]
AllocateJobs == [op : {"allocate"}, items : SUBSET Nat, known : SUBSET Keys]
ShareJobs == [op : {"share"}, items : SUBSET Nat, known : SUBSET Keys,
              item : Nat, bids : SUBSET Keys, given : Int]
SurplusJobs == [op : {"surplus_alloc", "surplus_request"}, items : SUBSET Nat,
                known : SUBSET Keys, item : Nat, user : Users]
DepartJobs == [op : {"depart"}, user : Users, bids : SUBSET Keys]

Jobs == {Idle} \cup [op : {"activate", "complete"}]
        \cup FirstBidJobs \cup ListJobs \cup AddJobs \cup DistributeJobs
        \cup AllocateJobs \cup ShareJobs \cup SurplusJobs \cup DepartJobs

TypeOK ==
  /\ state \in States
  /\ members \subseteq Users
  /\ participants \subseteq Users
  /\ leaders \subseteq participants
  /\ helpers \subseteq participants
  /\ ready \subseteq participants
  /\ removed \subseteq participants
  /\ bids \in [Keys -> Bid \cup {None}]
  /\ items \in Seq(Item)
  /\ request \in Request \cup {None}
  /\ job \in Jobs
  /\ crashes \in 0..MaxCrashes

\* create_run: the creator takes part and leads.
Init ==
  /\ state = "planning"
  /\ members = Users
  /\ participants = {Creator}
  /\ leaders = {Creator}
  /\ helpers = {} /\ ready = {} /\ removed = {}
  /\ bids = [k \in Keys |-> None]
  /\ items = <<>>
  /\ request = None
  /\ job = Idle
  /\ crashes = 0
-----------------------------------------------------------------------------
(* The bids and the list as the services read them. *)

HasBid == {k \in Keys : bids[k] # None}

BidsOn(p) == {k \in HasBid : k[2] = p}

\* The bids that count: interested-only ones ask for nothing.
Counted(p) == {k \in BidsOn(p) : ~bids[k].interested}

\* The sum of the quantities of a set of bids, as the number of units asked
\* for: one element per unit.
TotalOf(K) == Cardinality(UNION {{k} \X (1..bids[k].quantity) : k \in K})

Total(p) == TotalOf(Counted(p))

ItemsOf(p) == {i \in DOMAIN items : items[i].product = p}

\* Purchased, with a quantity above zero.
Bought == {i \in DOMAIN items : items[i].purchased # None}

Participating_Forgotten(u) == participants
Participating(u) == participants \cup {u}

IsLeader(u) == u \in leaders
IsLeaderOrHelper(u) == u \in leaders \cup helpers

\* _transition_run_state: the state machine is asked first.
Transition(to) == CanTransition(state, to) /\ state' = to
-----------------------------------------------------------------------------
(* Bids: bid_service.py. *)

\* create_or_update_bid: an existing row keeps its allocation and its
\* picked-up flag.
Rebid(b, quantity, interested) ==
  [quantity |-> quantity, interested |-> interested,
   distributed |-> IF b = None THEN None ELSE b.distributed,
   picked |-> IF b = None THEN FALSE ELSE b.picked]

\* _check_product_limit
WithinProductLimit == Cardinality({k[2] : k \in HasBid}) < ProductLimit

\* What was bought more (or, below zero, less) than the list asks for.
Difference(item) ==
  (IF item.purchased = None THEN 0 ELSE item.purchased) - item.requested

\* _validate_adjusting_bid: down to cover a shortage, up to take a surplus.
AdjustmentAllowed(item, old, new) ==
  LET d == Difference(item) IN
  /\ d < 0 => new =< old /\ new >= old + d
  /\ d > 0 => new >= old /\ new =< old + d

\* _validate_bid_for_state.  The service takes the first row of the list
\* for the product in whatever order the database returns them.
BidAllowed(u, p, quantity) ==
  /\ bids[<<u, p>>] = None => WithinProductLimit
  /\ state = "adjusting" =>
       /\ bids[<<u, p>>] # None
       /\ \E i \in ItemsOf(p) :
            AdjustmentAllowed(items[i], bids[<<u, p>>].quantity, quantity)

\* place_bid of a user who takes part already.
PlaceBid(u, p, bid) ==
  /\ job = Idle
  /\ u \in members
  /\ CanPlaceBid(state)
  /\ u \in participants
  /\ BidAllowed(u, p, bid.quantity)
  /\ bids' = [bids EXCEPT ![<<u, p>>] = Rebid(@, bid.quantity, bid.interested)]
  /\ UNCHANGED <<state, members, roles, items, request, job, crashes>>

\* place_bid of a newcomer commits the participation before it validates
\* the bid.
JoinRun(u, p, bid) ==
  /\ job = Idle
  /\ u \in members
  /\ CanPlaceBid(state)
  /\ u \notin participants
  /\ CanJoinRun(state)
  /\ participants' = Participating(u)
  /\ job' = [op |-> "first_bid", user |-> u, product |-> p, bid |-> bid]
  /\ UNCHANGED <<run, leaders, helpers, ready, removed, crashes>>

\* _check_planning_to_active_transition: a new participant never leads.
AfterFirstBid == IF state = "planning" THEN [op |-> "activate"] ELSE Idle

WriteFirstBid ==
  /\ job.op = "first_bid"
  /\ WithinProductLimit
  /\ bids' = [bids EXCEPT ![<<job.user, job.product>>] =
                Rebid(@, job.bid.quantity, job.bid.interested)]
  /\ job' = AfterFirstBid
  /\ UNCHANGED <<state, members, roles, items, request, crashes>>

RejectFirstBid ==
  /\ job.op = "first_bid"
  /\ ~WithinProductLimit
  /\ job' = Idle
  /\ UNCHANGED <<run, roles, crashes>>

Activate ==
  /\ job.op = "activate"
  /\ state' = "active"
  /\ job' = Idle
  /\ UNCHANGED <<members, roles, bids, items, request, crashes>>

\* _check_adjusting_constraints_for_retraction: only a bid that the shortage
\* swallows whole may go.
RetractionAllowed(item, old) ==
  LET d == Difference(item) IN d =< 0 /\ (d < 0 => old + d =< 0)

\* _validate_retract_request
MayRetract(u) == u \in members /\ CanRetractBid(state)

RetractBid(u, p) ==
  /\ job = Idle
  /\ MayRetract(u)
  /\ bids[<<u, p>>] # None
  /\ state = "adjusting" /\ ItemsOf(p) # {} =>
       \E i \in ItemsOf(p) : RetractionAllowed(items[i], bids[<<u, p>>].quantity)
  /\ bids' = [bids EXCEPT ![<<u, p>>] = None]
  /\ UNCHANGED <<state, members, roles, items, request, job, crashes>>
-----------------------------------------------------------------------------
(* The leader's transitions: run_state_service.py. *)

\* _validate_toggle_ready_request, _get_user_participation
MayToggleReady(u) ==
  /\ u \in members \cap Togglers
  /\ CanToggleReady(state)
  /\ u \in participants

ToggleReady(u) ==
  /\ job = Idle
  /\ MayToggleReady(u)
  /\ ready' = (ready \ {u}) \cup ({u} \ ready)
  /\ UNCHANGED <<run, participants, leaders, helpers, removed, job, crashes>>

\* force_confirm asks nobody's ready flag.
ForceConfirm(u) ==
  /\ job = Idle
  /\ u \in members
  /\ IsLeader(u)
  /\ state = "active"
  /\ Transition("confirmed")
  /\ UNCHANGED <<members, roles, bids, items, request, job, crashes>>

StartShopping(u) ==
  /\ job = Idle
  /\ u \in members
  /\ CanStartShopping(state)
  /\ IsLeader(u)
  /\ job' = [op |-> "list", products |-> {p \in Products : Total(p) > 0}]
  /\ UNCHANGED <<run, roles, crashes>>

NewItem(p, quantity) ==
  [product |-> p, requested |-> quantity, purchased |-> None]

ListItem ==
  /\ job.op = "list"
  /\ \E p \in job.products :
       /\ items' = Append(items, NewItem(p, Total(p)))
       /\ job' = [job EXCEPT !.products = @ \ {p}]
  /\ UNCHANGED <<state, members, roles, bids, request, crashes>>

ShoppingStarted ==
  /\ job.op = "list"
  /\ job.products = {}
  /\ Transition("shopping")
  /\ job' = Idle
  /\ UNCHANGED <<members, roles, bids, items, request, crashes>>

CancelRun(u) ==
  /\ job = Idle
  /\ ~IsTerminal(state)
  /\ u \in members
  /\ IsLeader(u)
  /\ Transition("cancelled")
  /\ UNCHANGED <<members, roles, bids, items, request, job, crashes>>
-----------------------------------------------------------------------------
(* The shopping list: shopping_service.py.  Leader and helpers only, but    *)
(* nobody asks whether they are still members; and only add_product and     *)
(* complete_shopping look at the state of the run.                          *)

\* int(quantity)
Truncated(quantity) == (quantity \div Whole) * Whole

\* add_product_to_shopping_list: the caller's bid first, then the item.
AddProduct(u, p, quantity) ==
  /\ job = Idle
  /\ Len(items) < MaxItems
  /\ state = "shopping"
  /\ IsLeaderOrHelper(u)
  /\ bids' = [bids EXCEPT ![<<u, p>>] = Rebid(@, Truncated(quantity), FALSE)]
  /\ job' = [op |-> "add_item", product |-> p, requested |-> quantity]
  /\ UNCHANGED <<state, members, roles, items, request, crashes>>

AddItem ==
  /\ job.op = "add_item"
  /\ items' = Append(items, NewItem(job.product, job.requested))
  /\ job' = Idle
  /\ UNCHANGED <<state, members, roles, bids, request, crashes>>

SetPurchased(i, quantity) ==
  /\ items' = [items EXCEPT ![i].purchased = quantity]
  /\ UNCHANGED <<state, members, roles, bids, request, job, crashes>>

MarkPurchased(u, i, quantity) ==
  /\ job = Idle
  /\ IsLeaderOrHelper(u)
  /\ SetPurchased(i, quantity)

UpdatePurchase(u, i, quantity) ==
  /\ job = Idle
  /\ IsLeaderOrHelper(u)
  /\ i \in Bought
  /\ SetPurchased(i, quantity)

Unpurchase_MeanwhileToo(u, i) ==
  /\ IsLeaderOrHelper(u)
  /\ SetPurchased(i, None)
Unpurchase(u, i) ==
  /\ job = Idle
  /\ IsLeaderOrHelper(u)
  /\ SetPurchased(i, None)

Mismatched == {i \in Bought : Difference(items[i]) # 0}

MayCompleteShopping(u) ==
  job = Idle /\ IsLeader(u) /\ CanCompleteShopping(state)

\* Nothing bought: through distributing, one commit, to completed, another.
CompleteUnbought(u) ==
  /\ MayCompleteShopping(u)
  /\ Bought = {}
  /\ state' = "distributing"
  /\ job' = [op |-> "complete"]
  /\ UNCHANGED <<members, roles, bids, items, request, crashes>>

SkipDistribution ==
  /\ job.op = "complete"
  /\ state' = "completed"
  /\ job' = Idle
  /\ UNCHANGED <<members, roles, bids, items, request, crashes>>

CompleteMismatched(u) ==
  /\ MayCompleteShopping(u)
  /\ Mismatched # {}
  /\ state' = "adjusting"
  /\ UNCHANGED <<members, roles, bids, items, request, job, crashes>>

\* Every bid on a bought product gets what it asks for, one commit each.
CompleteMatched(u) ==
  /\ MayCompleteShopping(u)
  /\ Bought # {}
  /\ Mismatched = {}
  /\ job' = [op |-> "distribute",
             bids |-> UNION {Counted(items[i].product) : i \in Bought}]
  /\ UNCHANGED <<run, roles, crashes>>

DistributeBid ==
  /\ job.op = "distribute"
  /\ \E k \in job.bids :
       /\ bids' = [bids EXCEPT ![k].distributed = bids[k].quantity]
       /\ job' = [job EXCEPT !.bids = @ \ {k}]
  /\ UNCHANGED <<state, members, roles, items, request, crashes>>

ShoppingCompleted ==
  /\ job.op = "distribute"
  /\ job.bids = {}
  /\ state' = "distributing"
  /\ job' = Idle
  /\ UNCHANGED <<members, roles, bids, items, request, crashes>>
-----------------------------------------------------------------------------
(* Finishing the adjustment: run_state_service.py.  The leader's force      *)
(* skips the comparison of the bids with what was bought.                   *)

\* _verify_quantities_match
QuantitiesMatch ==
  \A i \in Bought : Total(items[i].product) = items[i].purchased

FinishAdjusting(u, force) ==
  /\ job = Idle
  /\ u \in members
  /\ CanFinishAdjusting(state)
  /\ IsLeader(u)
  /\ force \/ QuantitiesMatch
  /\ job' = [op |-> "allocate", items |-> Bought, known |-> HasBid]
  /\ UNCHANGED <<run, roles, crashes>>

\* The bids on an item that get a share: those loaded when the handler
\* began, with their interested flags as they are now.
Sharers(i) == job.known \cap Counted(items[i].product)

\* The handler goes on with the item it is at, or with the next one.
ShareOut(i) == [op |-> "share", items |-> job.items \ {i}, known |-> job.known,
                item |-> i, bids |-> Sharers(i), given |-> 0]
NextItem == [op |-> "allocate", items |-> job.items, known |-> job.known]
SurplusStep(op, u) == [op |-> op, items |-> job.items, known |-> job.known,
                       item |-> job.item, user |-> u]

\* The list now asks for what the bids ask for.
AllocateItem ==
  /\ job.op = "allocate"
  /\ \E i \in job.items :
       /\ items' = [items EXCEPT ![i].requested = TotalOf(Sharers(i))]
       /\ job' = ShareOut(i)
  /\ UNCHANGED <<state, members, roles, bids, request, crashes>>

\* round(float(n / d), 2) in units: the nearest integer, and either
\* neighbour of a tie, which the binary fraction decides.
Rounded(n, d) == {k \in 0..n : 2 * (n - k * d) =< d /\ 2 * (k * d - n) =< d}

\* What a bid gets of an item of which `given` is handed out already: all it
\* asks for, or a share in proportion; the last one gets what is left.
SharesOf_AllRounded(item, quantity, last, given) ==
  IF item.requested =< item.purchased THEN {quantity}
  ELSE Rounded(quantity * item.purchased, item.requested)
SharesOf(item, quantity, last, given) ==
  IF item.requested =< item.purchased THEN {quantity}
  ELSE IF last THEN {item.purchased - given}
  ELSE Rounded(quantity * item.purchased, item.requested)

AllocateBid ==
  /\ job.op = "share"
  /\ \E k \in job.bids :
       \E share \in SharesOf(items[job.item], bids[k].quantity,
                             job.bids = {k}, job.given) :
         /\ bids' = [bids EXCEPT ![k].distributed = share]
         /\ job' = [job EXCEPT !.bids = @ \ {k}, !.given = @ + share]
  /\ UNCHANGED <<state, members, roles, items, request, crashes>>

Surplus == items[job.item].purchased - items[job.item].requested

ItemAllocated ==
  /\ job.op = "share"
  /\ job.bids = {}
  /\ Surplus =< 0 \/ leaders = {}
  /\ job' = NextItem
  /\ UNCHANGED <<run, roles, crashes>>

\* The leader takes the surplus: on top of a bid that had a share, or as the
\* whole quantity of a bid that asks for nothing yet.
WithSurplus_StillInterested(k) ==
  Rebid(bids[k],
        (IF k \in Sharers(job.item) THEN bids[k].quantity ELSE 0) + Surplus,
        bids[k] # None /\ bids[k].interested)
WithSurplus(k) ==
  Rebid(bids[k],
        (IF k \in Sharers(job.item) THEN bids[k].quantity ELSE 0) + Surplus,
        FALSE)

TakeSurplus ==
  /\ job.op = "share"
  /\ job.bids = {}
  /\ Surplus > 0
  /\ \E u \in leaders :
       LET k == <<u, items[job.item].product>> IN
       /\ bids' = [bids EXCEPT ![k] = WithSurplus(k)]
       /\ job' = SurplusStep("surplus_alloc", u)
  /\ UNCHANGED <<state, members, roles, items, request, crashes>>

AllocateSurplus ==
  /\ job.op = "surplus_alloc"
  /\ LET k == <<job.user, items[job.item].product>> IN
       bids' = [bids EXCEPT ![k].distributed = bids[k].quantity]
  /\ job' = SurplusStep("surplus_request", job.user)
  /\ UNCHANGED <<state, members, roles, items, request, crashes>>

RequestSurplus ==
  /\ job.op = "surplus_request"
  /\ items' = [items EXCEPT ![job.item].requested = items[job.item].purchased]
  /\ job' = NextItem
  /\ UNCHANGED <<state, members, roles, bids, request, crashes>>

AdjustingFinished ==
  /\ job.op = "allocate"
  /\ job.items = {}
  /\ Transition("distributing")
  /\ job' = Idle
  /\ UNCHANGED <<members, roles, bids, items, request, crashes>>
-----------------------------------------------------------------------------
(* Collection: distribution_service.py. *)

\* mark_picked_up asks neither the state of the run nor whether the bid has
\* an allocation.
MarkPickedUp(u, k) ==
  /\ job = Idle
  /\ IsLeaderOrHelper(u)
  /\ k \in HasBid
  /\ bids' = [bids EXCEPT ![k].picked = TRUE]
  /\ UNCHANGED <<state, members, roles, items, request, job, crashes>>

\* A bid that was allotted something, which somebody has to collect.
Allotted(b) == ~b.interested /\ b.distributed \notin {None, 0}

AllPickedUp_IfAnyIs ==
  \E k \in HasBid : bids[k].picked
AllPickedUp == \A k \in HasBid : Allotted(bids[k]) => bids[k].picked

CompleteDistribution(u) ==
  /\ job = Idle
  /\ IsLeader(u)
  /\ CanCompleteDistribution(state)
  /\ AllPickedUp
  /\ state' = "completed"
  /\ UNCHANGED <<members, roles, bids, items, request, job, crashes>>
-----------------------------------------------------------------------------
(* Roles: toggle_helper of run_service.py, reassignment_service.py. *)

ToggleHelper(u, helper) ==
  /\ job = Idle
  /\ IsLeader(u)
  /\ helper \in HelperCandidates \cap members
  /\ ~IsLeader(helper)
  /\ participants' = Participating(helper)
  /\ helpers' = (helpers \ {helper}) \cup ({helper} \ helpers)
  /\ UNCHANGED <<run, leaders, ready, removed, job, crashes>>

\* _check_reassignment_permissions
MayOffer_EvenToHerself(u, heir) == heir \in Heirs \cap participants
MayOffer(u, heir) == heir \in Heirs \cap participants /\ heir # u

RequestReassignment(u, heir) ==
  /\ job = Idle
  /\ request = None
  /\ IsLeader(u)
  /\ MayOffer(u, heir)
  /\ request' = [from |-> u, to |-> heir]
  /\ UNCHANGED <<state, members, roles, bids, items, job, crashes>>

\* _transfer_leadership
LeadersAfter_BothLead == leaders \cup {request.to}
LeadersAfter == (leaders \ {request.from}) \cup {request.to}

\* The hand-over and the answer, in one commit.  Nobody asks whether the
\* heir is still a member, or what became of the run.
AcceptReassignment ==
  /\ job = Idle
  /\ request # None
  /\ {request.from, request.to} \subseteq participants
  /\ leaders' = LeadersAfter
  /\ request' = None
  /\ UNCHANGED <<state, members, participants, helpers, ready, removed,
                 bids, items, job, crashes>>

\* The request is resolved without effect.
Dropped ==
  /\ request' = None
  /\ UNCHANGED <<state, members, roles, bids, items, job, crashes>>

\* By the heir; her notification is all that follows.
DeclineReassignment(u) ==
  /\ job = Idle
  /\ request # None
  /\ request.to = u
  /\ Dropped

\* By who made it, though she may lead no more.
CancelReassignment(u) ==
  /\ job = Idle
  /\ request # None
  /\ request.from = u
  /\ Dropped
-----------------------------------------------------------------------------
(* Leaving the group, or being removed from it: group_service.py.  Another  *)
(* administrator stays.                                                     *)

\* A finished run keeps the bids of those who leave.
BidsToErase_OnlyWhileOpen(u) ==
  IF CanPlaceBid(state) THEN {k \in HasBid : k[1] = u} ELSE {}
BidsToErase(u) ==
  IF state \in {"completed", "cancelled"} THEN {}
  ELSE {k \in HasBid : k[1] = u}

LeaveGroup(u) ==
  /\ job = Idle
  /\ u \in members \cap Departing
  /\ members' = members \ {u}
  /\ job' = IF u \in participants
            THEN [op |-> "depart", user |-> u, bids |-> BidsToErase(u)]
            ELSE Idle
  /\ UNCHANGED <<state, roles, bids, items, request, crashes>>

\* The first commit that follows writes is_removed along with its own work.
MarkRemoved ==
  /\ removed' = removed \cup {job.user}
  /\ UNCHANGED <<members, participants, leaders, helpers, ready, items,
                 request, crashes>>

EraseBid ==
  /\ job.op = "depart"
  /\ \E k \in job.bids :
       /\ bids' = [bids EXCEPT ![k] = None]
       /\ job' = [job EXCEPT !.bids = @ \ {k}]
  /\ MarkRemoved
  /\ UNCHANGED state

\* The run of a leader who leaves is cancelled, past the state machine.
StateAfter_EvenCompleted(u) == IF IsLeader(u) THEN "cancelled" ELSE state
StateAfter(u) ==
  IF IsLeader(u) /\ state # "completed" THEN "cancelled" ELSE state

MemberGone ==
  /\ job.op = "depart"
  /\ job.bids = {}
  /\ state' = StateAfter(job.user)
  /\ job' = Idle
  /\ MarkRemoved
  /\ UNCHANGED bids

JoinGroup(u) ==
  /\ job = Idle
  /\ u \in Departing \ members
  /\ members' = members \cup {u}
  /\ UNCHANGED <<state, roles, bids, items, request, job, crashes>>
-----------------------------------------------------------------------------
\* The process dies, or the database refuses a write, in the middle of a
\* handler: transaction() rolls back, and what is committed stays.
Crash ==
  /\ job # Idle
  /\ crashes < MaxCrashes
  /\ crashes' = crashes + 1
  /\ job' = Idle
  /\ UNCHANGED <<run, roles>>

\* A handler goes on.
JobStep ==
  \/ WriteFirstBid \/ RejectFirstBid \/ Activate
  \/ ListItem \/ ShoppingStarted \/ AddItem
  \/ SkipDistribution \/ DistributeBid \/ ShoppingCompleted
  \/ AllocateItem \/ AllocateBid \/ ItemAllocated
  \/ TakeSurplus \/ AllocateSurplus \/ RequestSurplus \/ AdjustingFinished
  \/ EraseBid \/ MemberGone

\* A handler begins, for a request of user u.
Bidding(u) ==
  \E p \in Products :
    \/ RetractBid(u, p)
    \/ \E bid \in BidInputs : PlaceBid(u, p, bid) \/ JoinRun(u, p, bid)

Shopping(u) ==
  \/ StartShopping(u)
  \/ \E p \in Products, quantity \in AddInputs : AddProduct(u, p, quantity)
  \/ \E i \in DOMAIN items :
       \/ Unpurchase(u, i)
       \/ \E quantity \in PurchaseInputs :
            MarkPurchased(u, i, quantity) \/ UpdatePurchase(u, i, quantity)
  \/ CompleteUnbought(u) \/ CompleteMismatched(u) \/ CompleteMatched(u)

Distribution(u) ==
  \/ \E force \in BOOLEAN : FinishAdjusting(u, force)
  \/ \E k \in Keys : MarkPickedUp(u, k)
  \/ CompleteDistribution(u)

Governing(u) ==
  \/ ToggleReady(u) \/ ForceConfirm(u) \/ CancelRun(u)
  \/ \E other \in Users : ToggleHelper(u, other) \/ RequestReassignment(u, other)
  \/ LeaveGroup(u) \/ JoinGroup(u)

Answer ==
  \/ AcceptReassignment
  \/ \E u \in Users : DeclineReassignment(u) \/ CancelReassignment(u)

Next ==
  \/ \E u \in Users :
       Bidding(u) \/ Shopping(u) \/ Distribution(u) \/ Governing(u)
  \/ Answer
  \/ JobStep
  \/ Crash

Spec == Init /\ [][Next]_vars
=============================================================================
