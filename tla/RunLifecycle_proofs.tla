------------------------ MODULE RunLifecycle_proofs ------------------------
(***************************************************************************)
(* For every set of users, products and inputs and any number of crashes:  *)
(* type correctness of RunLifecycle, what its handlers rely on across      *)
(* their commits, the stage of the run they keep to, and the uniqueness of *)
(* the leader; and, while nothing crashes, that every bid is a member's    *)
(* until the shopping starts.                                              *)
(***************************************************************************)
EXTENDS RunProperties, FiniteSetTheorems, TLAPS

(* The operators the actions are built from. *)

LEMMA TotalIsNat ==
  ASSUME bids \in [Keys -> Bid \cup {None}], NEW K \in SUBSET HasBid
  PROVE  TotalOf(K) \in Nat
<1> DEFINE UnitsOf(k) == {k} \X (1..bids[k].quantity)
<1>1. IsFiniteSet(K)
  <2>1. IsFiniteSet(Keys)
    BY FS_Product, UsersAssumption, ProductsAssumption DEF Keys
  <2> QED BY <2>1, FS_Subset DEF HasBid
<1>2. ASSUME NEW k \in K PROVE IsFiniteSet(UnitsOf(k))
  <2>1. bids[k].quantity \in Nat
    BY DEF HasBid, Bid
  <2>2. IsFiniteSet(1..bids[k].quantity)
    BY <2>1, FS_Interval
  <2>3. IsFiniteSet({k})
    BY FS_Singleton
  <2> QED BY <2>2, <2>3, FS_Product
<1>3. IsFiniteSet({UnitsOf(k) : k \in K})
  <2> DEFINE U == {UnitsOf(k) : k \in K}
             f == [k \in K |-> UnitsOf(k)]
  <2>1. f \in Surjection(K, U)
    BY DEF Surjection
  <2> HIDE DEF f, U, UnitsOf
  <2>2. IsFiniteSet(U)
    BY ONLY <1>1, <2>1, FS_Surjection
  <2> QED BY <2>2 DEF U
<1>4. IsFiniteSet(UNION {UnitsOf(k) : k \in K})
  BY <1>2, <1>3, FS_UNION
<1> QED BY <1>4, FS_CardinalityType DEF TotalOf

LEMMA RebidIsBid ==
  ASSUME NEW b \in Bid \cup {None}, NEW q \in Nat, NEW i \in BOOLEAN
  PROVE  Rebid(b, q, i) \in Bid
BY NoneAssumption DEF Rebid, Bid

\* Writing an allocation changes neither which bids there are nor what they
\* ask for.
LEMMA AllocationKeepsBids ==
  ASSUME bids \in [Keys -> Bid \cup {None}],
         NEW k \in HasBid, NEW share \in Int,
         bids' = [bids EXCEPT ![k].distributed = share]
  PROVE  /\ bids' \in [Keys -> Bid \cup {None}]
         /\ HasBid' = HasBid
         /\ \A p \in Products : Counted(p)' = Counted(p)
         /\ \A K \in SUBSET HasBid : TotalOf(K)' = TotalOf(K)
<1> DEFINE new == [bids[k] EXCEPT !.distributed = share]
<1>1. bids[k] \in Bid
  BY DEF HasBid
<1>2. /\ new \in Bid
      /\ new.quantity = bids[k].quantity
      /\ new.interested = bids[k].interested
  BY <1>1 DEF Bid
<1>3. bids' = [bids EXCEPT ![k] = new]
  OBVIOUS
<1> HIDE DEF new
<1>4. bids' \in [Keys -> Bid \cup {None}] /\ HasBid' = HasBid
  BY <1>2, <1>3, NoneAssumption DEF HasBid
<1>5. \A j \in HasBid : /\ bids'[j].quantity = bids[j].quantity
                        /\ bids'[j].interested = bids[j].interested
  BY <1>2, <1>3 DEF HasBid
<1>6. ASSUME NEW p \in Products PROVE Counted(p)' = Counted(p)
  BY <1>4, <1>5 DEF Counted, BidsOn
<1>7. ASSUME NEW K \in SUBSET HasBid PROVE TotalOf(K)' = TotalOf(K)
  <2>1. {{j} \X (1..bids'[j].quantity) : j \in K}
          = {{j} \X (1..bids[j].quantity) : j \in K}
    BY <1>5
  <2> QED BY <2>1 DEF TotalOf
<1> QED BY <1>4, <1>6, <1>7

LEMMA ListedItem ==
  ASSUME items \in Seq(Item), NEW i \in DOMAIN items
  PROVE  /\ i \in Nat
         /\ items[i] \in Item
         /\ items[i].product \in Products
         /\ items[i].requested \in Nat
         /\ i \in Bought => items[i].purchased \in Nat
<1>1. i \in Nat /\ items[i] \in Item
  OBVIOUS
<1> QED BY <1>1 DEF Item, Bought

\* What the kind of a handler says of what it remembers.
LEMMA JobShapes ==
  ASSUME job \in Jobs
  PROVE  /\ job.op = "first_bid" => job \in FirstBidJobs
         /\ job.op = "list" => job \in ListJobs
         /\ job.op = "add_item" => job \in AddJobs
         /\ job.op = "distribute" => job \in DistributeJobs
         /\ job.op = "allocate" => job \in AllocateJobs
         /\ job.op = "share" => job \in ShareJobs
         /\ job.op \in {"surplus_alloc", "surplus_request"} => job \in SurplusJobs
         /\ job.op = "depart" => job \in DepartJobs
BY DEF Jobs, Idle, FirstBidJobs, ListJobs, AddJobs, DistributeJobs,
       AllocateJobs, ShareJobs, SurplusJobs, DepartJobs

IInv == TypeOK /\ ReadsStayTrue

LEMMA IdleIsJob == Idle \in Jobs
BY DEF Jobs

\* Nobody relies on anything when no handler runs.
LEMMA IdleReads == job' = Idle => ReadsStayTrue'
BY DEF ReadsStayTrue, ItemsStayBought, BidsStayThere, RequestStaysTheirs,
       LeaverTookPart, Idle

\* Some handlers rely on nothing but what they remember.
LEMMA CarefreeReads ==
  job'.op \in {"first_bid", "activate", "complete", "list", "add_item"} =>
    ReadsStayTrue'
BY DEF ReadsStayTrue, ItemsStayBought, BidsStayThere, RequestStaysTheirs,
       LeaverTookPart

LEMMA InitIInv == Init => IInv
<1> SUFFICES ASSUME Init PROVE IInv
  OBVIOUS
<1>1. TypeOK
  BY UsersAssumption, CrashesAssumption, IdleIsJob
  DEF Init, TypeOK, States, Keys
<1>2. ReadsStayTrue
  BY DEF Init, ReadsStayTrue, ItemsStayBought, BidsStayThere,
         RequestStaysTheirs, LeaverTookPart, Idle
<1> QED BY <1>1, <1>2 DEF IInv

LEMMA BiddingIInv ==
  ASSUME IInv, NEW u \in Users, Bidding(u)
  PROVE  IInv'
<1> USE DEF IInv
<1>0. PICK p \in Products :
        \/ RetractBid(u, p)
        \/ \E bid \in BidInputs : PlaceBid(u, p, bid) \/ JoinRun(u, p, bid)
  BY DEF Bidding
<1>1. CASE RetractBid(u, p)
  BY <1>1, IdleReads DEF RetractBid, TypeOK, roles, Keys
<1>2. ASSUME NEW bid \in BidInputs, PlaceBid(u, p, bid)
      PROVE  IInv'
  <2>1. Rebid(bids[<<u, p>>], bid.quantity, bid.interested) \in Bid
    BY RebidIsBid, InputsAssumption DEF TypeOK, BidInput, Keys
  <2> QED BY <1>2, <2>1, IdleReads DEF PlaceBid, TypeOK, roles, Keys
<1>3. ASSUME NEW bid \in BidInputs, JoinRun(u, p, bid)
      PROVE  IInv'
  <2>1. job' \in Jobs
    BY <1>3, InputsAssumption DEF JoinRun, Jobs, FirstBidJobs
  <2>2. ReadsStayTrue'
    BY <1>3, CarefreeReads DEF JoinRun
  <2> QED BY <1>3, <2>1, <2>2 DEF JoinRun, Participating, TypeOK, run
<1> QED BY <1>0, <1>1, <1>2, <1>3

LEMMA GoverningIInv ==
  ASSUME IInv, NEW u \in Users, Governing(u)
  PROVE  IInv'
<1> USE DEF IInv
<1>1. CASE ToggleReady(u)
  BY <1>1, IdleReads DEF ToggleReady, MayToggleReady, TypeOK, run
<1>2. CASE ForceConfirm(u)
  BY <1>2, IdleReads DEF ForceConfirm, Transition, TypeOK, States, roles
<1>3. CASE CancelRun(u)
  BY <1>3, IdleReads DEF CancelRun, Transition, TypeOK, States, roles
<1>4. ASSUME NEW other \in Users, ToggleHelper(u, other)
      PROVE  IInv'
  BY <1>4, IdleReads DEF ToggleHelper, Participating, TypeOK, run
<1>5. ASSUME NEW other \in Users, RequestReassignment(u, other)
      PROVE  IInv'
  BY <1>5, IdleReads DEF RequestReassignment, TypeOK, Request, roles
<1>6. CASE LeaveGroup(u)
  <2>1. job' \in Jobs
    BY <1>6, IdleIsJob DEF LeaveGroup, Jobs, DepartJobs, BidsToErase, HasBid
  <2>2. ReadsStayTrue'
    BY <1>6 DEF LeaveGroup, BidsToErase, ReadsStayTrue, ItemsStayBought,
                BidsStayThere, RequestStaysTheirs, LeaverTookPart, Idle,
                HasBid, roles
  <2> QED BY <1>6, <2>1, <2>2 DEF LeaveGroup, TypeOK, roles
<1>7. CASE JoinGroup(u)
  BY <1>7, IdleReads DEF JoinGroup, TypeOK, roles
<1> QED BY <1>1, <1>2, <1>3, <1>4, <1>5, <1>6, <1>7,
           Governing(u) DEF Governing

LEMMA AnswerIInv ==
  ASSUME IInv, Answer
  PROVE  IInv'
BY IdleReads DEF IInv, Answer, AcceptReassignment, DeclineReassignment,
                 CancelReassignment, Dropped, LeadersAfter, TypeOK, Request, roles

LEMMA ShoppingIInv ==
  ASSUME IInv, NEW u \in Users, Shopping(u)
  PROVE  IInv'
<1> USE DEF IInv
<1>1. CASE StartShopping(u)
  <2>1. job' \in Jobs
    BY <1>1 DEF StartShopping, Jobs, ListJobs
  <2>2. ReadsStayTrue'
    BY <1>1, CarefreeReads DEF StartShopping
  <2> QED BY <1>1, <2>1, <2>2 DEF StartShopping, TypeOK, run, roles
<1>2. ASSUME NEW p \in Products, NEW quantity \in AddInputs,
             AddProduct(u, p, quantity)
      PROVE  IInv'
  <2>1. Truncated(quantity) \in Nat
    BY InputsAssumption, WholeAssumption DEF Truncated
  <2>2. Rebid(bids[<<u, p>>], Truncated(quantity), FALSE) \in Bid
    BY <2>1, RebidIsBid DEF TypeOK, Keys
  <2>3. job' \in Jobs
    BY <1>2, InputsAssumption DEF AddProduct, Jobs, AddJobs
  <2>4. ReadsStayTrue'
    BY <1>2, CarefreeReads DEF AddProduct
  <2> QED BY <1>2, <2>2, <2>3, <2>4 DEF AddProduct, TypeOK, roles, Keys
<1>3. ASSUME NEW i \in DOMAIN items, NEW quantity \in Nat \cup {None},
             job = Idle, SetPurchased(i, quantity)
      PROVE  IInv'
  <2>1. items' \in Seq(Item)
    <3>1. [items[i] EXCEPT !.purchased = quantity] \in Item
      BY ListedItem DEF TypeOK, Item
    <3> QED BY <1>3, <3>1 DEF SetPurchased, TypeOK
  <2> QED BY <1>3, <2>1, IdleReads DEF SetPurchased, TypeOK, roles
<1>4. ASSUME NEW i \in DOMAIN items, Unpurchase(u, i)
      PROVE  IInv'
  BY <1>3, <1>4 DEF Unpurchase
<1>5. ASSUME NEW i \in DOMAIN items, NEW quantity \in PurchaseInputs,
             MarkPurchased(u, i, quantity) \/ UpdatePurchase(u, i, quantity)
      PROVE  IInv'
  BY <1>3, <1>5, InputsAssumption DEF MarkPurchased, UpdatePurchase
<1>6. CASE CompleteUnbought(u)
  <2>1. job' \in Jobs
    BY <1>6 DEF CompleteUnbought, Jobs
  <2>2. ReadsStayTrue'
    BY <1>6, CarefreeReads DEF CompleteUnbought
  <2> QED BY <1>6, <2>1, <2>2 DEF CompleteUnbought, TypeOK, States, roles
<1>7. CASE CompleteMismatched(u)
  BY <1>7, IdleReads
  DEF CompleteMismatched, MayCompleteShopping, TypeOK, States, roles
<1>8. CASE CompleteMatched(u)
  <2>1. job' \in Jobs
    BY <1>8 DEF CompleteMatched, Jobs, DistributeJobs, Counted, BidsOn, HasBid
  <2>2. ReadsStayTrue'
    BY <1>8 DEF CompleteMatched, ReadsStayTrue, ItemsStayBought,
                BidsStayThere, RequestStaysTheirs, LeaverTookPart,
                Counted, BidsOn, HasBid, run
  <2> QED BY <1>8, <2>1, <2>2 DEF CompleteMatched, TypeOK, run, roles
<1> QED
  BY <1>1, <1>2, <1>4, <1>5, <1>6, <1>7, <1>8, Shopping(u) DEF Shopping

LEMMA DistributionIInv ==
  ASSUME IInv, NEW u \in Users, Distribution(u)
  PROVE  IInv'
<1> USE DEF IInv
<1>1. ASSUME NEW force \in BOOLEAN, FinishAdjusting(u, force)
      PROVE  IInv'
  <2>1. Bought \subseteq Nat
    BY DEF Bought, TypeOK
  <2>2. job' \in Jobs
    BY <1>1, <2>1 DEF FinishAdjusting, Jobs, AllocateJobs, HasBid
  <2>3. ReadsStayTrue'
    BY <1>1 DEF FinishAdjusting, ReadsStayTrue, ItemsStayBought,
                BidsStayThere, RequestStaysTheirs, LeaverTookPart, Bought, run
  <2> QED BY <1>1, <2>2, <2>3 DEF FinishAdjusting, TypeOK, run, roles
<1>2. ASSUME NEW k \in Keys, MarkPickedUp(u, k)
      PROVE  IInv'
  <2>1. [bids[k] EXCEPT !.picked = TRUE] \in Bid
    BY <1>2 DEF MarkPickedUp, HasBid, TypeOK, Bid
  <2>2. bids' \in [Keys -> Bid \cup {None}]
    BY <1>2, <2>1 DEF MarkPickedUp, TypeOK
  <2> QED BY <1>2, <2>2, IdleReads DEF MarkPickedUp, TypeOK, roles
<1>3. CASE CompleteDistribution(u)
  BY <1>3, IdleReads DEF CompleteDistribution, TypeOK, States, roles
<1> QED BY <1>1, <1>2, <1>3, Distribution(u) DEF Distribution

\* The first bid of a newcomer, the rows of the list.
LEMMA ListingIInv ==
  ASSUME IInv,
         \/ WriteFirstBid \/ RejectFirstBid \/ Activate
         \/ ListItem \/ ShoppingStarted \/ AddItem
  PROVE  IInv'
<1> USE DEF IInv
<1>1. CASE WriteFirstBid
  <2>1. job \in FirstBidJobs
    BY <1>1, JobShapes DEF WriteFirstBid, TypeOK
  <2>2. Rebid(bids[<<job.user, job.product>>], job.bid.quantity,
              job.bid.interested) \in Bid
    BY <2>1, RebidIsBid DEF TypeOK, Keys, FirstBidJobs, BidInput
  <2>3. job' \in Jobs /\ ReadsStayTrue'
    BY <1>1, IdleReads, CarefreeReads DEF WriteFirstBid, AfterFirstBid, Jobs
  <2> QED BY <1>1, <2>1, <2>2, <2>3
          DEF WriteFirstBid, TypeOK, roles, Keys, FirstBidJobs
<1>2. CASE RejectFirstBid
  BY <1>2, IdleReads, IdleIsJob DEF RejectFirstBid, TypeOK, run, roles
<1>3. CASE Activate
  BY <1>3, IdleReads, IdleIsJob DEF Activate, TypeOK, States, roles
<1>4. CASE ListItem
  <2>1. job \in ListJobs
    BY <1>4, JobShapes DEF ListItem, TypeOK
  <2>2. PICK p \in job.products :
          /\ items' = Append(items, NewItem(p, Total(p)))
          /\ job' = [job EXCEPT !.products = @ \ {p}]
    BY <1>4 DEF ListItem
  <2>3. p \in Products /\ Total(p) \in Nat
    BY <2>1, TotalIsNat DEF ListJobs, Total, Counted, BidsOn, TypeOK
  <2>4. NewItem(p, Total(p)) \in Item
    BY <2>3 DEF NewItem, Item
  <2>5. job' \in ListJobs
    BY <2>1, <2>2 DEF ListJobs
  <2>6. job' \in Jobs /\ ReadsStayTrue'
    BY <2>5, CarefreeReads DEF Jobs, ListJobs
  <2> QED BY <1>4, <2>2, <2>4, <2>6 DEF ListItem, TypeOK, roles
<1>5. CASE ShoppingStarted
  BY <1>5, IdleReads, IdleIsJob
  DEF ShoppingStarted, Transition, TypeOK, States, roles
<1>6. CASE AddItem
  <2>1. NewItem(job.product, job.requested) \in Item
    BY <1>6, JobShapes DEF AddItem, TypeOK, AddJobs, NewItem, Item
  <2> QED BY <1>6, <2>1, IdleReads, IdleIsJob DEF AddItem, TypeOK, roles
<1> QED BY <1>1, <1>2, <1>3, <1>4, <1>5, <1>6

\* The allocation of a list that matches the bids, the end of a departure.
LEMMA CompletingIInv ==
  ASSUME IInv,
         \/ SkipDistribution \/ DistributeBid \/ ShoppingCompleted
         \/ EraseBid \/ MemberGone
  PROVE  IInv'
<1> USE DEF IInv
<1>1. CASE SkipDistribution
  BY <1>1, IdleReads, IdleIsJob DEF SkipDistribution, TypeOK, States, roles
<1>2. CASE DistributeBid
  <2>1. job \in DistributeJobs /\ job.bids \subseteq HasBid
    BY <1>2, JobShapes DEF DistributeBid, TypeOK, ReadsStayTrue, BidsStayThere
  <2>2. PICK k \in job.bids :
          /\ bids' = [bids EXCEPT ![k].distributed = bids[k].quantity]
          /\ job' = [job EXCEPT !.bids = @ \ {k}]
    BY <1>2 DEF DistributeBid
  <2>3. /\ bids' \in [Keys -> Bid \cup {None}]
        /\ HasBid' = HasBid
    <3>1. k \in HasBid /\ bids[k].quantity \in Int
      BY <2>1, <2>2 DEF TypeOK, HasBid, Bid
    <3> QED BY <2>2, <3>1, AllocationKeepsBids DEF TypeOK
  <2>4. job' \in DistributeJobs /\ job'.bids \subseteq HasBid'
    BY <2>1, <2>2, <2>3 DEF DistributeJobs
  <2>5. job' \in Jobs /\ ReadsStayTrue'
    BY <2>4 DEF Jobs, DistributeJobs, ReadsStayTrue,
           ItemsStayBought, BidsStayThere, RequestStaysTheirs, LeaverTookPart
  <2> QED BY <1>2, <2>3, <2>5 DEF DistributeBid, TypeOK, roles
<1>3. CASE ShoppingCompleted
  BY <1>3, IdleReads, IdleIsJob DEF ShoppingCompleted, TypeOK, States, roles
<1>4. CASE EraseBid
  <2>1. /\ job \in DepartJobs
        /\ job.bids \subseteq HasBid
        /\ job.user \in participants
    BY <1>4, JobShapes
    DEF EraseBid, TypeOK, ReadsStayTrue, BidsStayThere, LeaverTookPart
  <2>2. PICK k \in job.bids :
          /\ bids' = [bids EXCEPT ![k] = None]
          /\ job' = [job EXCEPT !.bids = @ \ {k}]
    BY <1>4 DEF EraseBid
  <2>3. /\ bids' \in [Keys -> Bid \cup {None}]
        /\ HasBid' = HasBid \ {k}
    BY <2>2 DEF TypeOK, HasBid
  <2>4. /\ job' \in DepartJobs
        /\ job'.bids \subseteq HasBid'
        /\ job'.user \in participants'
    BY <1>4, <2>1, <2>2, <2>3 DEF DepartJobs, EraseBid, MarkRemoved
  <2>5. job' \in Jobs /\ ReadsStayTrue'
    BY <2>4 DEF Jobs, DepartJobs, ReadsStayTrue,
           ItemsStayBought, BidsStayThere, RequestStaysTheirs, LeaverTookPart
  <2> QED BY <1>4, <2>1, <2>3, <2>5 DEF EraseBid, MarkRemoved, TypeOK
<1>5. CASE MemberGone
  <2>1. job.user \in participants
    BY <1>5 DEF MemberGone, ReadsStayTrue, LeaverTookPart
  <2> QED BY <1>5, <2>1, IdleReads, IdleIsJob
          DEF MemberGone, MarkRemoved, StateAfter, TypeOK, States
<1> QED BY <1>1, <1>2, <1>3, <1>4, <1>5

\* What the handler of finish_adjusting has at hand while it allocates.
LEMMA ItemAtHand ==
  ASSUME IInv, job.op \in {"share", "surplus_alloc", "surplus_request"}
  PROVE  /\ job.item \in Bought
         /\ job.items \subseteq Bought
         /\ job.items \in SUBSET Nat
         /\ job.known \in SUBSET Keys
         /\ items[job.item] \in Item
         /\ items[job.item].product \in Products
         /\ items[job.item].requested \in Nat
         /\ items[job.item].purchased \in Nat
<1>1. job \in ShareJobs \cup SurplusJobs
  BY JobShapes DEF IInv, TypeOK
<1>2. job.items \in SUBSET Nat /\ job.known \in SUBSET Keys
  BY <1>1 DEF ShareJobs, SurplusJobs
<1>3. job.item \in Bought /\ job.items \subseteq Bought
  BY DEF IInv, ReadsStayTrue, ItemsStayBought
<1>4. items \in Seq(Item) /\ job.item \in DOMAIN items
  BY <1>3 DEF IInv, TypeOK, Bought
<1> QED BY <1>2, <1>3, <1>4, ListedItem

\* Changing what an item asks for leaves the rest of the list as it is.
LEMMA RequestKeepsItems ==
  ASSUME items \in Seq(Item), NEW i \in DOMAIN items, NEW n \in Nat,
         items' = [items EXCEPT ![i].requested = n]
  PROVE  /\ items' \in Seq(Item)
         /\ items'[i].requested = n
         /\ Bought' = Bought
         /\ \A j \in DOMAIN items : items'[j].product = items[j].product
<1> DEFINE new == [items[i] EXCEPT !.requested = n]
<1>1. items[i] \in Item
  BY ListedItem
<1>2. /\ new \in Item
      /\ new.requested = n
      /\ new.product = items[i].product
      /\ new.purchased = items[i].purchased
  BY <1>1 DEF Item
<1>3. items' = [items EXCEPT ![i] = new]
  OBVIOUS
<1> HIDE DEF new
<1>4. items' \in Seq(Item) /\ DOMAIN items' = DOMAIN items
  BY <1>2, <1>3
<1>5. \A j \in DOMAIN items :
        items'[j] = IF j = i THEN new ELSE items[j]
  BY <1>3
<1> QED BY <1>2, <1>4, <1>5 DEF Bought

LEMMA AdjustingIInv ==
  ASSUME IInv,
         \/ AllocateItem \/ AllocateBid \/ ItemAllocated
         \/ TakeSurplus \/ AllocateSurplus \/ RequestSurplus \/ AdjustingFinished
  PROVE  IInv'
<1> USE DEF IInv
<1>1. CASE AllocateItem
  <2>1. job \in AllocateJobs /\ job.items \subseteq Bought
    BY <1>1, JobShapes DEF AllocateItem, TypeOK, ReadsStayTrue, ItemsStayBought
  <2>2. PICK i \in job.items :
          /\ items' = [items EXCEPT ![i].requested = TotalOf(Sharers(i))]
          /\ job' = ShareOut(i)
    BY <1>1 DEF AllocateItem
  <2>3. i \in DOMAIN items /\ i \in Bought /\ i \in Nat
    BY <2>1, <2>2 DEF Bought, AllocateJobs
  <2>4. Sharers(i) \in SUBSET HasBid
    BY DEF Sharers, Counted, BidsOn
  <2>5. TotalOf(Sharers(i)) \in Nat
    BY <2>4, TotalIsNat DEF TypeOK
  <2>6. /\ items' \in Seq(Item)
        /\ items'[i].requested = TotalOf(Sharers(i))
        /\ Bought' = Bought
        /\ items'[i].product = items[i].product
    BY <2>2, <2>3, <2>5, RequestKeepsItems DEF TypeOK
  <2>7. job' \in ShareJobs
    BY <2>1, <2>2, <2>3, <2>4 DEF ShareJobs, ShareOut, AllocateJobs, HasBid
  <2>8. Sharers(i)' = Sharers(i) /\ TotalOf(Sharers(i))' = TotalOf(Sharers(i))
    <3>1. job'.known = job.known /\ bids' = bids
      BY <1>1, <2>2 DEF AllocateItem, ShareOut
    <3>2. Counted(items[i].product)' = Counted(items[i].product)
      BY <2>6, <3>1 DEF Counted, BidsOn, HasBid
    <3>3. Sharers(i)' = Sharers(i)
      BY <3>1, <3>2 DEF Sharers
    <3> QED BY <3>1, <3>3 DEF TotalOf
  <2>9. ReadsStayTrue'
    BY <1>1, <2>1, <2>2, <2>3, <2>4, <2>6, <2>8
    DEF AllocateItem, ReadsStayTrue, ItemsStayBought, BidsStayThere,
        RequestStaysTheirs, LeaverTookPart, ShareOut, HasBid
  <2> QED BY <1>1, <2>6, <2>7, <2>9 DEF AllocateItem, TypeOK, Jobs, roles
<1>2. CASE AllocateBid
  <2>1. job \in ShareJobs /\ job.bids \subseteq HasBid
    BY <1>2, JobShapes DEF AllocateBid, TypeOK, ReadsStayTrue, BidsStayThere
  <2>2. PICK k \in job.bids :
          \E share \in SharesOf(items[job.item], bids[k].quantity,
                                job.bids = {k}, job.given) :
            /\ bids' = [bids EXCEPT ![k].distributed = share]
            /\ job' = [job EXCEPT !.bids = @ \ {k}, !.given = @ + share]
    BY <1>2 DEF AllocateBid
  <2>3. PICK share \in SharesOf(items[job.item], bids[k].quantity,
                                job.bids = {k}, job.given) :
          /\ bids' = [bids EXCEPT ![k].distributed = share]
          /\ job' = [job EXCEPT !.bids = @ \ {k}, !.given = @ + share]
    BY <2>2
  <2>4. k \in HasBid /\ bids[k].quantity \in Nat /\ job.given \in Int
    BY <2>1, <2>2 DEF TypeOK, HasBid, Bid, ShareJobs
  <2>5. share \in Int
    <3>1. \A n, d : Rounded(n, d) \subseteq Int
      BY DEF Rounded
    <3>2. items[job.item].purchased \in Int
      <4>1. job.op = "share"
        BY <1>2 DEF AllocateBid
      <4>2. items[job.item].purchased \in Nat
        BY <4>1, ItemAtHand
      <4> QED BY <4>2
    <3> QED BY <2>3, <2>4, <3>1, <3>2 DEF SharesOf
  <2>6. /\ bids' \in [Keys -> Bid \cup {None}]
        /\ HasBid' = HasBid
        /\ \A p \in Products : Counted(p)' = Counted(p)
        /\ \A K \in SUBSET HasBid : TotalOf(K)' = TotalOf(K)
    BY <2>3, <2>4, <2>5, AllocationKeepsBids DEF TypeOK
  <2>7. /\ job' \in ShareJobs
        /\ job'.item = job.item /\ job'.items = job.items
        /\ job'.known = job.known
        /\ job'.bids \subseteq job.bids
    <3> DEFINE rest == [job EXCEPT !.bids = @ \ {k}]
    <3>1. /\ rest \in ShareJobs
          /\ rest.item = job.item /\ rest.items = job.items
          /\ rest.known = job.known /\ rest.given = job.given
          /\ rest.bids \subseteq job.bids
      BY <2>1 DEF ShareJobs
    <3>2. job' = [rest EXCEPT !.given = job.given + share]
      BY <2>1, <2>3 DEF ShareJobs
    <3> HIDE DEF rest
    <3> QED BY <2>4, <2>5, <3>1, <3>2 DEF ShareJobs
  <2>8. Sharers(job.item)' = Sharers(job.item)
    BY <1>2, <2>6, <2>7, ItemAtHand DEF AllocateBid, Sharers
  <2>9. TotalOf(Sharers(job.item))' = TotalOf(Sharers(job.item))
    <3>1. Sharers(job.item) \in SUBSET HasBid
      BY DEF Sharers, Counted, BidsOn
    <3>2. \A K \in SUBSET HasBid :
            K = Sharers(job.item)' => TotalOf(Sharers(job.item))' = TotalOf(K)'
      OBVIOUS
    <3> QED BY <2>6, <2>8, <3>1, <3>2
  <2>10. ReadsStayTrue'
    BY <1>2, <2>1, <2>6, <2>7, <2>8, <2>9
    DEF AllocateBid, ReadsStayTrue, ItemsStayBought, BidsStayThere,
        RequestStaysTheirs, LeaverTookPart, ShareJobs, Bought
  <2> QED BY <1>2, <2>6, <2>7, <2>10 DEF AllocateBid, TypeOK, Jobs, roles
<1>3. CASE ItemAllocated
  <2>1. job \in ShareJobs /\ job.items \subseteq Bought
    BY <1>3, JobShapes DEF ItemAllocated, TypeOK, ReadsStayTrue, ItemsStayBought
  <2>2. job' \in AllocateJobs
    BY <1>3, <2>1 DEF ItemAllocated, NextItem, ShareJobs, AllocateJobs
  <2>3. ReadsStayTrue'
    BY <1>3, <2>1
    DEF ItemAllocated, NextItem, ReadsStayTrue, ItemsStayBought,
        BidsStayThere, RequestStaysTheirs, LeaverTookPart, Bought, run
  <2> QED BY <1>3, <2>2, <2>3 DEF ItemAllocated, TypeOK, Jobs, run, roles
<1>4. CASE TakeSurplus
  <2>1. /\ job \in ShareJobs /\ job.op = "share"
        /\ job.items \subseteq Bought /\ job.item \in Bought
    BY <1>4, JobShapes DEF TakeSurplus, TypeOK, ReadsStayTrue, ItemsStayBought
  <2>2. PICK u \in leaders :
          LET k == <<u, items[job.item].product>> IN
          /\ bids' = [bids EXCEPT ![k] = WithSurplus(k)]
          /\ job' = SurplusStep("surplus_alloc", u)
    BY <1>4 DEF TakeSurplus
  <2> DEFINE k == <<u, items[job.item].product>>
  <2>3. /\ items[job.item].product \in Products
        /\ items[job.item].requested \in Nat
        /\ items[job.item].purchased \in Nat
    BY <2>1, ItemAtHand
  <2>4. k \in Keys /\ u \in Users
    BY <2>3 DEF TypeOK, Keys
  <2>5. Surplus \in Nat
    BY <1>4, <2>3 DEF TakeSurplus, Surplus
  <2>6. WithSurplus(k) \in Bid
    <3>1. k \in Sharers(job.item) => bids[k].quantity \in Nat
      BY DEF TypeOK, Sharers, Counted, BidsOn, HasBid, Bid
    <3>2. (IF k \in Sharers(job.item) THEN bids[k].quantity ELSE 0) + Surplus
            \in Nat
      BY <2>5, <3>1
    <3> QED BY <2>4, <3>2, RebidIsBid DEF WithSurplus, TypeOK
  <2> HIDE DEF k
  <2>7. bids' \in [Keys -> Bid \cup {None}] /\ k \in HasBid'
    BY <2>2, <2>4, <2>6, NoneAssumption DEF k, TypeOK, HasBid
  <2>8. job' \in SurplusJobs /\ job' = SurplusStep("surplus_alloc", u)
    BY <2>1, <2>2, <2>4 DEF SurplusStep, SurplusJobs, ShareJobs
  <2>9. ReadsStayTrue'
    BY <1>4, <2>1, <2>7, <2>8
    DEF k, TakeSurplus, SurplusStep, ReadsStayTrue, ItemsStayBought,
        BidsStayThere, RequestStaysTheirs, LeaverTookPart, Bought
  <2> QED BY <1>4, <2>7, <2>8, <2>9 DEF TakeSurplus, TypeOK, Jobs, roles
<1>5. CASE AllocateSurplus
  <2>1. /\ job \in SurplusJobs
        /\ job.items \subseteq Bought /\ job.item \in Bought
        /\ <<job.user, items[job.item].product>> \in HasBid
    BY <1>5, JobShapes
    DEF AllocateSurplus, TypeOK, ReadsStayTrue, ItemsStayBought, BidsStayThere
  <2> DEFINE k == <<job.user, items[job.item].product>>
  <2>2. bids[k].quantity \in Int
    BY <2>1 DEF TypeOK, HasBid, Bid
  <2>3. bids' = [bids EXCEPT ![k].distributed = bids[k].quantity]
    BY <1>5 DEF AllocateSurplus
  <2>4. bids' \in [Keys -> Bid \cup {None}]
    BY <2>1, <2>2, <2>3, AllocationKeepsBids DEF TypeOK
  <2>5. job' \in SurplusJobs /\ job'.op = "surplus_request"
    BY <1>5, <2>1 DEF AllocateSurplus, SurplusStep, SurplusJobs
  <2>6. ReadsStayTrue'
    BY <1>5, <2>1
    DEF AllocateSurplus, SurplusStep, ReadsStayTrue, ItemsStayBought,
        BidsStayThere, RequestStaysTheirs, LeaverTookPart, Bought
  <2> QED BY <1>5, <2>4, <2>5, <2>6 DEF AllocateSurplus, TypeOK, Jobs, roles
<1>6. CASE RequestSurplus
  <2>1. job \in SurplusJobs /\ job.op = "surplus_request"
    BY <1>6, JobShapes DEF RequestSurplus, TypeOK
  <2>2. /\ job.items \subseteq Bought /\ job.item \in Bought
        /\ items[job.item].purchased \in Nat
    BY <2>1, ItemAtHand
  <2>3. items' = [items EXCEPT ![job.item].requested = items[job.item].purchased]
    BY <1>6 DEF RequestSurplus
  <2>4. items' \in Seq(Item) /\ Bought' = Bought
    BY <2>2, <2>3, RequestKeepsItems DEF TypeOK, Bought
  <2>5. job' \in AllocateJobs
    BY <1>6, <2>1 DEF RequestSurplus, NextItem, SurplusJobs, AllocateJobs
  <2>6. ReadsStayTrue'
    BY <1>6, <2>2, <2>4
    DEF RequestSurplus, NextItem, ReadsStayTrue, ItemsStayBought,
        BidsStayThere, RequestStaysTheirs, LeaverTookPart
  <2> QED BY <1>6, <2>4, <2>5, <2>6 DEF RequestSurplus, TypeOK, Jobs, roles
<1>7. CASE AdjustingFinished
  BY <1>7, IdleReads, IdleIsJob
  DEF AdjustingFinished, Transition, TypeOK, States, roles
<1> QED BY <1>1, <1>2, <1>3, <1>4, <1>5, <1>6, <1>7

LEMMA StepIInv == IInv /\ [Next]_vars => IInv'
<1> SUFFICES ASSUME IInv, [Next]_vars PROVE IInv'
  OBVIOUS
<1>1. CASE UNCHANGED vars
  BY <1>1
  DEF IInv, vars, TypeOK, ReadsStayTrue, ItemsStayBought, BidsStayThere,
      RequestStaysTheirs, LeaverTookPart, Bought, HasBid, Sharers, Counted,
      BidsOn, TotalOf
<1>2. CASE Crash
  BY <1>2, IdleReads, IdleIsJob, CrashesAssumption
  DEF Crash, IInv, TypeOK, run, roles
<1>3. CASE JobStep
  BY <1>3, ListingIInv, CompletingIInv, AdjustingIInv DEF JobStep
<1>4. CASE Answer
  BY <1>4, AnswerIInv
<1>5. ASSUME NEW u \in Users,
             Bidding(u) \/ Shopping(u) \/ Distribution(u) \/ Governing(u)
      PROVE  IInv'
  BY <1>5, BiddingIInv, ShoppingIInv, DistributionIInv, GoverningIInv
<1> QED BY <1>1, <1>2, <1>3, <1>4, <1>5 DEF Next

\* The variables keep their types, and what a handler read before its first
\* commit stays true to its last one: for any users, products and inputs,
\* and however often a handler is cut short.
THEOREM TypeCorrect == Spec => []TypeOK
<1>1. IInv => TypeOK
  BY DEF IInv
<1> QED BY <1>1, InitIInv, StepIInv, PTL DEF Spec

THEOREM HandlersReadTrue == Spec => []ReadsStayTrue
<1>1. IInv => ReadsStayTrue
  BY DEF IInv
<1> QED BY <1>1, InitIInv, StepIInv, PTL DEF Spec
-----------------------------------------------------------------------------
(* The leadership *)

LInv == TypeOK /\ OneLeader /\ OfferIsLeaders

\* All but a few steps leave the leader and the offer alone.
LEMMA RolesKept ==
  ASSUME LInv, leaders' = leaders, request' = request,
         participants \subseteq participants'
  PROVE  OneLeader' /\ OfferIsLeaders'
BY DEF LInv, TypeOK, OneLeader, OfferIsLeaders

LEMMA StepLInv == LInv /\ [Next]_vars => OneLeader' /\ OfferIsLeaders'
<1> SUFFICES ASSUME LInv, [Next]_vars PROVE OneLeader' /\ OfferIsLeaders'
  OBVIOUS
<1>1. CASE UNCHANGED vars
  BY <1>1, RolesKept DEF vars
<1>2. CASE Crash
  BY <1>2, RolesKept DEF Crash, run, roles
<1>3. CASE JobStep
  <2>1. /\ leaders' = leaders /\ request' = request
        /\ participants' = participants
    BY <1>3
    DEF JobStep, WriteFirstBid, RejectFirstBid, Activate, ListItem,
        ShoppingStarted, AddItem, SkipDistribution, DistributeBid,
        ShoppingCompleted, AllocateItem, AllocateBid, ItemAllocated,
        TakeSurplus, AllocateSurplus, RequestSurplus, AdjustingFinished,
        EraseBid, MemberGone, MarkRemoved, run, roles
  <2> QED BY <2>1, RolesKept
<1>4. CASE AcceptReassignment
  <2>1. /\ leaders = {request.from}
        /\ request.to \in participants
    BY <1>4 DEF AcceptReassignment, LInv, OfferIsLeaders
  <2>2. leaders' = {request.to}
    BY <1>4, <2>1 DEF AcceptReassignment, LeadersAfter
  <2> QED BY <1>4, <2>1, <2>2
          DEF AcceptReassignment, OneLeader, OfferIsLeaders
<1>5. CASE \E u \in Users : DeclineReassignment(u) \/ CancelReassignment(u)
  BY <1>5 DEF DeclineReassignment, CancelReassignment, Dropped, LInv, OneLeader, OfferIsLeaders, roles
<1>6. ASSUME NEW u \in Users, Bidding(u)
      PROVE  OneLeader' /\ OfferIsLeaders'
  <2>1. /\ leaders' = leaders /\ request' = request
        /\ participants \subseteq participants'
    BY <1>6 DEF Bidding, RetractBid, PlaceBid, JoinRun, Participating, run, roles
  <2> QED BY <2>1, RolesKept
<1>7. ASSUME NEW u \in Users, Shopping(u) \/ Distribution(u)
      PROVE  OneLeader' /\ OfferIsLeaders'
  <2>1. /\ leaders' = leaders /\ request' = request
        /\ participants' = participants
    BY <1>7
    DEF Shopping, StartShopping, AddProduct, Unpurchase, MarkPurchased,
        UpdatePurchase, SetPurchased, CompleteUnbought, CompleteMismatched,
        CompleteMatched, Distribution, FinishAdjusting, MarkPickedUp,
        CompleteDistribution, run, roles
  <2> QED BY <2>1, RolesKept
<1>8. ASSUME NEW u \in Users, NEW heir \in Users, RequestReassignment(u, heir)
      PROVE  OneLeader' /\ OfferIsLeaders'
  <2>1. leaders = {u}
    BY <1>8 DEF RequestReassignment, IsLeader, LInv, OneLeader
  <2>2. heir \in participants \ leaders
    BY <1>8, <2>1 DEF RequestReassignment, MayOffer
  <2> QED BY <1>8, <2>1, <2>2
          DEF RequestReassignment, LInv, OneLeader, OfferIsLeaders, roles
<1>9. ASSUME NEW u \in Users, Governing(u),
             ~ \E heir \in Users : RequestReassignment(u, heir)
      PROVE  OneLeader' /\ OfferIsLeaders'
  <2>1. /\ leaders' = leaders /\ request' = request
        /\ participants \subseteq participants'
    BY <1>9
    DEF Governing, ToggleReady, ForceConfirm, CancelRun, ToggleHelper,
        Participating, LeaveGroup, JoinGroup, run, roles
  <2> QED BY <2>1, RolesKept
<1> QED BY <1>1, <1>2, <1>3, <1>4, <1>5, <1>6, <1>7, <1>8, <1>9
        DEF Next, Answer

\* A run always has exactly one leader, and an offer of the leadership is
\* always the leader's own, made to another participant: through every
\* hand-over, departure and crash.
THEOREM Leadership == Spec => [](OneLeader /\ OfferIsLeaders)
<1>1. Init => OneLeader /\ OfferIsLeaders
  BY DEF Init, OneLeader, OfferIsLeaders
<1>2. TypeOK /\ OneLeader /\ OfferIsLeaders /\ [Next]_vars
        => (OneLeader /\ OfferIsLeaders)'
  BY StepLInv DEF LInv
<1> QED BY <1>1, <1>2, TypeCorrect, PTL DEF Spec

\* So nobody can accept the leadership from somebody who has lost it: an
\* offer never outlives the leadership of who made it.
THEOREM OffersAreTrue == Spec => []OfferIsLeaders
<1>1. OneLeader /\ OfferIsLeaders => OfferIsLeaders
  OBVIOUS
<1> QED BY <1>1, Leadership, PTL
-----------------------------------------------------------------------------
(* The state a handler found is the one it commits in, since no other        *)
(* handler runs meanwhile: what the invariants below start from.            *)

StageHeld ==
  /\ job.op = "first_bid" => state \in {"planning", "active"}
  /\ job.op = "activate" => state = "planning"
  /\ job.op = "list" => state = "confirmed"
  /\ job.op \in {"add_item", "distribute"} => state = "shopping"
  /\ job.op = "complete" => state = "distributing"
  /\ job.op \in {"allocate", "share", "surplus_alloc", "surplus_request"} =>
       state = "adjusting"

LEMMA IdleHolds == job' = Idle => StageHeld'
BY DEF StageHeld, Idle

LEMMA StageKept ==
  ASSUME StageHeld, state' = state, job'.op = job.op
  PROVE  StageHeld'
BY DEF StageHeld

LEMMA StepStageHeld == TypeOK /\ StageHeld /\ [Next]_vars => StageHeld'
<1> SUFFICES ASSUME TypeOK, StageHeld, [Next]_vars PROVE StageHeld'
  OBVIOUS
<1>1. CASE UNCHANGED vars
  BY <1>1, StageKept DEF vars
<1>2. CASE Crash
  BY <1>2, IdleHolds DEF Crash
<1>3. CASE JobStep
  <2>1. CASE RejectFirstBid \/ Activate \/ ShoppingStarted \/ AddItem
             \/ SkipDistribution \/ ShoppingCompleted \/ AdjustingFinished
             \/ MemberGone
    BY <2>1, IdleHolds
    DEF RejectFirstBid, Activate, ShoppingStarted, AddItem, SkipDistribution,
        ShoppingCompleted, AdjustingFinished, MemberGone
  <2>2. CASE WriteFirstBid
    BY <2>2 DEF WriteFirstBid, AfterFirstBid, StageHeld, Idle
  <2>3. CASE ListItem \/ DistributeBid \/ AllocateBid \/ EraseBid
    <3>1. state' = state
      BY <2>3 DEF ListItem, DistributeBid, AllocateBid, EraseBid
    <3>2. job \in ListJobs \cup DistributeJobs \cup ShareJobs \cup DepartJobs
      BY <2>3, JobShapes DEF ListItem, DistributeBid, AllocateBid, EraseBid, TypeOK
    <3>3. job'.op = job.op
      BY <2>3, <3>2
      DEF ListItem, DistributeBid, AllocateBid, EraseBid,
          ListJobs, DistributeJobs, ShareJobs, DepartJobs
    <3> QED BY <3>1, <3>3, StageKept
  <2>4. CASE AllocateItem \/ ItemAllocated \/ TakeSurplus \/ AllocateSurplus
             \/ RequestSurplus
    <3>1. state = "adjusting" /\ state' = state
      BY <2>4
      DEF AllocateItem, ItemAllocated, TakeSurplus, AllocateSurplus,
          RequestSurplus, StageHeld, run
    <3>2. job'.op \in {"allocate", "share", "surplus_alloc", "surplus_request"}
      <4>1. CASE AllocateItem
        BY <4>1 DEF AllocateItem, ShareOut
      <4>2. CASE ItemAllocated \/ RequestSurplus
        BY <4>2 DEF ItemAllocated, RequestSurplus, NextItem
      <4>3. CASE TakeSurplus
        BY <4>3 DEF TakeSurplus, SurplusStep
      <4>4. CASE AllocateSurplus
        BY <4>4 DEF AllocateSurplus, SurplusStep
      <4> QED BY <2>4, <4>1, <4>2, <4>3, <4>4
    <3> QED BY <3>1, <3>2 DEF StageHeld
  <2> QED BY <1>3, <2>1, <2>2, <2>3, <2>4 DEF JobStep
<1>4. CASE Answer
  BY <1>4, StageKept DEF Answer, AcceptReassignment, DeclineReassignment, CancelReassignment, Dropped
<1>5. ASSUME NEW u \in Users, Bidding(u)
      PROVE  StageHeld'
  BY <1>5, StageKept
  DEF Bidding, RetractBid, PlaceBid, JoinRun, CanJoinRun, StageHeld, run
<1>6. ASSUME NEW u \in Users, Shopping(u)
      PROVE  StageHeld'
  <2>1. CASE StartShopping(u) \/ CompleteUnbought(u) \/ CompleteMatched(u)
    BY <2>1
    DEF StartShopping, CompleteUnbought, CompleteMatched, MayCompleteShopping,
        CanStartShopping, CanCompleteShopping, StageHeld, run
  <2>2. CASE CompleteMismatched(u)
    BY <2>2, IdleHolds DEF CompleteMismatched, MayCompleteShopping
  <2>3. ASSUME NEW p \in Products, NEW quantity \in AddInputs,
               AddProduct(u, p, quantity)
        PROVE  StageHeld'
    BY <2>3 DEF AddProduct, StageHeld
  <2>4. ASSUME NEW i \in DOMAIN items, NEW quantity \in PurchaseInputs,
               MarkPurchased(u, i, quantity) \/ UpdatePurchase(u, i, quantity)
        PROVE  StageHeld'
    BY <2>4, StageKept DEF MarkPurchased, UpdatePurchase, SetPurchased
  <2>5. ASSUME NEW i \in DOMAIN items, Unpurchase(u, i)
        PROVE  StageHeld'
    BY <2>5, StageKept DEF Unpurchase, SetPurchased
  <2> QED BY <1>6, <2>1, <2>2, <2>3, <2>4, <2>5 DEF Shopping
<1>7. ASSUME NEW u \in Users, Distribution(u)
      PROVE  StageHeld'
  BY <1>7, StageKept, IdleHolds
  DEF Distribution, FinishAdjusting, MarkPickedUp, CompleteDistribution,
      CanFinishAdjusting, StageHeld, run
<1>8. ASSUME NEW u \in Users, Governing(u)
      PROVE  StageHeld'
  BY <1>8, StageKept, IdleHolds
  DEF Governing, ToggleReady, ForceConfirm, CancelRun, ToggleHelper,
      RequestReassignment, LeaveGroup, JoinGroup, StageHeld, Idle, run
<1> QED BY <1>1, <1>2, <1>3, <1>4, <1>5, <1>6, <1>7, <1>8 DEF Next
-----------------------------------------------------------------------------
(* The bids of those who leave.  Inductive: whoever has a bid takes part in *)
(* the run, and before the shopping a bid is a member's, or its owner is    *)
(* leaving and the handler has yet to erase it.                             *)

Open == state \in {"planning", "active", "confirmed"}

MInv ==
  /\ \A k \in HasBid : k[1] \in participants
  /\ job.op = "first_bid" => job.user \in participants \cap members
  /\ Open => \A k \in HasBid :
               k[1] \in members \/ (job.op = "depart" /\ k \in job.bids)

\* Most steps add no bid, lose no member and do not reopen the run.
LEMMA BidsKept ==
  ASSUME MInv, HasBid' \subseteq HasBid, job.op # "depart",
         members \subseteq members', participants \subseteq participants',
         Open' => Open, job'.op # "first_bid"
  PROVE  MInv'
BY DEF MInv

\* Once the shopping began, members may go and bids come.
LEMMA BidsLater ==
  ASSUME MInv, ~Open', job'.op # "first_bid",
         participants \subseteq participants',
         \A k \in HasBid' \ HasBid : k[1] \in participants
  PROVE  MInv'
BY DEF MInv

LEMMA JobMInv ==
  ASSUME IInv, StageHeld, MInv, JobStep
  PROVE  MInv'
<1>1. CASE WriteFirstBid
  <2>1. job.user \in participants \cap members
    BY <1>1 DEF WriteFirstBid, MInv
  <2>2. \A k \in HasBid' : k \in HasBid \/ k[1] = job.user
    BY <1>1 DEF WriteFirstBid, HasBid, IInv, TypeOK
  <2>3. job'.op # "first_bid" /\ job'.op # "depart"
    BY <1>1 DEF WriteFirstBid, AfterFirstBid, Idle
  <2> QED BY <1>1, <2>1, <2>2, <2>3 DEF WriteFirstBid, MInv, Open, roles
<1>2. CASE RejectFirstBid \/ ListItem \/ Activate
  <2>1. /\ HasBid' \subseteq HasBid
        /\ members \subseteq members'
        /\ participants \subseteq participants'
    BY <1>2 DEF RejectFirstBid, ListItem, Activate, HasBid, run, roles
  <2>3. Open' => Open
    BY <1>2
    DEF RejectFirstBid, ListItem, Activate, run, Open, StageHeld
  <2>2. job'.op # "first_bid" /\ job.op # "depart"
    <3>1. CASE ListItem
      BY <3>1, JobShapes DEF ListItem, ListJobs, IInv, TypeOK
    <3> QED BY <1>2, <3>1 DEF RejectFirstBid, Activate, Idle
  <2> QED BY <2>1, <2>2, <2>3, BidsKept
<1>3. CASE ShoppingStarted \/ AddItem \/ SkipDistribution
           \/ ShoppingCompleted \/ AdjustingFinished
  <2>1. ~Open' /\ HasBid' = HasBid /\ participants' = participants
    BY <1>3
    DEF ShoppingStarted, AddItem, SkipDistribution, ShoppingCompleted,
        AdjustingFinished, Transition, Open, HasBid, StageHeld, roles
  <2>2. job'.op # "first_bid"
    BY <1>3
    DEF ShoppingStarted, AddItem, SkipDistribution, ShoppingCompleted,
        AdjustingFinished, Idle
  <2> QED BY <2>1, <2>2, BidsLater
<1>4. CASE DistributeBid \/ AllocateBid \/ AllocateItem \/ ItemAllocated
           \/ TakeSurplus \/ AllocateSurplus \/ RequestSurplus
  <2>1. StageHeld'
    BY <1>4, StepStageHeld DEF IInv, Next, JobStep
  <2>2. job'.op \notin {"first_bid", "depart"}
    <3>1. CASE DistributeBid \/ AllocateBid
      BY <3>1, JobShapes
      DEF DistributeBid, AllocateBid, DistributeJobs, ShareJobs, IInv, TypeOK
    <3>2. CASE AllocateItem
      BY <3>2 DEF AllocateItem, ShareOut
    <3>3. CASE ItemAllocated \/ RequestSurplus
      BY <3>3 DEF ItemAllocated, RequestSurplus, NextItem
    <3>4. CASE TakeSurplus
      BY <3>4 DEF TakeSurplus, SurplusStep
    <3>5. CASE AllocateSurplus
      BY <3>5 DEF AllocateSurplus, SurplusStep
    <3> QED BY <1>4, <3>1, <3>2, <3>3, <3>4, <3>5
  <2>3. ~Open' /\ participants' = participants
    BY <1>4
    DEF DistributeBid, AllocateBid, AllocateItem, ItemAllocated, TakeSurplus,
        AllocateSurplus, RequestSurplus, StageHeld, Open, run, roles
  <2>4. \A k \in HasBid' \ HasBid : k[1] \in participants
    <3>1. CASE TakeSurplus
      BY <3>1 DEF TakeSurplus, HasBid, IInv, TypeOK
    <3>2. CASE AllocateItem \/ ItemAllocated \/ RequestSurplus
      BY <3>2 DEF AllocateItem, ItemAllocated, RequestSurplus, HasBid, run
    <3>3. CASE DistributeBid \/ AllocateBid
      <4>1. job.bids \subseteq HasBid
        BY <3>3 DEF DistributeBid, AllocateBid, IInv, ReadsStayTrue, BidsStayThere
      <4> QED BY <3>3, <4>1 DEF DistributeBid, AllocateBid, HasBid, IInv, TypeOK
    <3>4. CASE AllocateSurplus
      <4>1. <<job.user, items[job.item].product>> \in HasBid
        BY <3>4 DEF AllocateSurplus, IInv, ReadsStayTrue, BidsStayThere
      <4> QED BY <3>4, <4>1 DEF AllocateSurplus, HasBid, IInv, TypeOK
    <3> QED BY <1>4, <3>1, <3>2, <3>3, <3>4
  <2> QED BY <2>2, <2>3, <2>4, BidsLater
<1>5. CASE EraseBid
  <2>1. job \in DepartJobs /\ job.op = "depart"
    BY <1>5, JobShapes DEF EraseBid, IInv, TypeOK
  <2>2. PICK k \in job.bids :
          /\ bids' = [bids EXCEPT ![k] = None]
          /\ job' = [job EXCEPT !.bids = @ \ {k}]
    BY <1>5 DEF EraseBid
  <2>3. HasBid' = HasBid \ {k}
    BY <2>2 DEF HasBid, IInv, TypeOK
  <2>4. job'.op = "depart" /\ job'.bids = job.bids \ {k}
    BY <2>1, <2>2 DEF DepartJobs
  <2> QED BY <1>5, <2>1, <2>3, <2>4 DEF EraseBid, MarkRemoved, MInv, Open
<1>6. CASE MemberGone
  <2>1. /\ job' = Idle /\ HasBid' = HasBid /\ members' = members
        /\ participants' = participants /\ job.op = "depart" /\ job.bids = {}
        /\ Open' => Open
    BY <1>6 DEF MemberGone, MarkRemoved, StateAfter, HasBid, Open
  <2> QED BY <2>1 DEF MInv, Idle
<1> QED BY <1>1, <1>2, <1>3, <1>4, <1>5, <1>6 DEF JobStep

LEMMA StepMInv ==
  ASSUME MaxCrashes = 0, IInv, StageHeld, MInv, [Next]_vars
  PROVE  MInv'
<1>1. CASE UNCHANGED vars
  BY <1>1 DEF vars, MInv, Open, HasBid
<1>2. CASE Crash
  BY <1>2 DEF Crash, IInv, TypeOK
<1>3. CASE JobStep
  BY <1>3, JobMInv
<1>4. CASE Answer
  <2>1. /\ HasBid' \subseteq HasBid /\ job' = job /\ job = Idle
        /\ members \subseteq members' /\ participants \subseteq participants'
        /\ state' = state
    BY <1>4 DEF Answer, AcceptReassignment, DeclineReassignment, CancelReassignment, Dropped, HasBid, roles
  <2> QED BY <2>1, BidsKept DEF Idle, Open
<1>5. ASSUME NEW u \in Users, Bidding(u)
      PROVE  MInv'
  <2>1. PICK p \in Products :
          \/ RetractBid(u, p)
          \/ \E bid \in BidInputs : PlaceBid(u, p, bid) \/ JoinRun(u, p, bid)
    BY <1>5 DEF Bidding
  <2>2. CASE RetractBid(u, p)
    <3>1. HasBid' \subseteq HasBid
      BY <2>2 DEF RetractBid, HasBid, IInv, TypeOK
    <3> QED BY <2>2, <3>1, BidsKept DEF RetractBid, Idle, Open, roles
  <2>3. ASSUME NEW bid \in BidInputs, PlaceBid(u, p, bid)
        PROVE  MInv'
    <3>1. \A k \in HasBid' : k \in HasBid \/ k[1] = u
      BY <2>3 DEF PlaceBid, HasBid, IInv, TypeOK
    <3> QED BY <2>3, <3>1 DEF PlaceBid, MInv, Idle, Open, roles
  <2>4. ASSUME NEW bid \in BidInputs, JoinRun(u, p, bid)
        PROVE  MInv'
    BY <2>4 DEF JoinRun, Participating, MInv, Idle, Open, HasBid, run
  <2> QED BY <2>1, <2>2, <2>3, <2>4
<1>6. ASSUME NEW u \in Users, Shopping(u)
      PROVE  MInv'
  <2>1. ASSUME NEW p \in Products, NEW quantity \in AddInputs,
               AddProduct(u, p, quantity)
        PROVE  MInv'
    <3>1. u \in participants
      BY <2>1 DEF AddProduct, IsLeaderOrHelper, IInv, TypeOK
    <3>2. \A k \in HasBid' : k \in HasBid \/ k[1] = u
      <4> DEFINE b == Rebid(bids[<<u, p>>], Truncated(quantity), FALSE)
      <4>1. bids' = [bids EXCEPT ![<<u, p>>] = b]
        BY <2>1 DEF AddProduct
      <4> HIDE DEF b
      <4>2. \A k \in Keys : k # <<u, p>> => bids'[k] = bids[k]
        BY <4>1 DEF IInv, TypeOK
      <4> QED BY <4>2 DEF HasBid
    <3>3. \A k \in HasBid' \ HasBid : k[1] \in participants
      BY <3>1, <3>2
    <3> QED BY <2>1, <3>3, BidsLater DEF AddProduct, Open, roles
  <2>2. ASSUME ~ \E p \in Products, quantity \in AddInputs :
                   AddProduct(u, p, quantity)
        PROVE  MInv'
    <3>1. /\ HasBid' \subseteq HasBid /\ job = Idle
          /\ members \subseteq members' /\ participants \subseteq participants'
          /\ Open' => Open
      BY <1>6, <2>2
      DEF Shopping, StartShopping, Unpurchase, MarkPurchased, UpdatePurchase,
          SetPurchased, CompleteUnbought, CompleteMismatched, CompleteMatched,
          MayCompleteShopping, HasBid, Open, run, roles
    <3>2. job'.op # "first_bid"
      BY <1>6, <2>2
      DEF Shopping, StartShopping, Unpurchase, MarkPurchased, UpdatePurchase,
          SetPurchased, CompleteUnbought, CompleteMismatched, CompleteMatched,
          MayCompleteShopping, Idle
    <3> QED BY <3>1, <3>2, BidsKept DEF Idle
  <2> QED BY <2>1, <2>2
<1>7. ASSUME NEW u \in Users, Distribution(u)
      PROVE  MInv'
  <2>1. /\ HasBid' \subseteq HasBid /\ job = Idle
        /\ members \subseteq members' /\ participants \subseteq participants'
        /\ Open' => Open
    BY <1>7
    DEF Distribution, FinishAdjusting, MarkPickedUp, CompleteDistribution,
        HasBid, Open, IInv, TypeOK, run, roles
  <2>2. job'.op # "first_bid"
    BY <1>7
    DEF Distribution, FinishAdjusting, MarkPickedUp, CompleteDistribution, Idle
  <2> QED BY <2>1, <2>2, BidsKept DEF Idle
<1>8. ASSUME NEW u \in Users, LeaveGroup(u)
      PROVE  MInv'
  <2>1. /\ HasBid' = HasBid /\ members' = members \ {u}
        /\ participants' = participants /\ state' = state /\ job = Idle
    BY <1>8 DEF LeaveGroup, HasBid, roles
  <2>2. CASE u \in participants
    <3>1. job'.op = "depart" /\ job'.bids = BidsToErase(u)
      BY <1>8, <2>2 DEF LeaveGroup
    <3>2. Open => BidsToErase(u) = {k \in HasBid : k[1] = u}
      BY DEF Open, BidsToErase
    <3> QED BY <2>1, <3>1, <3>2 DEF MInv, Open, Idle
  <2>3. CASE u \notin participants
    <3>1. job' = Idle
      BY <1>8, <2>3 DEF LeaveGroup
    <3> QED BY <2>1, <2>3, <3>1 DEF MInv, Open, Idle
  <2> QED BY <2>2, <2>3
<1>9. ASSUME NEW u \in Users, Governing(u), ~LeaveGroup(u)
      PROVE  MInv'
  <2>1. /\ HasBid' \subseteq HasBid /\ job = Idle /\ job' = Idle
        /\ members \subseteq members' /\ participants \subseteq participants'
    BY <1>9
    DEF Governing, ToggleReady, ForceConfirm, CancelRun, ToggleHelper,
        RequestReassignment, JoinGroup, Participating, HasBid, run, roles
  <2>2. Open' => Open
    BY <1>9
    DEF Governing, ToggleReady, ForceConfirm, CancelRun, ToggleHelper,
        RequestReassignment, JoinGroup, Transition, Open, run
  <2> QED BY <2>1, <2>2, BidsKept DEF Idle
<1> QED BY <1>1, <1>2, <1>3, <1>4, <1>5, <1>6, <1>7, <1>8, <1>9 DEF Next

\* As long as no handler is cut short, every bid is a member's until the
\* shopping starts: what is bought is bought for members.
THEOREM BidsAreMembers ==
  ASSUME MaxCrashes = 0
  PROVE  Spec => []MembersBids
<1>1. Init => MInv
  BY DEF Init, MInv, HasBid, Idle
<1>2. MInv => MembersBids
  BY DEF MInv, MembersBids, Open
<1>3. Init => StageHeld
  BY DEF Init, StageHeld, Idle
<1>4. IInv => TypeOK
  BY DEF IInv
<1>5. IInv /\ StageHeld /\ MInv /\ [Next]_vars => MInv'
  BY StepMInv
<1> QED BY <1>1, <1>2, <1>3, <1>4, <1>5, InitIInv, StepIInv, StepStageHeld,
           PTL DEF Spec
=============================================================================
