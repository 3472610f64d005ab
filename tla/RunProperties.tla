--------------------------- MODULE RunProperties ---------------------------
(***************************************************************************)
(* What should be true of a run that RunLifecycle describes, and how its   *)
(* state maps to the one of RunPromise.                                    *)
(***************************************************************************)
EXTENDS RunLifecycle

\* The sum of a function, as a number of units: what it adds, less what it
\* takes away.
Units(f) == Cardinality(UNION {{k} \X (1..f[k]) : k \in DOMAIN f})

SumOf(f) == Units(f) - Units([k \in DOMAIN f |-> -f[k]])

\* What the bids on a product were allotted together.  A share may be below
\* zero: the last one makes up for what the others were rounded up.
AllottedOf(p) ==
  SumOf([k \in {k \in Counted(p) : bids[k].distributed # None} |->
           bids[k].distributed])

Published == CanViewDistribution(state)

\* What a reader of the distribution sees: interested-only bids and bids
\* without an allocation are not in it.
Part(k) ==
  IF Published /\ k \in HasBid /\ ~bids[k].interested
  THEN bids[k].distributed ELSE None

Collected ==
  {k \in HasBid : Published /\ bids[k].picked}

\* One leader and her pending offer.
Owner == CHOOSE u \in leaders : TRUE

Heir == IF request = None THEN None ELSE request.to

Parts == [k \in Keys |-> Part(k)]

Promise == INSTANCE RunPromise WITH
  stage <- state, owner <- Owner, heir <- Heir,
  parts <- Parts, collected <- Collected

\* The services keep the promise of a run, when no handler is cut short.
KeepsPromise == Promise!Spec
-----------------------------------------------------------------------------
(* Safety *)

\* A run has exactly one leader: through every hand-over, departure and
\* crash, so that somebody can cancel, shop and distribute, and nobody else.
OneLeader == \E u \in participants : leaders = {u}

\* A pending offer of the leadership is always the present leader's own and
\* made to another participant: accepting it late moves the leadership away
\* from the one who has it, whatever happened between offer and answer.
OfferIsLeaders ==
  request # None => leaders = {request.from} /\ request.to \in participants \ leaders

\* What a handler read before its first commit it still relies on at its
\* last one.  The items it allocates are still bought, and ask for what their
\* bids ask for; the bids it has yet to write are still there; and whoever is
\* leaving took part in the run.
ItemsStayBought ==
  /\ job.op \in {"allocate", "share", "surplus_alloc", "surplus_request"} =>
       job.items \subseteq Bought
  /\ job.op \in {"share", "surplus_alloc", "surplus_request"} =>
       job.item \in Bought

BidsStayThere ==
  /\ job.op \in {"distribute", "share", "depart"} => job.bids \subseteq HasBid
  /\ job.op = "surplus_alloc" =>
       <<job.user, items[job.item].product>> \in HasBid

RequestStaysTheirs ==
  job.op = "share" => items[job.item].requested = TotalOf(Sharers(job.item))

LeaverTookPart == job.op = "depart" => job.user \in participants

ReadsStayTrue ==
  ItemsStayBought /\ BidsStayThere /\ RequestStaysTheirs /\ LeaverTookPart

\* Before the shopping starts every bid belongs to a member of the group: a
\* departure takes the bids along, and a newcomer's bid follows the
\* membership, so that nothing is bought for those who are gone.
MembersBids ==
  state \in {"planning", "active", "confirmed"} /\ job.op # "depart" =>
    \A k \in HasBid : k[1] \in members

\* During the shopping the list asks for exactly what the bids ask for: a
\* product with a demand has a row, and a single row asks for the sum.
ListMatchesBids ==
  state = "shopping" /\ job = Idle =>
    \A p \in Products :
      /\ Total(p) > 0 => ItemsOf(p) # {}
      /\ \A i \in ItemsOf(p) :
           ItemsOf(p) = {i} => items[i].requested = Total(p)

\* When the distribution begins, the bids on a product that is on the list
\* once were allotted together exactly what was bought of it: no rounding,
\* surplus or retry loses or invents a unit.
BoughtIsAllotted ==
  [][state # "distributing" /\ state' = "distributing" =>
       \A i \in Bought :
         ItemsOf(items[i].product) = {i} =>
           AllottedOf(items[i].product) = items[i].purchased]_vars
=============================================================================
