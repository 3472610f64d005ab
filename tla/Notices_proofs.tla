---------------------------- MODULE Notices_proofs ----------------------------
(***************************************************************************)
(* For any number of notifications, runs and answers under way: the list   *)
(* that the server makes has every notification in one entry, the newest   *)
(* first, and the badge of a page to which nothing has happened that it    *)
(* cannot stand counts what is unread.                                     *)
(***************************************************************************)
EXTENDS Notices, FiniteSetTheorems, TLAPS

-----------------------------------------------------------------------------
(* The list: the greatest and the least of some ids, and the ranks of the  *)
(* entries among themselves.                                               *)

\* Of the ids that follow some id of a set, fewer follow a greater one: a set
\* of ids that nothing follows in it is that of the greatest.
LEMMA NewestIs ==
  ASSUME NEW n \in Nat, NEW ids \in SUBSET (1..n), ids # {}
  PROVE  Newest(ids) \in ids /\ \A j \in ids : j =< Newest(ids)
<1> DEFINE Following(i) == {j \in ids : j > i}
           T == {Following(i) : i \in ids}
<1>1. IsFiniteSet(ids)
  <2>1. n \in Int /\ 1 \in Int
    OBVIOUS
  <2>2. IsFiniteSet(1..n)
    BY ONLY <2>1, FS_Interval
  <2> QED BY <2>2, FS_Subset
<1>2. T \subseteq FiniteSubsetsOf(ids) /\ T # {}
  <2>1. FiniteSubsetsOf(ids) = SUBSET ids
    BY <1>1, FS_FiniteSubsetsOfFinite
  <2>2. \A X \in T : X \in SUBSET ids
    OBVIOUS
  <2>3. T # {}
    OBVIOUS
  <2> QED BY <2>1, <2>2, <2>3
<1>3. PICK X \in T : \A Y \in T : ~ (<<Y, X>> \in StrictSubsetOrdering(ids))
  <2> HIDE DEF T
  <2> QED BY <1>2, FS_StrictSubsetOrderingWellFounded, WFMin
<1>4. PICK i \in ids : X = Following(i)
  OBVIOUS
<1>5. \A j \in ids : j =< i
  <2> SUFFICES ASSUME NEW j \in ids, j > i PROVE FALSE
    OBVIOUS
  <2>0. i \in Nat /\ j \in Nat
    OBVIOUS
  <2>1. Following(j) \in T /\ j \in Following(i) /\ j \notin Following(j)
    BY <2>0
  <2>2. \A x \in Following(j) : x \in Following(i)
    <3> TAKE x \in Following(j)
    <3>1. x \in ids /\ x \in Nat
      OBVIOUS
    <3> QED BY <2>0, <3>1
  <2>3. <<Following(j), X>> \in StrictSubsetOrdering(ids)
    <3>1. X \in SUBSET ids /\ Following(j) \in SUBSET ids
      BY <1>4
    <3>2. Following(j) \subseteq X /\ Following(j) # X
      BY <1>4, <2>1, <2>2
    <3> HIDE DEF Following, T
    <3> QED BY <3>1, <3>2 DEF StrictSubsetOrdering
  <2> QED BY <1>3, <2>1, <2>3
<1> QED BY <1>5 DEF Newest

\* The same from the other end.
LEMMA OldestIs ==
  ASSUME NEW n \in Nat, NEW ids \in SUBSET (1..n), ids # {}
  PROVE  Oldest(ids) \in ids /\ \A j \in ids : Oldest(ids) =< j
<1> DEFINE Preceding(i) == {j \in ids : j < i}
           T == {Preceding(i) : i \in ids}
<1>1. IsFiniteSet(ids)
  <2>1. n \in Int /\ 1 \in Int
    OBVIOUS
  <2>2. IsFiniteSet(1..n)
    BY ONLY <2>1, FS_Interval
  <2> QED BY <2>2, FS_Subset
<1>2. T \subseteq FiniteSubsetsOf(ids) /\ T # {}
  <2>1. FiniteSubsetsOf(ids) = SUBSET ids
    BY <1>1, FS_FiniteSubsetsOfFinite
  <2>2. \A X \in T : X \in SUBSET ids
    OBVIOUS
  <2>3. T # {}
    OBVIOUS
  <2> QED BY <2>1, <2>2, <2>3
<1>3. PICK X \in T : \A Y \in T : ~ (<<Y, X>> \in StrictSubsetOrdering(ids))
  <2> HIDE DEF T
  <2> QED BY <1>2, FS_StrictSubsetOrderingWellFounded, WFMin
<1>4. PICK i \in ids : X = Preceding(i)
  OBVIOUS
<1>5. \A j \in ids : i =< j
  <2> SUFFICES ASSUME NEW j \in ids, j < i PROVE FALSE
    OBVIOUS
  <2>0. i \in Nat /\ j \in Nat
    OBVIOUS
  <2>1. Preceding(j) \in T /\ j \in Preceding(i) /\ j \notin Preceding(j)
    BY <2>0
  <2>2. \A x \in Preceding(j) : x \in Preceding(i)
    <3> TAKE x \in Preceding(j)
    <3>1. x \in ids /\ x \in Nat
      OBVIOUS
    <3> QED BY <2>0, <3>1
  <2>3. <<Preceding(j), X>> \in StrictSubsetOrdering(ids)
    <3>1. X \in SUBSET ids /\ Preceding(j) \in SUBSET ids
      BY <1>4
    <3>2. Preceding(j) \subseteq X /\ Preceding(j) # X
      BY <1>4, <2>1, <2>2
    <3> HIDE DEF Preceding, T
    <3> QED BY <3>1, <3>2 DEF StrictSubsetOrdering
  <2> QED BY <1>3, <2>1, <2>3
<1> QED BY <1>5 DEF Oldest

\* What _group_notifications puts into the list, and how it sorts it.
Entries == Groups \cup Singles
After(e) == {f \in Entries : Newest(f) > Newest(e)}
At(k) == CHOOSE e \in Entries : Cardinality(After(e)) = k - 1

\* The list in these terms.
LEMMA ListingIs ==
  Listing = [k \in 1..Cardinality(Entries) |-> AsEntry(At(k))]
BY DEF Listing, Entries, After, At

\* Her rows are numbered in the order of their creation.
LEMMA StoredFinite ==
  ASSUME TypeOK
  PROVE  IsFiniteSet(Stored) /\ Stored = 1..Len(store) /\ Len(store) \in Nat
<1>1. Stored = 1..Len(store) /\ Len(store) \in Nat
  BY DEF TypeOK, Stored
<1>2. Len(store) \in Int /\ 1 \in Int
  BY <1>1
<1>3. IsFiniteSet(1..Len(store))
  BY ONLY <1>2, FS_Interval
<1> QED BY <1>1, <1>3

Row == [about : Runs \cup {Other}, at : 0..MaxTime, read : BOOLEAN]

\* Every row has a time.
LEMMA Rows ==
  ASSUME TypeOK
  PROVE  store \in [Stored -> Row] /\ \A i \in Stored : store[i].at \in Nat
<1>1. store \in [Stored -> Row]
  <2>1. store \in Seq(Row)
    BY DEF TypeOK, Row
  <2> QED BY <2>1 DEF Stored
<1>2. \A w \in Row : w.at \in Nat
  BY ConstantsAssumption DEF Row
<1> QED BY <1>1, <1>2

\* The entries part the notifications among themselves.
LEMMA EntriesPart ==
  ASSUME TypeOK
  PROVE  /\ \A e \in Entries : e # {} /\ e \subseteq Stored
         /\ \A e, f \in Entries : e # f => e \cap f = {}
         /\ \A i \in Stored : \E e \in Entries : i \in e
         /\ Stored \subseteq Ids /\ Stored = 1..Len(store)
<1>1. Stored = 1..Len(store) /\ Stored \subseteq Ids
  BY StoredFinite, ConstantsAssumption DEF TypeOK, Ids
<1>2. \A e \in Entries : e # {} /\ e \subseteq Stored
  BY DEF Entries, Groups, Singles, About
<1>3. \A e, f \in Groups : e # f => e \cap f = {}
  BY DEF Groups, About
<1>4. \A e \in Groups, f \in Singles : e \cap f = {}
  BY DEF Singles
<1>5. \A e, f \in Singles : e # f => e \cap f = {}
  BY DEF Singles
<1>6. \A i \in Stored : \E e \in Entries : i \in e
  BY DEF Entries, Singles
<1>7. \A e, f \in Entries : e # f => e \cap f = {}
  BY <1>3, <1>4, <1>5 DEF Entries
<1> QED BY <1>1, <1>2, <1>6, <1>7

\* An entry goes by an id of its own.
LEMMA EntryIds ==
  ASSUME TypeOK
  PROVE  /\ \A e \in Entries : Newest(e) \in e /\ Newest(e) \in Stored /\ Newest(e) \in Nat
         /\ \A e, f \in Entries : Newest(e) = Newest(f) => e = f
         /\ IsFiniteSet(Entries)
<1>1. \A e \in Entries : Newest(e) \in e
  <2> TAKE e \in Entries
  <2>1. e \in SUBSET (1..Len(store)) /\ e # {} /\ Len(store) \in Nat
    BY EntriesPart, StoredFinite
  <2> QED BY <2>1, NewestIs
<1>2. \A e, f \in Entries : Newest(e) = Newest(f) => e = f
  BY <1>1, EntriesPart
<1>3. IsFiniteSet(Entries)
  <2>1. IsFiniteSet(SUBSET Stored)
    BY StoredFinite, FS_SUBSET
  <2>2. Entries \in SUBSET (SUBSET Stored)
    BY EntriesPart
  <2> QED BY <2>1, <2>2, FS_Subset
<1>4. \A e \in Entries : Newest(e) \in Stored
  BY <1>1, EntriesPart
<1>5. \A i \in Stored : i \in Nat
  BY StoredFinite
<1> QED BY <1>1, <1>2, <1>3, <1>4, <1>5

\* Every place of the list has one entry, and every entry has a place.
LEMMA Places ==
  ASSUME TypeOK
  PROVE  /\ Cardinality(Entries) \in Nat
         /\ \A k \in 1..Cardinality(Entries) : At(k) \in Entries /\ Cardinality(After(At(k))) = k - 1
         /\ \A e \in Entries : \E k \in 1..Cardinality(Entries) : At(k) = e
         /\ \A k, l \in 1..Cardinality(Entries) : k < l => Newest(At(k)) > Newest(At(l))
<1> DEFINE n == Cardinality(Entries)
           Rank == [e \in Entries |-> Cardinality(After(e))]
<1>1. n \in Nat
  BY EntryIds, FS_CardinalityType
<1>2. \A e \in Entries : IsFiniteSet(After(e)) /\ Cardinality(After(e)) \in 0..n-1
  <2> TAKE e \in Entries
  <2>1. After(e) \in SUBSET Entries /\ e \notin After(e)
    BY EntryIds DEF After
  <2>2. IsFiniteSet(After(e)) /\ Cardinality(After(e)) =< n /\ Cardinality(After(e)) # n
    BY <2>1, EntryIds, FS_Subset
  <2>3. Cardinality(After(e)) \in Nat
    BY <2>2, FS_CardinalityType
  <2> QED BY <1>1, <2>2, <2>3
<1>3. \A e, f \in Entries : Newest(e) > Newest(f) => Cardinality(After(e)) < Cardinality(After(f))
  <2> TAKE e, f \in Entries
  <2> HAVE Newest(e) > Newest(f)
  <2>1. Newest(e) \in Nat /\ Newest(f) \in Nat /\ \A g \in Entries : Newest(g) \in Nat
    BY EntryIds
  <2>2. After(e) \in SUBSET After(f) /\ e \in After(f) /\ e \notin After(e)
    BY <2>1 DEF After
  <2>3. Cardinality(After(e)) =< Cardinality(After(f)) /\ Cardinality(After(e)) # Cardinality(After(f))
    <3>1. IsFiniteSet(After(f))
      BY <1>2
    <3> QED BY <2>2, <3>1, FS_Subset
  <2>4. Cardinality(After(e)) \in Int /\ Cardinality(After(f)) \in Int
    BY <1>1, <1>2
  <2> QED BY <2>3, <2>4
<1>4. \A e, f \in Entries : Cardinality(After(e)) = Cardinality(After(f)) => e = f
  <2> TAKE e, f \in Entries
  <2> HAVE Cardinality(After(e)) = Cardinality(After(f))
  <2>1. Newest(e) \in Nat /\ Newest(f) \in Nat
    BY EntryIds
  <2>2. Newest(e) = Newest(f)
    BY <2>1, <1>2, <1>3
  <2> QED BY <2>2, EntryIds
<1>5. Rank \in Injection(Entries, 0..n-1)
  <2>1. Rank \in [Entries -> 0..n-1]
    BY <1>2
  <2>2. \A e, f \in Entries : Rank[e] = Rank[f] => e = f
    BY <1>4
  <2> HIDE DEF Rank, n
  <2> QED BY <2>1, <2>2 DEF Injection, IsInjective
<1>6. IsFiniteSet(0..n-1) /\ Cardinality(0..n-1) = n
  <2> HIDE DEF n
  <2>1. n - 1 \in Int /\ 0 \in Int /\ (0 > n - 1 <=> n = 0)
    BY <1>1
  <2>2. /\ IsFiniteSet(0..n-1)
        /\ Cardinality(0..n-1) = IF 0 > n - 1 THEN 0 ELSE (n - 1) - 0 + 1
    BY ONLY <2>1, FS_Interval
  <2> QED BY <1>1, <2>1, <2>2
<1>7. Rank \in Surjection(Entries, 0..n-1)
  <2> HIDE DEF Rank, n
  <2>1. Cardinality(Entries) = Cardinality(0..n-1)
    BY <1>6 DEF n
  <2> QED BY <1>5, <1>6, <2>1, FS_Injection
<1>8. \A k \in 1..n : \E e \in Entries : Cardinality(After(e)) = k - 1
  <2> TAKE k \in 1..n
  <2>1. k - 1 \in 0..n-1
    BY <1>1
  <2>2. PICK e \in Entries : Rank[e] = k - 1
    BY <1>7, <2>1 DEF Surjection
  <2> QED BY <2>2
<1>9. \A k \in 1..n : At(k) \in Entries /\ Cardinality(After(At(k))) = k - 1
  BY <1>8 DEF At
<1>10. \A e \in Entries : \E k \in 1..n : At(k) = e
  <2> TAKE e \in Entries
  <2> DEFINE k == Cardinality(After(e)) + 1
  <2>1. k \in 1..n /\ k - 1 = Cardinality(After(e))
    BY <1>1, <1>2
  <2>2. At(k) \in Entries /\ Cardinality(After(At(k))) = Cardinality(After(e))
    BY <2>1, <1>9
  <2>3. At(k) = e
    BY <2>2, <1>4
  <2> QED BY <2>1, <2>3
<1>11. \A k, l \in 1..n : k < l => Newest(At(k)) > Newest(At(l))
  <2> TAKE k, l \in 1..n
  <2> HAVE k < l
  <2> DEFINE e == At(k)
             f == At(l)
  <2>1. e \in Entries /\ f \in Entries /\ Cardinality(After(e)) = k - 1 /\ Cardinality(After(f)) = l - 1
    BY <1>9
  <2>2. k \in Nat /\ l \in Nat /\ k - 1 < l - 1
    BY <1>1
  <2>3. Newest(e) \in Nat /\ Newest(f) \in Nat
    BY <2>1, EntryIds
  <2> HIDE DEF e, f
  <2>4. Newest(e) # Newest(f)
    BY <2>1, <2>2, EntryIds
  <2>5. ~ (Newest(f) > Newest(e))
    <3> SUFFICES ASSUME Newest(f) > Newest(e) PROVE FALSE
      OBVIOUS
    <3>1. Cardinality(After(f)) < Cardinality(After(e))
      BY <1>3, <2>1
    <3> QED BY <3>1, <2>1, <2>2
  <2>6. Newest(e) > Newest(f)
    BY <2>3, <2>4, <2>5
  <2> QED BY <2>6 DEF e, f
<1> QED BY <1>1, <1>9, <1>10, <1>11

\* What stands at a place of the list is the entry of that rank.
LEMMA ListingPlaces ==
  ASSUME TypeOK
  PROVE  /\ DOMAIN Listing = 1..Cardinality(Entries)
         /\ \A k \in DOMAIN Listing : Listing[k] = AsEntry(At(k)) /\ At(k) \in Entries
         /\ \A k \in DOMAIN Listing : Listing[k].id = Newest(At(k)) /\ Listing[k].of = At(k)
<1>1. DOMAIN Listing = 1..Cardinality(Entries)
  BY ListingIs
<1>2. \A k \in DOMAIN Listing : Listing[k] = AsEntry(At(k)) /\ At(k) \in Entries
  BY ListingIs, Places
<1> QED BY <1>1, <1>2 DEF AsEntry

\* The list is a sequence of entries.
LEMMA ListingType ==
  ASSUME TypeOK
  PROVE  Listing \in Seq(Entry)
<1> DEFINE n == Cardinality(Entries)
<1>1. n \in Nat
  BY Places
<1>2. \A e \in Entries : AsEntry(e) \in Entry
  <2> TAKE e \in Entries
  <2>1. Newest(e) \in Ids /\ e \in SUBSET Ids
    BY EntryIds, EntriesPart
  <2>2. (\A i \in e : store[i].read) \in BOOLEAN
    OBVIOUS
  <2> QED BY <2>1, <2>2 DEF AsEntry, Entry
<1>3. \A k \in 1..n : AsEntry(At(k)) \in Entry
  BY <1>2, Places
<1>4. Listing \in [1..n -> Entry]
  BY <1>3, ListingIs
<1> HIDE DEF n
<1> QED BY <1>1, <1>4

\* Changes are noted in the order of their times.
Sorted == \A i, j \in Stored : i =< j => store[i].at =< store[j].at

\* A group is within the window: its newest and its oldest are.
LEMMA GroupsAreClose ==
  ASSUME TypeOK, Sorted, NEW e \in Entries, NEW i \in e, NEW j \in e, i # j
  PROVE  /\ store[i].about = store[j].about /\ store[i].about # Other
         /\ store[i].at - store[j].at =< Window
<1>1. e \in Groups
  BY DEF Entries, Singles
<1>2. PICK r \in Runs : e = About(r)
  BY <1>1 DEF Groups
<1>3. store[i].about = r /\ store[j].about = r /\ r # Other
  BY <1>2, ConstantsAssumption DEF About
<1> DEFINE new == Newest(e)
           old == Oldest(e)
<1>4. e \in SUBSET (1..Len(store)) /\ e # {} /\ Len(store) \in Nat
  BY EntriesPart, StoredFinite
<1>5. new \in e /\ old \in e /\ i =< new /\ old =< j
  BY <1>4, NewestIs, OldestIs
<1>6. store[new].at - store[old].at =< Window
  BY <1>1 DEF Groups, Close
<1> HIDE DEF new, old
<1>7. {new, old, i, j} \subseteq Stored
  BY <1>4, <1>5, EntriesPart
<1>8. store[i].at =< store[new].at /\ store[old].at =< store[j].at
  BY <1>5, <1>7 DEF Sorted
<1>9. \A k \in Stored : store[k].at \in Nat
  BY Rows
<1>10. store[i].at \in Nat /\ store[new].at \in Nat /\ store[old].at \in Nat /\ store[j].at \in Nat
  BY <1>7, <1>9
<1>11. Window \in Nat
  BY ConstantsAssumption
<1>12. \A w, x, y, z, m \in Nat : w =< x /\ y =< z /\ x - y =< m => w - z =< m
  OBVIOUS
<1>13. store[i].at - store[j].at =< Window
  BY <1>6, <1>8, <1>10, <1>11, <1>12
<1> QED BY <1>3, <1>13

\* So the list is complete and in order, whatever the rows are.
LEMMA SortedListing ==
  ASSUME TypeOK, Sorted
  PROVE  ListingIsComplete
<1>1. \A i \in Stored : \E k \in DOMAIN Listing : i \in Listing[k].of
  <2> TAKE i \in Stored
  <2>1. PICK e \in Entries : i \in e
    BY EntriesPart
  <2>2. PICK k \in 1..Cardinality(Entries) : At(k) = e
    BY Places
  <2> QED BY <2>1, <2>2, ListingPlaces
<1>2. \A k \in DOMAIN Listing : \A i, j \in Listing[k].of :
        i # j => /\ store[i].about = store[j].about /\ store[i].about # Other
                 /\ store[i].at - store[j].at =< Window
  <2> TAKE k \in DOMAIN Listing
  <2>1. Listing[k].of \in Entries
    BY ListingPlaces
  <2> QED BY <2>1, GroupsAreClose
<1>3. \A k, l \in DOMAIN Listing :
        k < l => Listing[k].of \cap Listing[l].of = {} /\ Listing[k].id > Listing[l].id
  <2> TAKE k, l \in DOMAIN Listing
  <2> HAVE k < l
  <2>1. At(k) \in Entries /\ At(l) \in Entries /\ Newest(At(k)) > Newest(At(l))
    BY Places, ListingPlaces
  <2>2. Newest(At(k)) \in Nat /\ Newest(At(l)) \in Nat
    BY <2>1, EntryIds
  <2>3. At(k) # At(l)
    BY <2>1, <2>2
  <2>4. At(k) \cap At(l) = {}
    BY <2>1, <2>3, EntriesPart
  <2> QED BY <2>1, <2>4, ListingPlaces
<1> QED BY <1>1, <1>2, <1>3 DEF ListingIsComplete
-----------------------------------------------------------------------------
(* Types, and the order of the rows.                                       *)

\* There are no more unread rows than rows.
LEMMA UnreadCount ==
  ASSUME TypeOK
  PROVE  IsFiniteSet(Unread) /\ Cardinality(Unread) \in 0..MaxNotices
<1>1. Stored \subseteq 0..MaxNotices /\ 0 \notin Stored
  BY StoredFinite, ConstantsAssumption DEF TypeOK
<1>2. IsFiniteSet(Stored) /\ Cardinality(Stored) =< MaxNotices
  <2>1. MaxNotices \in Int /\ 1 \in Int /\ MaxNotices \in Nat
    BY ConstantsAssumption
  <2>2. /\ IsFiniteSet(1..MaxNotices)
        /\ Cardinality(1..MaxNotices) = IF 1 > MaxNotices THEN 0 ELSE MaxNotices - 1 + 1
    BY ONLY <2>1, FS_Interval
  <2>3. Cardinality(1..MaxNotices) = MaxNotices
    BY <2>1, <2>2
  <2>4. Stored \in SUBSET (1..MaxNotices)
    BY <1>1, <2>1
  <2> QED BY <2>2, <2>3, <2>4, FS_Subset
<1>3. Unread \in SUBSET Stored
  BY DEF Unread
<1>4. IsFiniteSet(Unread) /\ Cardinality(Unread) =< Cardinality(Stored)
  BY <1>2, <1>3, FS_Subset
<1>5. Cardinality(Unread) \in Nat /\ Cardinality(Stored) \in Nat /\ MaxNotices \in Nat
  BY <1>2, <1>4, FS_CardinalityType, ConstantsAssumption
<1> QED BY <1>2, <1>4, <1>5

\* Which answers there are, and what they carry.
LEMMA AnswerShapes ==
  /\ \A v \in 0..MaxNotices : [op |-> "count", value |-> v] \in Answer
  /\ \A v \in Seq(Entry) : [op |-> "list", value |-> v] \in Answer
  /\ \A v \in Ids : [op |-> "read", value |-> v] \in Answer
  /\ [op |-> "all read"] \in Answer
  /\ \A a \in Answer : a.op = "count" => a.value \in 0..MaxNotices
  /\ \A a \in Answer : a.op = "list" => a.value \in Seq(Entry)
  /\ \A a \in Answer : a.op = "read" => a.value \in Ids
<1> DEFINE L == Seq(Entry)
<1> HIDE DEF L
<1> DEFINE C == [op : {"count"}, value : 0..MaxNotices]
           S == [op : {"list"}, value : L]
           R == [op : {"read"}, value : Ids]
<1>0. /\ \A a \in C : a.op = "count" /\ a.value \in 0..MaxNotices
      /\ \A a \in S : a.op = "list" /\ a.value \in L
      /\ \A a \in R : a.op = "read" /\ a.value \in Ids
      /\ [op |-> "all read"].op = "all read"
  OBVIOUS
<1>1. Answer = C \cup S \cup R \cup {[op |-> "all read"]}
  BY DEF Answer, L
<1>2. /\ \A v \in 0..MaxNotices : [op |-> "count", value |-> v] \in Answer
      /\ \A v \in L : [op |-> "list", value |-> v] \in Answer
      /\ \A v \in Ids : [op |-> "read", value |-> v] \in Answer
      /\ [op |-> "all read"] \in Answer
  BY <1>1
<1>3. \A a \in Answer : a.op = "count" => a.value \in 0..MaxNotices
  <2> HIDE DEF C, S, R
  <2> QED BY <1>0, <1>1
<1>4. \A a \in Answer : a.op = "list" => a.value \in L
  <2> HIDE DEF C, S, R
  <2> QED BY <1>0, <1>1
<1>5. \A a \in Answer : a.op = "read" => a.value \in Ids
  <2> HIDE DEF C, S, R
  <2> QED BY <1>0, <1>1
<1> QED BY <1>2, <1>3, <1>4, <1>5 DEF L

\* create_notification appends an unread row.
LEMMA StoreAppends ==
  ASSUME TypeOK, NEW about \in Runs \cup {Other}, NEW at \in 0..MaxTime, Store(about, at)
  PROVE  /\ store' \in Seq(Row) /\ Len(store') = Len(store) + 1 /\ Len(store') =< MaxNotices
         /\ Len(store') \notin Stored /\ Stored' = Stored \cup {Len(store')}
         /\ \A i \in Stored : store'[i] = store[i]
         /\ store'[Len(store')] = [about |-> about, at |-> at, read |-> FALSE]
         /\ Unread' = Unread \cup {Len(store')} /\ Len(store') \notin Unread
<1> DEFINE new == [about |-> about, at |-> at, read |-> FALSE]
           n == Len(store)
<1>1. store \in Seq(Row) /\ new \in Row /\ n \in Nat /\ Stored = 1..n /\ n < MaxNotices
  BY StoredFinite DEF TypeOK, Row, Store
<1>2. store' = Append(store, new)
  BY DEF Store
<1> HIDE DEF new
<1>3. store' \in Seq(Row) /\ Len(store') = n + 1 /\ store'[n + 1] = new
      /\ \A i \in 1..n : store'[i] = store[i]
  BY <1>1, <1>2
<1>4. Stored' = 1..(n + 1)
  BY <1>3 DEF Stored
<1>5. Stored' = Stored \cup {n + 1} /\ n + 1 \notin Stored /\ n + 1 =< MaxNotices
  BY <1>1, <1>4, ConstantsAssumption
<1>6. ~ new.read
  BY DEF new
<1>7. Unread' = Unread \cup {n + 1}
  BY <1>1, <1>3, <1>5, <1>6 DEF Unread
<1> QED BY <1>1, <1>3, <1>5, <1>7 DEF Unread, new

\* A handler marks rows as read, and leaves an answer.
LEMMA HandleMarks ==
  ASSUME TypeOK, NEW answer \in Answer, NEW read, Handle(answer, read)
  PROVE  /\ store' \in Seq(Row) /\ Len(store') = Len(store) /\ Stored' = Stored
         /\ \A i \in Stored : store'[i].at = store[i].at
         /\ Unread' = Unread \ read
         /\ answers' = answers \cup {answer}
         /\ UNCHANGED <<online, mail, list, unread>>
<1>1. store \in [Stored -> Row] /\ Stored = 1..Len(store) /\ Len(store) \in Nat
  BY Rows, StoredFinite
<1>2. store' = [i \in Stored |-> [store[i] EXCEPT !.read = @ \/ i \in read]]
  BY DEF Handle
<1>3. \A w \in Row : w.read \in BOOLEAN
  BY DEF Row
<1>4. \A w \in Row, b \in BOOLEAN : [w EXCEPT !.read = b] \in Row /\ [w EXCEPT !.read = b].read = b
                                     /\ [w EXCEPT !.read = b].at = w.at
  BY DEF Row
<1>5. \A i \in Stored : /\ store'[i] \in Row
                        /\ store'[i].at = store[i].at
                        /\ store'[i].read <=> (store[i].read \/ i \in read)
  <2> TAKE i \in Stored
  <2> DEFINE b == store[i].read \/ i \in read
  <2>1. store[i] \in Row /\ b \in BOOLEAN
    BY <1>1
  <2>2. store'[i] = [store[i] EXCEPT !.read = b]
    BY <1>2
  <2> HIDE DEF b
  <2>3. store'[i] \in Row /\ store'[i].at = store[i].at /\ store'[i].read = b
    BY <2>1, <2>2, <1>4
  <2> QED BY <2>3 DEF b
<1>6. store' \in [1..Len(store) -> Row]
  BY <1>1, <1>2, <1>5
<1>7. store' \in Seq(Row) /\ Len(store') = Len(store)
  BY <1>1, <1>6
<1>8. Stored' = Stored
  BY <1>2 DEF Stored
<1>9. Unread' = Unread \ read
  BY <1>5, <1>8 DEF Unread
<1> QED BY <1>5, <1>7, <1>8, <1>9 DEF Handle, pageVars

\* The types rest on nothing; the completeness of the list on the order.
TInv == TypeOK /\ Sorted

\* There are no rows at first.
LEMMA TInit == Init => TInv
<1> SUFFICES ASSUME Init PROVE TInv
  OBVIOUS
<1>1. Len(<<>>) = 0 /\ DOMAIN <<>> = {} /\ MaxNotices \in Nat
  BY ConstantsAssumption
<1>2. \A S : <<>> \in Seq(S)
  BY SMT
<1>3. store \in Seq(Row) /\ list \in Seq(Entry)
  BY <1>2 DEF Init
<1>4. Stored = {}
  BY <1>1 DEF Init, Stored
<1>5. store \in Seq([about : Runs \cup {Other}, at : 0..MaxTime, read : BOOLEAN])
  BY <1>2 DEF Init
<1>6. Len(store) =< MaxNotices /\ mail \subseteq Stored /\ (\A a \in answers : a \in Answer)
  BY <1>1 DEF Init
<1>7. online \in BOOLEAN /\ unread \in Nat /\ clean \in BOOLEAN
  BY DEF Init
<1>8. TypeOK
  BY <1>3, <1>5, <1>6, <1>7 DEF TypeOK
<1> QED BY <1>4, <1>8 DEF TInv, Sorted

\* What a step has to show that leaves the rows in order.
LEMMA StepTInv ==
  ASSUME TInv, store' \in Seq(Row), Len(store') =< MaxNotices, online' \in BOOLEAN,
         mail' \subseteq Stored', \A a \in answers' : a \in Answer,
         list' \in Seq(Entry), unread' \in Nat, clean' \in BOOLEAN, Sorted'
  PROVE  TInv'
BY DEF TInv, TypeOK, Row

\* A new row is no older than the others, and nothing else of the rows changes.
LEMMA StoreTInv ==
  ASSUME TInv, NEW about \in Runs \cup {Other}, NEW at \in 0..MaxTime, Store(about, at),
         mail' \in SUBSET (mail \cup {Len(store')}), clean' \in BOOLEAN
  PROVE  TInv'
<1>1. TypeOK /\ Sorted
  BY DEF TInv
<1> DEFINE n == Len(store')
<1>2. /\ store' \in Seq(Row) /\ n = Len(store) + 1 /\ n =< MaxNotices
      /\ Stored' = Stored \cup {n} /\ \A i \in Stored : store'[i] = store[i]
      /\ store'[n] = [about |-> about, at |-> at, read |-> FALSE]
  BY <1>1, StoreAppends
<1>3. Stored = 1..Len(store) /\ Len(store) \in Nat
  BY <1>1, StoredFinite
<1>4. \A i \in Stored : store[i].at =< at
  BY DEF Store
<1>5. store'[n].at = at /\ at \in Nat
  BY <1>2, ConstantsAssumption
<1> HIDE DEF n
<1>6. Sorted'
  <2>1. \A i, j \in Stored' : i =< j => store'[i].at =< store'[j].at
    <3> TAKE i, j \in Stored'
    <3> HAVE i =< j
    <3>1. CASE i \in Stored /\ j \in Stored
      BY <3>1, <1>1, <1>2 DEF Sorted
    <3>2. CASE i \in Stored /\ j = n
      BY <3>2, <1>2, <1>4, <1>5
    <3>3. CASE i = n
      <4>1. j = n
        BY <3>3, <1>2, <1>3
      <4> QED BY <4>1, <3>3, <1>5
    <3> QED BY <3>1, <3>2, <3>3, <1>2
  <2> QED BY <2>1 DEF Sorted
<1>7. mail' \subseteq Stored'
  BY <1>1, <1>2 DEF TypeOK, n
<1>8. online' = online /\ answers' = answers /\ list' = list /\ unread' = unread
  BY DEF Store, pageVars
<1>9. online' \in BOOLEAN /\ (\A a \in answers' : a \in Answer) /\ list' \in Seq(Entry) /\ unread' \in Nat
  BY <1>1, <1>8 DEF TypeOK
<1>10. store' \in Seq(Row) /\ Len(store') =< MaxNotices
  BY <1>2 DEF n
<1> QED BY <1>6, <1>7, <1>9, <1>10, StepTInv

\* Marking rows as read leaves their times alone.
LEMMA HandleTInv ==
  ASSUME TInv, NEW answer \in Answer, NEW read, Handle(answer, read), clean' \in BOOLEAN
  PROVE  TInv'
<1>1. TypeOK /\ Sorted
  BY DEF TInv
<1>2. /\ store' \in Seq(Row) /\ Len(store') = Len(store) /\ Stored' = Stored
      /\ \A i \in Stored : store'[i].at = store[i].at
      /\ answers' = answers \cup {answer}
      /\ UNCHANGED <<online, mail, list, unread>>
  BY <1>1, HandleMarks
<1>3. Sorted'
  BY <1>1, <1>2 DEF Sorted
<1>4. mail' \subseteq Stored' /\ Len(store') =< MaxNotices
  BY <1>1, <1>2 DEF TypeOK
<1>5. online' \in BOOLEAN /\ list' \in Seq(Entry) /\ unread' \in Nat
  BY <1>1, <1>2 DEF TypeOK
<1>6. \A a \in answers' : a \in Answer
  BY <1>1, <1>2 DEF TypeOK
<1> QED BY <1>2, <1>3, <1>4, <1>5, <1>6, StepTInv

\* The rows stay as they are while the page takes what it is sent.
LEMMA PageTInv ==
  ASSUME TInv, UNCHANGED store, online' \in BOOLEAN, mail' \in SUBSET mail,
         \A a \in answers' : a \in Answer, list' \in Seq(Entry), unread' \in Nat, clean' \in BOOLEAN
  PROVE  TInv'
<1>1. TypeOK /\ Sorted
  BY DEF TInv
<1>2. Stored' = Stored
  BY DEF Stored
<1>3. Sorted'
  BY <1>1, <1>2 DEF Sorted
<1>4. store' \in Seq(Row) /\ Len(store') =< MaxNotices /\ mail' \subseteq Stored'
  BY <1>1, <1>2 DEF TypeOK, Row
<1> QED BY <1>3, <1>4, StepTInv

\* Showing entries of a list as read changes nothing else of them.

\* Showing entries of a list as read changes nothing else of them.
LEMMA MarkingKeepsType ==
  ASSUME NEW l \in Seq(Entry), NEW m, DOMAIN m = DOMAIN l,
         \A k \in DOMAIN l : m[k] = l[k] \/ m[k] = [l[k] EXCEPT !.read = TRUE],
         m = [k \in DOMAIN m |-> m[k]]
  PROVE  m \in Seq(Entry)
<1>1. l \in [1..Len(l) -> Entry] /\ DOMAIN l = 1..Len(l) /\ Len(l) \in Nat
  OBVIOUS
<1>2. \A e \in Entry : [e EXCEPT !.read = TRUE] \in Entry
  BY DEF Entry
<1>3. \A k \in 1..Len(l) : m[k] \in Entry
  BY <1>1, <1>2
<1>4. m \in [1..Len(l) -> Entry]
  BY <1>1, <1>3
<1> QED BY <1>1, <1>4

\* Every step keeps the types and the order.
LEMMA NextTInv == TInv /\ [Next]_vars => TInv'
<1> SUFFICES ASSUME TInv, [Next]_vars PROVE TInv'
  OBVIOUS
<1>0. TypeOK /\ store' \in {store'} /\ clean \in BOOLEAN
  BY DEF TInv, TypeOK
<1>1. ASSUME NEW at \in 0..MaxTime, NotifyReassignment(at) PROVE TInv'
  <2>1. Store(Other, at) /\ mail' \in SUBSET (mail \cup {Len(store')}) /\ clean' \in BOOLEAN
    BY <1>1 DEF NotifyReassignment
  <2> QED BY <2>1, StoreTInv
<1>2. ASSUME NEW at \in 0..MaxTime, NEW r \in Runs, NotifyRunStateChange(r, at) PROVE TInv'
  <2>1. Store(r, at) /\ mail' \in SUBSET (mail \cup {Len(store')})
    BY <1>2 DEF NotifyRunStateChange
  <2>2. clean' \in BOOLEAN
    BY <1>2, <1>0 DEF NotifyRunStateChange
  <2> QED BY <2>1, <2>2, StoreTInv
<1>3. CASE Load
  <2>1. [op |-> "count", value |-> Cardinality(Unread)] \in Answer
    BY <1>0, UnreadCount, AnswerShapes
  <2>2. \A a \in answers' : a \in Answer
    BY <2>1, <1>3 DEF Load
  <2>3. list' \in Seq(Entry)
    <3>1. \A S : <<>> \in Seq(S)
      BY SMT
    <3> QED BY <3>1, <1>3 DEF Load
  <2>4. UNCHANGED store /\ online' \in BOOLEAN /\ mail' \in SUBSET mail /\ unread' \in Nat /\ clean' \in BOOLEAN
    BY <1>3 DEF Load
  <2> QED BY <2>2, <2>3, <2>4, PageTInv
<1>4. CASE Fetch
  <2>1. [op |-> "list", value |-> Listing] \in Answer
    BY <1>0, ListingType, AnswerShapes
  <2>2. clean' \in BOOLEAN /\ Handle([op |-> "list", value |-> Listing], {})
    BY <1>4, <1>0 DEF Fetch, Alone
  <2> QED BY <2>1, <2>2, HandleTInv
<1>5. ASSUME NEW k \in DOMAIN list, Click(k) PROVE TInv'
  <2>1. list[k].id \in Ids
    <3>1. list \in Seq(Entry)
      BY <1>0 DEF TypeOK
    <3>2. list[k] \in Entry
      BY <3>1
    <3> QED BY <3>2 DEF Entry
  <2>2. [op |-> "read", value |-> list[k].id] \in Answer
    BY <2>1, AnswerShapes
  <2>3. clean' \in BOOLEAN /\ Handle([op |-> "read", value |-> list[k].id], {list[k].id})
    BY <1>5, <1>0 DEF Click, Alone
  <2> QED BY <2>2, <2>3, HandleTInv
<1>6. CASE MarkAllAsRead
  <2>1. clean' \in BOOLEAN /\ Handle([op |-> "all read"], Unread)
    BY <1>6, <1>0 DEF MarkAllAsRead, Alone
  <2> QED BY <2>1, AnswerShapes, HandleTInv
<1>7. CASE Receive
  <2>1. PICK i \in mail : /\ mail' = mail \ {i}
                          /\ list' = <<[id |-> i, of |-> {i}, read |-> FALSE]>> \o list
                          /\ unread' = unread + 1
                          /\ clean' = (clean /\ answers = {})
                          /\ UNCHANGED <<store, online, answers>>
    BY <1>7 DEF Receive
  <2>2. i \in Ids
    BY <1>0, EntriesPart DEF TypeOK
  <2> DEFINE e == [id |-> i, of |-> {i}, read |-> FALSE]
  <2>3. e \in Entry
    BY <2>2 DEF Entry
  <2> HIDE DEF e
  <2>4. \A l \in Seq(Entry) : <<e>> \o l \in Seq(Entry)
    BY <2>3
  <2>5. list' \in Seq(Entry) /\ unread' \in Nat
    <3>1. list \in Seq(Entry) /\ unread \in Nat
      BY <1>0 DEF TypeOK
    <3>2. list' = <<e>> \o list /\ unread' = unread + 1
      BY <2>1 DEF e
    <3> QED BY <3>1, <3>2, <2>4
  <2>6. UNCHANGED store /\ online' \in BOOLEAN /\ mail' \in SUBSET mail /\ \A a \in answers' : a \in Answer
    BY <1>0, <2>1 DEF TypeOK
  <2>7. clean' \in BOOLEAN
    BY <2>1, <1>0
  <2> QED BY <2>5, <2>6, <2>7, PageTInv
<1>8. CASE Disconnect \/ Connect
  <2>1. /\ UNCHANGED store /\ online' \in BOOLEAN /\ mail' \in SUBSET mail
        /\ answers' = answers /\ list' = list /\ unread' = unread
    BY <1>8 DEF Disconnect, Connect, pageVars
  <2>2. clean' \in BOOLEAN
    BY <1>8, <1>0 DEF Disconnect, Connect
  <2>3. list' \in Seq(Entry) /\ unread' \in Nat /\ \A a \in answers' : a \in Answer
    BY <1>0, <2>1 DEF TypeOK
  <2> QED BY <2>1, <2>2, <2>3, PageTInv
<1>9. ASSUME NEW a \in answers, Answered(a), list' \in Seq(Entry), unread' \in Nat
      PROVE  TInv'
  <2>1. /\ UNCHANGED store /\ online' \in BOOLEAN /\ mail' \in SUBSET mail
        /\ \A b \in answers' : b \in Answer
    BY <1>0, <1>9 DEF Answered, TypeOK
  <2>2. clean' \in BOOLEAN
    BY <1>0, <1>9 DEF Answered
  <2> QED BY <1>9, <2>1, <2>2, PageTInv
<1>10. list \in Seq(Entry) /\ unread \in Nat
  BY <1>0 DEF TypeOK
<1>11. ASSUME NEW a \in answers PROVE a \in Answer
  BY <1>0 DEF TypeOK
<1>12. ASSUME NEW a \in answers, Counted(a) PROVE TInv'
  <2>1. Answered(a) /\ list' = list /\ unread' \in 0..MaxNotices
    BY <1>11, <1>12, AnswerShapes DEF Counted
  <2>2. unread' \in Nat
    BY <2>1, ConstantsAssumption
  <2> QED BY <1>9, <1>10, <2>1, <2>2
<1>13. ASSUME NEW a \in answers, Listed(a) PROVE TInv'
  <2>1. Answered(a) /\ list' \in Seq(Entry) /\ unread' = unread
    BY <1>11, <1>13, AnswerShapes DEF Listed
  <2> QED BY <1>9, <1>10, <2>1
<1>14. ASSUME NEW a \in answers, MarkedRead(a) PROVE TInv'
  <2>1. Answered(a) /\ unread' = IF unread > 0 THEN unread - 1 ELSE 0
    BY <1>14 DEF MarkedRead
  <2>2. unread' \in Nat
    BY <2>1, <1>10
  <2>3. list' = [k \in DOMAIN list |->
                   IF list[k].id = a.value THEN [list[k] EXCEPT !.read = TRUE] ELSE list[k]]
    BY <1>14 DEF MarkedRead
  <2>4. list' \in Seq(Entry)
    BY <1>10, <2>3, MarkingKeepsType
  <2> QED BY <1>9, <2>1, <2>2, <2>4
<1>15. ASSUME NEW a \in answers, AllMarkedRead(a) PROVE TInv'
  <2>1. Answered(a) /\ unread' = 0 /\ list' = [k \in DOMAIN list |-> [list[k] EXCEPT !.read = TRUE]]
    BY <1>15 DEF AllMarkedRead
  <2>2. list' \in Seq(Entry)
    BY <1>10, <2>1, MarkingKeepsType
  <2> QED BY <1>9, <2>1, <2>2
<1>16. CASE UNCHANGED vars
  <2>1. /\ UNCHANGED store /\ online' = online /\ mail' = mail /\ answers' = answers
        /\ list' = list /\ unread' = unread /\ clean' = clean
    BY <1>16 DEF vars, pageVars
  <2>2. online' \in BOOLEAN /\ mail' \in SUBSET mail /\ \A a \in answers' : a \in Answer
    BY <1>0, <2>1 DEF TypeOK
  <2> QED BY <1>0, <1>10, <2>1, <2>2, PageTInv
<1>17. CASE Server
  BY <1>1, <1>2, <1>17 DEF Server
<1>18. CASE Page
  BY <1>3, <1>4, <1>5, <1>6, <1>7, <1>8, <1>12, <1>13, <1>14, <1>15, <1>18 DEF Page
<1> QED BY <1>16, <1>17, <1>18 DEF Next

\* Whatever her page and the server do, its variables keep their types: the
\* badge never counts below zero (Math.max in NotificationContext.tsx).
THEOREM TypesHold == Spec => []TypeOK
<1>1. Spec => []TInv
  BY TInit, NextTInv, PTL DEF Spec
<1>2. TInv => TypeOK
  BY DEF TInv
<1> QED BY <1>1, <1>2, PTL

\* _group_notifications loses no notification and shows none twice, groups
\* only changes of one run within the window, and sorts the newest first,
\* for any number of notifications and of runs.
THEOREM ListsAreComplete == Spec => []ListingIsComplete
<1>1. Spec => []TInv
  BY TInit, NextTInv, PTL DEF Spec
<1>2. TInv => ListingIsComplete
  BY SortedListing DEF TInv
<1> QED BY <1>1, <1>2, PTL
-----------------------------------------------------------------------------
(* The badge.                                                              *)

\* What a list shows as one unread notification is one.
ShowsBut(l, x) ==
  \A k \in DOMAIN l :
    ~l[k].read /\ Cardinality(l[k].of) = 1 /\ l[k].id # x => l[k].id \in Unread
Shows(l) == \A k \in DOMAIN l : ~l[k].read /\ Cardinality(l[k].of) = 1 => l[k].id \in Unread

\* Without a call under way the badge is short by the messages.
Settled ==
  /\ answers = {}
  /\ mail \subseteq Unread
  /\ unread + Cardinality(mail) = Cardinality(Unread)
  /\ Shows(list)

\* The page is about to be right, once it has taken the answer.
Agrees(a) ==
  \/ a.op = "count" /\ a.value = Cardinality(Unread) /\ Shows(list)
  \/ a.op = "list" /\ unread = Cardinality(Unread) /\ Shows(a.value)
  \/ a.op = "read" /\ unread = Cardinality(Unread) + 1 /\ ShowsBut(list, a.value)
  \/ a.op = "all read" /\ Unread = {}

AboutToAgree == mail = {} /\ \E a \in answers : answers = {a} /\ Agrees(a)

BInv == TInv /\ (clean => Settled \/ AboutToAgree)

\* A page that is yet to load shows zero.
LEMMA BInit == Init => BInv
<1> SUFFICES ASSUME Init PROVE BInv
  OBVIOUS
<1>1. Unread = {}
  BY DEF Init, Unread, Stored
<1>2. Cardinality({}) = 0 /\ DOMAIN <<>> = {}
  BY FS_EmptySet
<1>3. Settled
  BY <1>1, <1>2 DEF Init, Settled, Shows
<1> QED BY <1>3, TInit DEF BInv

\* The list as the server makes it shows one row as unread only if it is.
LEMMA ShowsListing ==
  ASSUME TypeOK
  PROVE  Shows(Listing)
<1> SUFFICES ASSUME NEW k \in DOMAIN Listing, ~Listing[k].read, Cardinality(Listing[k].of) = 1
             PROVE  Listing[k].id \in Unread
  BY DEF Shows
<1>1. At(k) \in Entries /\ Listing[k] = AsEntry(At(k)) /\ Listing[k].id = Newest(At(k)) /\ Listing[k].of = At(k)
  BY ListingPlaces
<1> DEFINE e == At(k)
<1>2. e \subseteq Stored /\ Newest(e) \in e /\ ~ (\A i \in e : store[i].read) /\ Cardinality(e) = 1
  BY <1>1, EntriesPart, EntryIds DEF AsEntry
<1>3. IsFiniteSet(e)
  BY <1>2, StoredFinite, FS_Subset
<1> HIDE DEF e
<1>4. PICK i : e = {i}
  BY <1>2, <1>3, FS_Singleton
<1>5. Newest(e) = i /\ ~store[i].read /\ i \in Stored
  BY <1>2, <1>4
<1>6. Newest(e) \in Unread
  BY <1>5 DEF Unread
<1> QED BY <1>1, <1>6 DEF e

\* The unread among the rows, and the messages about them.
LEMMA Sizes ==
  ASSUME TypeOK
  PROVE  /\ IsFiniteSet(Unread) /\ Cardinality(Unread) \in Nat /\ unread \in Nat
         /\ IsFiniteSet(mail) /\ Cardinality(mail) \in Nat
         /\ Cardinality({}) = 0
<1>1. IsFiniteSet(Unread) /\ IsFiniteSet(mail)
  <2>1. mail \in SUBSET Stored
    BY DEF TypeOK
  <2> QED BY <2>1, UnreadCount, StoredFinite, FS_Subset
<1>2. unread \in Nat
  BY DEF TypeOK
<1> QED BY <1>1, <1>2, FS_CardinalityType, FS_EmptySet

\* A message to a page on line is one more under way for one more unread.
LEMMA NotifySettled ==
  ASSUME TypeOK, Settled, NEW r \in Runs, NEW at \in 0..MaxTime, NotifyRunStateChange(r, at), online
  PROVE  Settled'
<1> DEFINE n == Len(store')
<1>1. Store(r, at) /\ mail' = mail \cup {n}
  BY DEF NotifyRunStateChange
<1>2. Unread' = Unread \cup {n} /\ n \notin Unread
  BY <1>1, StoreAppends
<1>3. answers' = answers /\ list' = list /\ unread' = unread
  BY <1>1 DEF Store, pageVars
<1> HIDE DEF n
<1>4. mail \subseteq Unread /\ n \notin mail
  BY <1>2 DEF Settled
<1>5. Cardinality(Unread') = Cardinality(Unread) + 1 /\ Cardinality(mail') = Cardinality(mail) + 1
  BY <1>1, <1>2, <1>4, Sizes, FS_AddElement
<1>6. unread' + Cardinality(mail') = Cardinality(Unread')
  <2>1. \A x, y, z \in Nat : x + y = z => x + (y + 1) = z + 1
    OBVIOUS
  <2> QED BY <1>3, <1>5, Sizes, <2>1 DEF Settled
<1>7. mail' \subseteq Unread'
  BY <1>1, <1>2, <1>4
<1>8. Shows(list)'
  BY <1>2, <1>3 DEF Settled, Shows
<1> QED BY <1>3, <1>6, <1>7, <1>8 DEF Settled

\* The badge agrees with the rows when nothing at all is under way.
LEMMA AloneAgrees ==
  ASSUME BInv, Alone
  PROVE  Settled /\ unread = Cardinality(Unread)
<1>1. Settled
  BY DEF BInv, Alone, AboutToAgree
<1>2. unread + 0 = Cardinality(Unread)
  BY <1>1, FS_EmptySet DEF Settled, Alone
<1> QED BY <1>1, <1>2, Sizes DEF BInv, TInv

\* A call that is made alone leaves its answer alone under way.
LEMMA HandleWaits ==
  ASSUME BInv, Alone, NEW answer \in Answer, NEW read, Handle(answer, read)
  PROVE  /\ mail' = {} /\ answers' = {answer} /\ Unread' = Unread \ read
         /\ list' = list /\ unread' = unread
BY HandleMarks DEF BInv, TInv, Alone

\* The list that is under way is true.
LEMMA FetchBInv ==
  ASSUME BInv, Fetch, clean'
  PROVE  AboutToAgree'
<1>0. TypeOK /\ Alone
  BY DEF BInv, TInv, Fetch
<1>1. PICK v : v = Listing
  OBVIOUS
<1> DEFINE a == [op |-> "list", value |-> v]
<1>2. a \in Answer /\ Handle(a, {})
  BY <1>0, <1>1, ListingType, AnswerShapes DEF Fetch
<1>3. a.op = "list" /\ a.value = v
  OBVIOUS
<1> HIDE DEF a
<1>4. mail' = {} /\ answers' = {a} /\ Unread' = Unread /\ unread' = unread
  BY <1>0, <1>2, HandleWaits
<1>5. Shows(v)
  BY <1>0, <1>1, ShowsListing
<1>6. Shows(v)'
  BY <1>4, <1>5 DEF Shows
<1>7. unread' = Cardinality(Unread')
  BY <1>0, <1>4, AloneAgrees
<1>8. Agrees(a)'
  BY <1>3, <1>6, <1>7 DEF Agrees
<1> QED BY <1>4, <1>8 DEF AboutToAgree

\* A click on an entry of one row: the badge is one too high until the answer.
LEMMA ClickBInv ==
  ASSUME BInv, NEW k \in DOMAIN list, Click(k), clean'
  PROVE  AboutToAgree'
<1>0. TypeOK /\ Alone /\ ~list[k].read /\ Cardinality(list[k].of) = 1
  BY DEF BInv, TInv, Click
<1>1. PICK x : x = list[k].id
  OBVIOUS
<1>2. x \in Unread
  BY <1>0, <1>1, AloneAgrees DEF Settled, Shows
<1> DEFINE a == [op |-> "read", value |-> x]
<1>3. a \in Answer /\ Handle(a, {x})
  <2>1. x \in Ids
    BY <1>0, <1>2, EntriesPart DEF Unread
  <2> QED BY <2>1, <1>1, AnswerShapes DEF Click
<1>4. a.op = "read" /\ a.value = x
  OBVIOUS
<1> HIDE DEF a
<1>5. mail' = {} /\ answers' = {a} /\ Unread' = Unread \ {x} /\ unread' = unread /\ list' = list
  BY <1>0, <1>3, HandleWaits
<1>6. Cardinality(Unread') = Cardinality(Unread) - 1
  BY <1>0, <1>2, <1>5, Sizes, FS_RemoveElement
<1>7. unread' = Cardinality(Unread') + 1
  <2>1. \A c \in Nat : (c - 1) + 1 = c
    OBVIOUS
  <2> QED BY <1>0, <1>5, <1>6, <2>1, AloneAgrees, Sizes
<1>8. ShowsBut(list, x)'
  BY <1>0, <1>5, AloneAgrees DEF Settled, Shows, ShowsBut
<1>9. Agrees(a)'
  BY <1>4, <1>7, <1>8 DEF Agrees
<1> QED BY <1>5, <1>9 DEF AboutToAgree

\* Nothing is unread any more; the answer will say so.
LEMMA MarkAllBInv ==
  ASSUME BInv, MarkAllAsRead, clean'
  PROVE  AboutToAgree'
<1>0. TypeOK /\ Alone
  BY DEF BInv, TInv, MarkAllAsRead
<1> DEFINE a == [op |-> "all read"]
<1>1. a \in Answer /\ Handle(a, Unread) /\ a.op = "all read"
  BY AnswerShapes DEF MarkAllAsRead
<1> HIDE DEF a
<1>2. mail' = {} /\ answers' = {a} /\ Unread' = {}
  BY <1>0, <1>1, HandleWaits
<1>3. Agrees(a)'
  BY <1>1, <1>2 DEF Agrees
<1> QED BY <1>2, <1>3 DEF AboutToAgree

\* The page has nothing but the count it waits for.
LEMMA LoadBInv ==
  ASSUME BInv, Load
  PROVE  AboutToAgree'
<1>1. PICK v : v = Cardinality(Unread)
  OBVIOUS
<1> DEFINE a == [op |-> "count", value |-> v]
<1>2. mail' = {} /\ answers' = {a} /\ list' = <<>> /\ Unread' = Unread
  BY <1>1 DEF Load, Unread, Stored
<1>3. a.op = "count" /\ a.value = v
  OBVIOUS
<1> HIDE DEF a
<1>4. Shows(list)'
  <2>1. DOMAIN <<>> = {}
    OBVIOUS
  <2> QED BY <1>2, <2>1 DEF Shows
<1>5. Agrees(a)'
  BY <1>1, <1>2, <1>3, <1>4 DEF Agrees
<1> QED BY <1>2, <1>5 DEF AboutToAgree

\* A message that arrives is counted: one more on the badge, one less under way.
LEMMA ReceiveSettled ==
  ASSUME BInv, Receive, clean'
  PROVE  Settled'
<1>1. PICK i \in mail : /\ mail' = mail \ {i}
                        /\ list' = <<[id |-> i, of |-> {i}, read |-> FALSE]>> \o list
                        /\ unread' = unread + 1
                        /\ clean' = (clean /\ answers = {})
                        /\ UNCHANGED <<store, online, answers>>
  BY DEF Receive
<1>2. Settled /\ TypeOK
  BY <1>1 DEF BInv, TInv, AboutToAgree
<1>3. Unread' = Unread /\ answers' = {} /\ i \in Unread
  BY <1>1, <1>2 DEF Unread, Stored, Settled
<1>4. Cardinality(mail') = Cardinality(mail) - 1
  BY <1>1, <1>2, Sizes, FS_RemoveElement
<1>5. unread' + Cardinality(mail') = Cardinality(Unread')
  <2>1. \A x, y, z \in Nat : x + y = z => (x + 1) + (y - 1) = z
    OBVIOUS
  <2>2. unread + Cardinality(mail) = Cardinality(Unread)
    BY <1>2 DEF Settled
  <2>3. (unread + 1) + (Cardinality(mail) - 1) = Cardinality(Unread)
    BY <1>2, <2>1, <2>2, Sizes
  <2> QED BY <1>1, <1>3, <1>4, <2>3
<1>6. mail' \subseteq Unread'
  BY <1>1, <1>2, <1>3 DEF Settled
<1> DEFINE e == [id |-> i, of |-> {i}, read |-> FALSE]
<1>7. e.id \in Unread
  BY <1>3
<1>8. list' = <<e>> \o list /\ list \in Seq(Entry)
  BY <1>1, <1>2 DEF TypeOK
<1>9. e \in Entry
  BY <1>2, <1>3, EntriesPart DEF Entry, Unread
<1> HIDE DEF e
<1>10. \A k \in DOMAIN list' : list'[k] = e \/ \E j \in DOMAIN list : list'[k] = list[j]
  <2> TAKE k \in DOMAIN list'
  <2>1. <<e>> \in Seq(Entry) /\ Len(<<e>>) = 1 /\ Len(list) \in Nat /\ DOMAIN list = 1..Len(list)
    BY <1>8, <1>9
  <2>2. Len(list') = 1 + Len(list) /\ DOMAIN list' = 1..(1 + Len(list))
    BY <1>8, <1>9, <2>1
  <2>3. CASE k = 1
    BY <1>8, <2>1, <2>3
  <2>4. CASE k # 1
    <3>1. k - 1 \in DOMAIN list /\ k \in Nat /\ ~ (k =< 1)
      BY <2>1, <2>2, <2>4
    <3>2. list'[k] = list[k - 1]
      BY <1>8, <2>1, <2>2, <3>1
    <3> QED BY <3>1, <3>2
  <2> QED BY <2>3, <2>4
<1>11. Shows(list)'
  BY <1>2, <1>3, <1>7, <1>10 DEF Settled, Shows
<1> QED BY <1>3, <1>5, <1>6, <1>11 DEF Settled

\* A step that leaves everything alone but the socket.
LEMMA UnchangedBInv ==
  ASSUME BInv, UNCHANGED <<store, mail, answers, list, unread>>, clean
  PROVE  (Settled \/ AboutToAgree)'
<1>1. Unread' = Unread
  BY DEF Unread, Stored
<1>2. CASE Settled
  BY <1>1, <1>2 DEF Settled, Shows
<1>3. CASE AboutToAgree
  <2>1. PICK a \in answers : answers = {a} /\ Agrees(a)
    BY <1>3 DEF AboutToAgree
  <2>2. Agrees(a)'
    BY <1>1, <2>1 DEF Agrees, Shows, ShowsBut
  <2> QED BY <2>1, <2>2, <1>3 DEF AboutToAgree
<1> QED BY <1>2, <1>3 DEF BInv

\* The answer the page was waiting for: no other is under way.
LEMMA TheAnswer ==
  ASSUME BInv, clean, NEW a \in answers, Answered(a)
  PROVE  /\ answers' = {} /\ mail' = {} /\ Agrees(a)
         /\ Unread' = Unread /\ Cardinality(Unread) + Cardinality(mail') = Cardinality(Unread')
<1>1. AboutToAgree
  BY DEF BInv, Settled
<1>2. answers = {a} /\ Agrees(a) /\ mail = {}
  BY <1>1 DEF AboutToAgree
<1>3. answers' = {} /\ mail' = {} /\ Unread' = Unread
  BY <1>2 DEF Answered, Unread, Stored
<1>4. Cardinality(Unread) + 0 = Cardinality(Unread)
  BY Sizes DEF BInv, TInv
<1> QED BY <1>2, <1>3, <1>4, FS_EmptySet

\* Each kind of answer settles what its call has left open.
LEMMA AnsweredSettled ==
  ASSUME BInv, clean, NEW a \in answers,
         Counted(a) \/ Listed(a) \/ MarkedRead(a) \/ AllMarkedRead(a)
  PROVE  Settled'
<1>0. Answered(a) /\ TypeOK
  BY DEF Counted, Listed, MarkedRead, AllMarkedRead, BInv, TInv
<1>1. /\ answers' = {} /\ mail' = {} /\ Agrees(a) /\ Unread' = Unread
      /\ Cardinality(Unread) + Cardinality(mail') = Cardinality(Unread')
  BY <1>0, TheAnswer
<1>2. ASSUME unread' = Cardinality(Unread), Shows(list)' PROVE Settled'
  BY <1>1, <1>2 DEF Settled
<1>3. CASE Counted(a)
  <2>1. unread' = Cardinality(Unread) /\ Shows(list)
    BY <1>1, <1>3 DEF Counted, Agrees
  <2>2. Shows(list)'
    BY <1>1, <1>3, <2>1 DEF Counted, Shows
  <2> QED BY <1>2, <2>1, <2>2
<1>4. CASE Listed(a)
  <2>1. unread' = Cardinality(Unread) /\ Shows(a.value)
    BY <1>1, <1>4 DEF Listed, Agrees
  <2>2. Shows(list)'
    BY <1>1, <1>4, <2>1 DEF Listed, Shows
  <2> QED BY <1>2, <2>1, <2>2
<1>5. CASE MarkedRead(a)
  <2>1. unread = Cardinality(Unread) + 1 /\ ShowsBut(list, a.value)
    BY <1>1, <1>5 DEF MarkedRead, Agrees
  <2>2. unread' = Cardinality(Unread)
    <3>1. \A c \in Nat : c + 1 > 0 /\ (c + 1) - 1 = c
      OBVIOUS
    <3>2. unread' = IF unread > 0 THEN unread - 1 ELSE 0
      BY <1>5 DEF MarkedRead
    <3> QED BY <1>0, <2>1, <3>1, <3>2, Sizes
  <2>3. list' = [k \in DOMAIN list |->
                   IF list[k].id = a.value THEN [list[k] EXCEPT !.read = TRUE] ELSE list[k]]
    BY <1>5 DEF MarkedRead
  <2>4. \A k \in DOMAIN list : list[k] \in Entry
    BY <1>0 DEF TypeOK
  <2>5. \A e \in Entry : [e EXCEPT !.read = TRUE].read
    BY DEF Entry
  <2>6. Shows(list)'
    <3> SUFFICES ASSUME NEW k \in DOMAIN list', ~list'[k].read, Cardinality(list'[k].of) = 1
                 PROVE  list'[k].id \in Unread'
      BY DEF Shows
    <3>1. k \in DOMAIN list /\ list[k].id # a.value
      BY <2>3, <2>4, <2>5
    <3>2. list'[k] = list[k]
      BY <2>3, <3>1
    <3> QED BY <1>1, <2>1, <3>1, <3>2 DEF ShowsBut
  <2> QED BY <1>2, <2>2, <2>6
<1>6. CASE AllMarkedRead(a)
  <2>1. Unread = {}
    BY <1>1, <1>6 DEF AllMarkedRead, Agrees
  <2>2. unread' = Cardinality(Unread)
    BY <2>1, <1>6, FS_EmptySet DEF AllMarkedRead
  <2>3. list' = [k \in DOMAIN list |-> [list[k] EXCEPT !.read = TRUE]]
    BY <1>6 DEF AllMarkedRead
  <2>4. \A k \in DOMAIN list : list[k] \in Entry
    BY <1>0 DEF TypeOK
  <2>5. \A e \in Entry : [e EXCEPT !.read = TRUE].read
    BY DEF Entry
  <2>6. \A k \in DOMAIN list' : list'[k].read
    BY <2>3, <2>4, <2>5
  <2>7. Shows(list)'
    BY <2>6 DEF Shows
  <2> QED BY <1>2, <2>2, <2>7
<1> QED BY <1>3, <1>4, <1>5, <1>6

\* Every step that leaves the page clean leaves it settled, or about to agree.
LEMMA NextBInv == BInv /\ [Next]_vars => BInv'
<1> SUFFICES ASSUME BInv, [Next]_vars PROVE BInv'
  OBVIOUS
<1>0. TInv' /\ TypeOK
  BY NextTInv DEF BInv, TInv
<1> SUFFICES ASSUME clean' PROVE (Settled \/ AboutToAgree)'
  BY <1>0 DEF BInv
<1>1. ASSUME NEW at \in 0..MaxTime, NotifyReassignment(at) PROVE FALSE
  BY <1>1 DEF NotifyReassignment
<1>2. ASSUME NEW at \in 0..MaxTime, NEW r \in Runs, NotifyRunStateChange(r, at) PROVE Settled'
  <2>1. clean /\ online /\ answers = {}
    BY <1>2 DEF NotifyRunStateChange
  <2>2. Settled
    BY <2>1 DEF BInv, AboutToAgree
  <2> QED BY <1>0, <1>2, <2>1, <2>2, NotifySettled
<1>3. CASE Load
  BY <1>3, LoadBInv
<1>4. CASE Fetch
  BY <1>4, FetchBInv
<1>5. ASSUME NEW k \in DOMAIN list, Click(k) PROVE AboutToAgree'
  BY <1>5, ClickBInv
<1>6. CASE MarkAllAsRead
  BY <1>6, MarkAllBInv
<1>7. CASE Receive
  BY <1>7, ReceiveSettled
<1>8. CASE Disconnect \/ Connect \/ UNCHANGED vars
  <2>1. UNCHANGED <<store, mail, answers, list, unread>> /\ clean
    BY <1>8 DEF Disconnect, Connect, vars, pageVars
  <2> QED BY <2>1, UnchangedBInv
<1>9. ASSUME NEW a \in answers, Counted(a) \/ Listed(a) \/ MarkedRead(a) \/ AllMarkedRead(a)
      PROVE  Settled'
  <2>1. clean
    BY <1>9 DEF Counted, Listed, MarkedRead, AllMarkedRead, Answered
  <2> QED BY <1>9, <2>1, AnsweredSettled
<1>10. CASE Server
  BY <1>1, <1>2, <1>10 DEF Server
<1>11. CASE Page
  BY <1>3, <1>4, <1>5, <1>6, <1>7, <1>8, <1>9, <1>11 DEF Page
<1> QED BY <1>8, <1>10, <1>11 DEF Next

\* NotificationContext counts on its own, up with each message and down with
\* each click, and is still right whenever nothing is under way - as long as
\* no message was lost or not sent, nothing overlapped with a call, and no
\* group was clicked.
THEOREM BadgeStaysTrue == Spec => []BadgeIsTrue
<1>1. Spec => []BInv
  BY BInit, NextBInv, PTL DEF Spec
<1>2. BInv => BadgeIsTrue
  <2> SUFFICES ASSUME BInv, clean, Quiet PROVE unread = Cardinality(Unread)
    BY DEF BadgeIsTrue
  <2>1. Alone
    BY DEF Alone, Quiet
  <2> QED BY <2>1, AloneAgrees
<1> QED BY <1>1, <1>2, PTL
=============================================================================
