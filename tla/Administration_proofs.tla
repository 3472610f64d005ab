------------------------- MODULE Administration_proofs -------------------------
(***************************************************************************)
(* What is true of the administration for any number of users, products,   *)
(* stores and groups: types, one participation for each person, somebody   *)
(* who administers, even when merges are cut short; and, when none is,     *)
(* that a merge looks as if it happened all at once.                       *)
(***************************************************************************)
EXTENDS Administration, TLAPS

USE ConstantsAssumption DEF Entities, BetweenTwo, Idle

\* The columns, one after the other.
LEMMA UserColumnsAre ==
  /\ Len(UserColumns) = 10 /\ DOMAIN UserColumns = 1..10
  /\ \A i \in 1..10 : UserColumns[i] \in ReferToUsers
  /\ \A i \in 1..10 : UserColumns[i] = "participation" <=> i = 1
  /\ \A c \in ReferToUsers : \E i \in 1..10 : UserColumns[i] = c
BY DEF UserColumns, ReferToUsers, Nullable

LEMMA ProductColumnsAre ==
  /\ Len(ProductColumns) = 3 /\ DOMAIN ProductColumns = 1..3
  /\ \A i \in 1..3 : ProductColumns[i] \in ReferToProducts
  /\ \A c \in ReferToProducts : \E i \in 1..3 : ProductColumns[i] = c
BY DEF ProductColumns, ReferToProducts

LEMMA StoreColumnsAre ==
  /\ Len(StoreColumns) = 2 /\ DOMAIN StoreColumns = 1..2
  /\ \A i \in 1..2 : StoreColumns[i] \in ReferToStores
  /\ \A c \in ReferToStores : \E i \in 1..2 : StoreColumns[i] = c
BY DEF StoreColumns, ReferToStores

LEMMA ColumnsDiffer ==
  /\ ReferToUsers \cap ReferToProducts = {}
  /\ ReferToUsers \cap ReferToStores = {}
  /\ ReferToProducts \cap ReferToStores = {}
  /\ \A k \in Cells : k[1] \in ReferToUsers \cup ReferToProducts \cup ReferToStores
  /\ \A k \in Participations : k \in Cells /\ k[1] = "participation" /\ k[1] \in ReferToUsers
  /\ "participation" \notin Nullable
BY DEF ReferToUsers, ReferToProducts, ReferToStores, Nullable, Cells, Participations, Schema

\* A merge is between two of a kind that are there, and its source does not
\* administer.
MergeIsOn ==
  job.op = "merge" =>
    /\ job.source \in here \ sysadmins /\ job.target \in here /\ job.source # job.target
    /\ \/ {job.source, job.target} \subseteq Users
       \/ {job.source, job.target} \subseteq Products
       \/ {job.source, job.target} \subseteq Stores
    /\ job.at =< Len(Columns) + (IF job.source \in Users THEN 2 ELSE 1)
    /\ \A i \in DOMAIN Columns : i < job.at =>
         \A k \in Cells : k[1] = Columns[i] => ref[k] # job.source
    /\ job.source \in Users /\ job.at = 1 => ~Overlapping(job.source, job.target)

\* As long as requests came one at a time, who was admitted administers.
OneAtATime ==
  ~overlapped => /\ sysadmins # {}
                 /\ admitted \subseteq sysadmins
                 /\ \A a, b \in admitted : a = b

AInv == TypeOK /\ MergeIsOn /\ OneParticipation /\ OneAtATime

Handler == Next \/ Crash

\* What Columns is, for each kind of merge.
LEMMA ColumnsOfMerge ==
  ASSUME TypeOK, MergeIsOn, job.op = "merge"
  PROVE  /\ job.source \in Users =>
              /\ Columns = UserColumns /\ job.target \in Users
         /\ job.source \in Products =>
              /\ Columns = ProductColumns /\ job.target \in Products
         /\ job.source \in Stores =>
              /\ Columns = StoreColumns /\ job.target \in Stores
         /\ job.source \in Users \cup Products \cup Stores
BY DEF MergeIsOn, Columns

LEMMA InvInit == Init => AInv
<1> SUFFICES ASSUME Init PROVE AInv
  OBVIOUS
<1>1. PICK u \in Users : here = {u} /\ sysadmins = {u}
  BY DEF Init
<1>2. TypeOK
  BY <1>1 DEF Init, TypeOK
<1>3. MergeIsOn
  BY DEF Init, MergeIsOn, Idle
<1>4. OneParticipation
  BY ColumnsDiffer DEF Init, OneParticipation
<1>5. OneAtATime
  BY <1>1 DEF Init, OneAtATime
<1> QED BY <1>2, <1>3, <1>4, <1>5 DEF AInv

\* Erasing what nothing has to refer to.
LEMMA EraseKeeps ==
  ASSUME TypeOK, OneParticipation, NEW e \in here, e \notin sysadmins, ~Referenced(e), Erase(e)
  PROVE  /\ here' \subseteq Entities
         /\ sysadmins \subseteq here' \cap Users
         /\ ref' \in [Cells -> Entities \cup {None, Nobody}]
         /\ \A k \in Cells : \/ ref'[k] \in {None} \cup (Refers(k) \cap here')
                             \/ ref'[k] = Nobody /\ k[1] \in Nullable
         /\ members' \in [Groups -> SUBSET (here' \cap Users)]
         /\ groupAdmins' \in [Groups -> SUBSET Users]
         /\ \A g \in Groups : groupAdmins'[g] \subseteq members'[g]
         /\ OneParticipation'
<1>1. e \in Entities
  BY DEF TypeOK
<1>2. \A k \in Cells : ref'[k] = IF ref[k] = e THEN Nobody ELSE ref[k]
  BY DEF Erase
<1>3. \A k \in Cells : ref[k] = e => k[1] \in Nullable
  BY DEF Referenced
<1>4. \A k \in Cells : \/ ref'[k] \in {None} \cup (Refers(k) \cap here')
                       \/ ref'[k] = Nobody /\ k[1] \in Nullable
  BY <1>2, <1>3 DEF TypeOK, Erase
<1>5. \A p \in Participations : ref'[p] = ref[p]
  BY <1>2, <1>3, ColumnsDiffer
<1>6. OneParticipation'
  BY <1>5 DEF OneParticipation
<1>7. ref' \in [Cells -> Entities \cup {None, Nobody}]
  BY <1>2 DEF Erase, TypeOK
<1> QED BY <1>4, <1>6, <1>7 DEF TypeOK, Erase

\* What everybody does.
LEMMA EverybodyKeeps ==
  ASSUME AInv, Everybody
  PROVE  AInv'
<1>1. TypeOK /\ OneParticipation /\ OneAtATime
  BY DEF AInv
<1>2. ASSUME NEW e \in Entities, Create(e)
      PROVE  AInv'
  <2>1. TypeOK'
    BY <1>1, <1>2 DEF Create, TypeOK
  <2> QED BY <1>1, <1>2, <2>1 DEF Create, AInv, MergeIsOn, OneParticipation, OneAtATime, Idle
<1>3. ASSUME NEW e \in here, NEW k \in Cells, Refer(k, e)
      PROVE  AInv'
  <2>1. TypeOK'
    BY <1>1, <1>3 DEF Refer, TypeOK
  <2>2. OneParticipation'
    <3>1. \A p \in Participations : p # k => ref'[p] = ref[p]
      BY <1>1, <1>3, ColumnsDiffer DEF Refer, TypeOK
    <3>2. ref'[k] = e
      BY <1>1, <1>3 DEF Refer, TypeOK
    <3> QED BY <1>1, <1>3, <3>1, <3>2 DEF Refer, OneParticipation
  <2> QED BY <1>1, <1>3, <2>1, <2>2 DEF Refer, AInv, MergeIsOn, OneAtATime, Idle
<1>4. ASSUME NEW u \in here \cap Users, NEW g \in Groups, NEW asAdmin \in BOOLEAN,
             Enter(u, g, asAdmin)
      PROVE  AInv'
  <2>1. TypeOK'
    BY <1>1, <1>4 DEF Enter, TypeOK
  <2> QED BY <1>1, <1>4, <2>1 DEF Enter, AInv, MergeIsOn, OneParticipation, OneAtATime, Idle
<1> QED BY <1>2, <1>3, <1>4 DEF Everybody

\* The handlers of administrators: whoever was admitted keeps her right.
LEMMA HandlersKeep ==
  ASSUME AInv, Handlers
  PROVE  AInv'
<1>1. TypeOK /\ OneParticipation /\ OneAtATime
  BY DEF AInv
<1>2. PICK a \in admitted :
        \/ \E u \in here \cap Users, admin \in BOOLEAN : UpdateUser(a, u, admin)
        \/ \E e \in here : ToggleVerification(a, e) \/ Delete(a, e)
        \/ \E s, t \in here : Merge(a, s, t)
  BY DEF Handlers
<1>3. ASSUME NEW u \in here \cap Users, NEW admin \in BOOLEAN, UpdateUser(a, u, admin)
      PROVE  AInv'
  <2>1. TypeOK'
    BY <1>1, <1>3 DEF UpdateUser, Handles, TypeOK
  <2>2. OneAtATime'
    BY <1>1, <1>3 DEF UpdateUser, Handles, MayChange, OneAtATime
  <2> QED BY <1>1, <1>3, <2>1, <2>2
          DEF UpdateUser, Handles, AInv, MergeIsOn, OneParticipation, Idle
<1>4. ASSUME NEW e \in here, ToggleVerification(a, e)
      PROVE  AInv'
  BY <1>1, <1>4 DEF ToggleVerification, Handles, AInv, TypeOK, MergeIsOn, OneParticipation,
                    OneAtATime, Idle
<1>5. ASSUME NEW e \in here, Delete(a, e)
      PROVE  AInv'
  <2>1. TypeOK' /\ OneParticipation'
    BY <1>1, <1>5, EraseKeeps DEF Delete, Handles, TypeOK
  <2> QED BY <1>1, <1>5, <2>1 DEF Delete, Handles, AInv, MergeIsOn, OneAtATime, Idle
<1>6. ASSUME NEW s \in here, NEW t \in here, Merge(a, s, t)
      PROVE  AInv'
  <2>1. /\ job' = [op |-> "merge", source |-> s, target |-> t, at |-> 1]
        /\ UNCHANGED <<here, sysadmins, ref, members, groupAdmins, overlapped>>
        /\ admitted' \subseteq admitted /\ MayMerge(a, s, t)
    BY <1>6 DEF Merge, Handles
  <2>2. TypeOK'
    <3>1. s \in here \ sysadmins /\ t \in here \ {s}
      BY <1>1, <2>1 DEF MayMerge, TypeOK
    <3>2. job' \in Merging /\ BetweenTwo'
      BY <1>1, <2>1, <3>1 DEF TypeOK, Merging
    <3> HIDE DEF BetweenTwo
    <3> QED BY <1>1, <2>1, <3>2 DEF TypeOK
  <2>3. MergeIsOn'
    <3>1. s \notin sysadmins /\ s # t
      BY <1>1, <2>1 DEF MayMerge, TypeOK
    <3>2. s \in Users => ~Overlapping(s, t)
      BY <2>1 DEF MayMerge
    <3>3. Columns' = IF s \in Products THEN ProductColumns
                     ELSE IF s \in Stores THEN StoreColumns ELSE UserColumns
      BY <2>1 DEF Columns
    <3>4. DOMAIN Columns' \subseteq Nat \ {0} /\ Len(Columns') \in Nat \ {0}
      <4>1. CASE Columns' = ProductColumns
        BY <4>1, ProductColumnsAre
      <4>2. CASE Columns' = StoreColumns
        BY <4>2, StoreColumnsAre
      <4>3. CASE Columns' = UserColumns
        BY <4>3, UserColumnsAre
      <4> QED BY <3>3, <4>1, <4>2, <4>3
    <3>5. ~\E i \in DOMAIN Columns' : i < 1
      BY <3>4
    <3>6. /\ job'.source = s /\ job'.target = t /\ job'.at = 1
          /\ \/ {s, t} \subseteq Users \/ {s, t} \subseteq Products \/ {s, t} \subseteq Stores
      BY <2>1 DEF MayMerge
    <3>7. job'.at =< Len(Columns') + (IF job'.source \in Users THEN 2 ELSE 1)
      BY <3>4, <3>6
    <3>8. \A i \in DOMAIN Columns' : ~(i < job'.at)
      BY <3>5, <3>6
    <3>9. job'.source \in Users => ~Overlapping(s, t)'
      BY <2>1, <3>2, <3>6 DEF Overlapping
    <3> QED BY <2>1, <3>1, <3>6, <3>7, <3>8, <3>9 DEF MergeIsOn, Overlapping
  <2> QED BY <1>1, <2>1, <2>2, <2>3 DEF AInv, OneParticipation, OneAtATime
<1> QED BY <1>2, <1>3, <1>4, <1>5, <1>6

\* Moving a column keeps each row's kind, and no participation meets another.
LEMMA MoveColumnKeeps ==
  ASSUME AInv, MoveColumn
  PROVE  AInv'
<1>1. TypeOK /\ OneParticipation /\ OneAtATime /\ MergeIsOn
  BY DEF AInv
<1> DEFINE s == job.source
           t == job.target
           c == Columns[job.at]
<1>2. /\ job.op = "merge" /\ job \in Merging /\ job.at \in DOMAIN Columns
      /\ job' = [job EXCEPT !.at = @ + 1]
      /\ UNCHANGED <<here, sysadmins, members, groupAdmins, admitted, overlapped>>
      /\ \A k \in Cells : ref'[k] = IF k[1] = c /\ ref[k] = s THEN t ELSE ref[k]
      /\ ref' = [k \in Cells |-> ref'[k]]
  BY <1>1 DEF MoveColumn, TypeOK, Idle
<1>3. /\ s \in here \ sysadmins /\ t \in here /\ s # t
      /\ s \in Users => Columns = UserColumns /\ t \in Users
      /\ s \in Products => Columns = ProductColumns /\ t \in Products
      /\ s \in Stores => Columns = StoreColumns /\ t \in Stores
      /\ s \in Users \cup Products \cup Stores
  BY <1>1, <1>2, ColumnsOfMerge DEF MergeIsOn
<1>4. /\ DOMAIN Columns = 1..Len(Columns) /\ Len(Columns) \in 1..10
      /\ \A i \in 1..Len(Columns) : Columns[i] = "participation" => s \in Users /\ i = 1
  <2>1. CASE s \in Users
    BY <1>3, <2>1, UserColumnsAre
  <2>2. CASE s \in Products
    BY <1>3, <2>2, ProductColumnsAre DEF ReferToProducts
  <2>3. CASE s \in Stores
    BY <1>3, <2>3, StoreColumnsAre DEF ReferToStores
  <2> QED BY <1>3, <2>1, <2>2, <2>3
<1> HIDE DEF c
<1>5. /\ job'.source = s /\ job'.target = t /\ job'.op = "merge" /\ job'.at = job.at + 1
      /\ job' \in Merging
  <2>1. job.at \in 1..10
    BY <1>2, <1>4
  <2> QED BY ONLY <1>2, <2>1 DEF Merging
<1>6. \A k \in Cells : ref[k] = s => t \in Refers(k)
  <2>1. \A k \in Cells : ref[k] = s => s \in Refers(k)
    BY <1>1, <1>3 DEF TypeOK
  <2> QED BY <1>3, <2>1 DEF Refers
<1>7. TypeOK'
  <2>1. \A k \in Cells : \/ ref'[k] \in {None} \cup (Refers(k) \cap here)
                         \/ ref'[k] = Nobody /\ k[1] \in Nullable
    BY <1>1, <1>2, <1>3, <1>6 DEF TypeOK
  <2>2. ref' \in [Cells -> Entities \cup {None, Nobody}]
    BY <1>1, <1>2, <1>3 DEF TypeOK
  <2> QED BY <1>1, <1>2, <1>5, <2>1, <2>2 DEF TypeOK
<1>8. OneParticipation'
  <2> SUFFICES ASSUME NEW p \in Participations, NEW q \in Participations,
                      ref'[p] = ref'[q], ref'[p] # None
               PROVE  p = q
    BY DEF OneParticipation
  <2>1. p \in Cells /\ q \in Cells /\ p[1] = "participation" /\ q[1] = "participation"
    BY ColumnsDiffer
  <2>2. CASE c = "participation"
    <3>1. s \in Users /\ job.at = 1
      BY <1>2, <1>4, <2>2 DEF c
    <3>2. ~Overlapping(s, t)
      BY <1>1, <1>2, <3>1 DEF MergeIsOn
    <3> QED BY <1>1, <1>2, <2>1, <2>2, <3>2, <1>3 DEF OneParticipation, Overlapping, TypeOK
  <2>3. CASE c # "participation"
    BY <1>1, <1>2, <2>1, <2>3 DEF OneParticipation
  <2> QED BY <2>2, <2>3
<1>9. MergeIsOn'
  <2>1. Columns' = Columns
    BY <1>5 DEF Columns
  <2>2. job.at =< Len(Columns)
    BY <1>2, <1>4
  <2>3. ASSUME NEW i \in DOMAIN Columns, i < job.at + 1, NEW k \in Cells, k[1] = Columns[i]
        PROVE  ref'[k] # s
    <3>1. CASE i = job.at
      BY <1>2, <1>3, <2>3, <3>1 DEF c
    <3>2. CASE i < job.at
      BY <1>1, <1>2, <1>3, <2>3, <3>2 DEF MergeIsOn
    <3> QED BY <1>2, <1>4, <2>3, <3>1, <3>2
  <2>4. job'.at # 1
    BY <1>2, <1>4, <1>5
  <2>5. job'.at =< Len(Columns) + (IF s \in Users THEN 2 ELSE 1)
    BY <1>2, <1>4, <1>5, <2>2
  <2> QED BY <1>1, <1>2, <1>3, <1>5, <2>1, <2>3, <2>4, <2>5 DEF MergeIsOn
<1>10. OneAtATime'
  BY <1>1, <1>2 DEF OneAtATime
<1> QED BY <1>7, <1>8, <1>9, <1>10 DEF AInv

\* Once a merge has moved its columns, nothing refers to its source.
LEMMA NothingIsLeft ==
  ASSUME TypeOK, MergeIsOn, job.op = "merge", job \in Merging, job.at > Len(Columns)
  PROVE  \A k \in Cells : ref[k] # job.source
<1> SUFFICES ASSUME NEW k \in Cells, ref[k] = job.source PROVE FALSE
  OBVIOUS
<1>1. job.source \in Refers(k)
  BY DEF TypeOK, MergeIsOn
<1>2. \A i \in DOMAIN Columns : i < job.at => k[1] # Columns[i]
  BY DEF MergeIsOn
<1>3. CASE job.source \in Users
  <2>1. Columns = UserColumns /\ k[1] \in ReferToUsers
    BY <1>1, <1>3, ColumnsOfMerge DEF Refers
  <2>2. PICK i \in 1..10 : Columns[i] = k[1]
    BY <2>1, UserColumnsAre
  <2>3. i \in DOMAIN Columns /\ i < job.at
    BY <2>1, UserColumnsAre DEF Merging
  <2> QED BY <1>2, <2>2, <2>3
<1>4. CASE job.source \in Products
  <2>1. Columns = ProductColumns /\ k[1] \in ReferToProducts
    BY <1>1, <1>4, ColumnsOfMerge DEF Refers
  <2>2. PICK i \in 1..3 : Columns[i] = k[1]
    BY <2>1, ProductColumnsAre
  <2>3. i \in DOMAIN Columns /\ i < job.at
    BY <2>1, ProductColumnsAre DEF Merging
  <2> QED BY <1>2, <2>2, <2>3
<1>5. CASE job.source \in Stores
  <2>1. Columns = StoreColumns /\ k[1] \in ReferToStores
    BY <1>1, <1>5, ColumnsOfMerge, ColumnsDiffer DEF Refers
  <2>2. PICK i \in 1..2 : Columns[i] = k[1]
    BY <2>1, StoreColumnsAre
  <2>3. i \in DOMAIN Columns /\ i < job.at
    BY <2>1, StoreColumnsAre DEF Merging
  <2> QED BY <1>2, <2>2, <2>3
<1> QED BY <1>3, <1>4, <1>5, ColumnsOfMerge

LEMMA ColumnsAreMany ==
  ASSUME TypeOK, MergeIsOn, job.op = "merge"
  PROVE  Len(Columns) \in Nat \ {0} /\ DOMAIN Columns = 1..Len(Columns) /\ Len(Columns) =< 10
<1>1. CASE job.source \in Users
  <2>1. Columns = UserColumns
    BY <1>1, ColumnsOfMerge
  <2> QED BY <2>1, UserColumnsAre
<1>2. CASE job.source \in Products
  <2>1. Columns = ProductColumns
    BY <1>2, ColumnsOfMerge
  <2> QED BY <2>1, ProductColumnsAre
<1>3. CASE job.source \in Stores
  <2>1. Columns = StoreColumns
    BY <1>3, ColumnsOfMerge
  <2> QED BY <2>1, StoreColumnsAre
<1> QED BY <1>1, <1>2, <1>3, ColumnsOfMerge

LEMMA TransferKeeps ==
  ASSUME AInv, TransferGroupAdmin
  PROVE  AInv'
<1>1. TypeOK /\ OneParticipation /\ OneAtATime /\ MergeIsOn
  BY DEF AInv
<1>2. /\ job.op = "merge" /\ job \in Merging /\ job.source \in Users
      /\ job.at = Len(Columns) + 1
      /\ groupAdmins' = Carried(job.source, job.target)
      /\ job' = [job EXCEPT !.at = @ + 1]
      /\ UNCHANGED <<here, sysadmins, ref, members, admitted, overlapped>>
  BY <1>1 DEF TransferGroupAdmin, TypeOK, Idle
<1>3. Len(Columns) = 10 /\ DOMAIN Columns = 1..10 /\ job.target \in Users
  BY <1>1, <1>2, ColumnsOfMerge, UserColumnsAre
<1>4. /\ job'.source = job.source /\ job'.target = job.target /\ job'.at = 12
      /\ job'.op = "merge" /\ job' \in Merging
  BY <1>2, <1>3 DEF Merging
<1>5. Columns' = Columns
  BY <1>4 DEF Columns
<1>6. TypeOK'
  <2>1. /\ groupAdmins' \in [Groups -> SUBSET Users]
        /\ \A g \in Groups : groupAdmins'[g] \subseteq members[g]
    BY <1>1, <1>2, <1>3 DEF Carried, TypeOK
  <2> QED BY <1>1, <1>2, <1>4, <2>1 DEF TypeOK
<1>7. MergeIsOn'
  <2>1. \A k \in Cells : ref'[k] # job'.source
    BY <1>1, <1>2, <1>3, <1>4, NothingIsLeft
  <2>2. job'.at # 1 /\ job'.at =< Len(Columns) + (IF job.source \in Users THEN 2 ELSE 1)
    BY <1>2, <1>3, <1>4
  <2> QED BY <1>1, <1>2, <1>4, <1>5, <2>1, <2>2 DEF MergeIsOn
<1> QED BY <1>1, <1>2, <1>6, <1>7 DEF AInv, OneParticipation, OneAtATime

LEMMA EndMergeKeeps ==
  ASSUME AInv, EndMerge
  PROVE  AInv'
<1>1. TypeOK /\ OneParticipation /\ OneAtATime /\ MergeIsOn
  BY DEF AInv
<1>2. /\ job.op = "merge" /\ job' = Idle /\ UNCHANGED <<sysadmins, admitted, overlapped>>
      /\ IF Referenced(job.source)
         THEN UNCHANGED <<here, ref, members, groupAdmins>>
         ELSE Erase(job.source)
  BY DEF EndMerge
<1>3. job.source \in here \ sysadmins
  BY <1>1, <1>2 DEF MergeIsOn
<1>4. TypeOK' /\ OneParticipation'
  <2>1. CASE Referenced(job.source)
    BY <1>1, <1>2, <2>1 DEF TypeOK, OneParticipation
  <2>2. CASE ~Referenced(job.source)
    BY <1>1, <1>2, <1>3, <2>2, EraseKeeps DEF TypeOK
  <2> QED BY <2>1, <2>2
<1> QED BY <1>1, <1>2, <1>4 DEF AInv, MergeIsOn, OneAtATime, Idle

LEMMA InvStep == AInv /\ [Handler]_vars => AInv'
<1> SUFFICES ASSUME AInv, [Handler]_vars PROVE AInv'
  OBVIOUS
<1>1. ASSUME NEW a \in sysadmins, Admit(a)
      PROVE  AInv'
  <2>1. TypeOK /\ MergeIsOn /\ OneParticipation /\ OneAtATime
    BY DEF AInv
  <2>2. UNCHANGED <<here, sysadmins, ref, members, groupAdmins, job>>
    BY <1>1 DEF Admit
  <2>3. TypeOK'
    BY <1>1, <2>1, <2>2 DEF Admit, TypeOK
  <2>4. MergeIsOn' /\ OneParticipation'
    BY <2>1, <2>2 DEF MergeIsOn, OneParticipation, Columns, Overlapping
  <2>5. OneAtATime'
    BY <1>1, <2>1, <2>2 DEF Admit, OneAtATime
  <2> QED BY <2>3, <2>4, <2>5 DEF AInv
<1>2. CASE Crash
  BY <1>2 DEF Crash, AInv, TypeOK, MergeIsOn, OneParticipation, OneAtATime, Idle
<1>3. CASE UNCHANGED vars
  BY <1>3 DEF vars, AInv, TypeOK, MergeIsOn, OneParticipation, OneAtATime, Columns, Overlapping
<1>4. CASE Next
  <2>1. CASE Everybody
    BY <2>1, EverybodyKeeps
  <2>2. CASE Handlers
    BY <2>2, HandlersKeep
  <2>3. CASE JobStep
    BY <2>3, MoveColumnKeeps, TransferKeeps, EndMergeKeeps DEF JobStep
  <2> QED BY <1>1, <1>4, <2>1, <2>2, <2>3 DEF Next
<1> QED BY <1>2, <1>3, <1>4 DEF Handler

LEMMA Invariant == CrashSpec => []AInv
<1>1. [Next \/ Crash]_vars => [Handler]_vars
  BY DEF Handler
<1> QED BY <1>1, InvInit, InvStep, PTL DEF CrashSpec

\* Types: a row refers to what is there and is of the right kind, and the
\* administrators of a group are its members, wherever a merge is cut short.
THEOREM TypesHold == CrashSpec => []TypeOK
<1>1. AInv => TypeOK
  BY DEF AInv
<1> QED BY Invariant, <1>1, PTL

\* Nobody takes part in a run twice, even between the commits of a merge.
THEOREM ParticipationsAreOne == CrashSpec => []OneParticipation
<1>1. AInv => OneParticipation
  BY DEF AInv
<1> QED BY Invariant, <1>1, PTL

\* One at a time, administrators cannot do away with the last of them.
THEOREM AnAdministratorIsLeft == CrashSpec => []AdminLeft
<1>1. AInv => AdminLeft
  BY DEF AInv, OneAtATime, AdminLeft
<1> QED BY Invariant, <1>1, PTL
-----------------------------------------------------------------------------
(* A merge that is not cut short looks as if it happened all at once. *)

HereSeen == Without(here)
RefSeen == [k \in Cells |-> IF InMerge /\ ref[k] = job.source THEN job.target ELSE ref[k]]
MembersSeen == [g \in Groups |-> Without(members[g])]
AdminsSeen == [g \in Groups |->
                 Without(IF InMerge THEN Carried(job.source, job.target)[g]
                         ELSE groupAdmins[g])]

Seen == <<HereSeen, RefSeen, MembersSeen, AdminsSeen>>

\* At the end of a merge the right to administer groups has been carried over.
CarriedOver ==
  InMerge /\ job.source \in Users /\ job.at = Len(Columns) + 2 =>
    groupAdmins = Carried(job.source, job.target)

MInv == AInv /\ CarriedOver

\* Between handlers what is seen is what is there.
LEMMA SeenAsItIs ==
  ASSUME TypeOK, ~InMerge
  PROVE  HereSeen = here /\ RefSeen = ref /\ MembersSeen = members /\ AdminsSeen = groupAdmins
BY DEF HereSeen, RefSeen, MembersSeen, AdminsSeen, Without, TypeOK

LEMMA SeenAfter ==
  ASSUME TypeOK', ~InMerge'
  PROVE  /\ HereSeen' = here' /\ RefSeen' = ref'
         /\ MembersSeen' = members' /\ AdminsSeen' = groupAdmins'
BY DEF HereSeen, RefSeen, MembersSeen, AdminsSeen, Without, TypeOK

\* The beginning of a merge shows all of it.
LEMMA MergeSeen ==
  ASSUME AInv, TypeOK', NEW a \in admitted, NEW s \in here, NEW t \in here, Merge(a, s, t)
  PROVE  AllAtOnce!Merge(s, t)
<1>1. /\ job = Idle /\ MayMerge(a, s, t)
      /\ job' = [op |-> "merge", source |-> s, target |-> t, at |-> 1]
      /\ UNCHANGED <<here, sysadmins, ref, members, groupAdmins>>
  BY DEF Merge, Handles
<1>2. TypeOK
  BY DEF AInv
<1>3. ~InMerge /\ InMerge' /\ job'.source = s /\ job'.target = t
  BY <1>1 DEF InMerge, Idle
<1>4. HereSeen = here /\ RefSeen = ref /\ MembersSeen = members /\ AdminsSeen = groupAdmins
  BY <1>2, <1>3, SeenAsItIs
<1>5. HereSeen' = here \ {s}
  BY <1>1, <1>3 DEF HereSeen, Without
<1>6. MembersSeen' = [g \in Groups |-> members[g] \ {s}]
  BY <1>1, <1>3 DEF MembersSeen, Without
<1>7. RefSeen' = [k \in Cells |-> IF ref[k] = s THEN t ELSE ref[k]]
  BY <1>1, <1>3 DEF RefSeen
<1>8. s # t /\ AllAtOnce!Alike(s, t)
  BY <1>1 DEF MayMerge, AllAtOnce!Alike
<1>9. AdminsSeen' = [g \in Groups |->
        (groupAdmins[g] \ {s}) \cup
          (IF s \in groupAdmins[g] /\ t \in members[g] THEN {t} ELSE {})]
  <2>1. AdminsSeen' = [g \in Groups |-> Carried(s, t)[g] \ {s}]
    BY <1>1, <1>3 DEF AdminsSeen, Without, Carried
  <2> QED BY <1>8, <2>1 DEF Carried
<1>10. \A p, q \in Participations : ~(ref[p] = s /\ ref[q] = t)
  <2>1. CASE s \in Users
    BY <1>1, <2>1 DEF MayMerge, Overlapping
  <2>2. CASE s \notin Users
    <3>1. \A p \in Participations : ref[p] # s
      BY <1>2, <2>2, ColumnsDiffer DEF TypeOK, Refers
    <3> QED BY <3>1
  <2> QED BY <2>1, <2>2
<1> QED BY <1>4, <1>5, <1>6, <1>7, <1>8, <1>9, <1>10
        DEF AllAtOnce!Merge, AllAtOnce!Vanish, HereSeen, RefSeen, MembersSeen, AdminsSeen

\* Its commits show nothing new.
LEMMA MoveColumnUnseen ==
  ASSUME MInv, MoveColumn
  PROVE  UNCHANGED Seen /\ CarriedOver'
<1>1. TypeOK /\ MergeIsOn
  BY DEF MInv, AInv
<1>2. /\ job.op = "merge" /\ job \in Merging /\ job.at \in DOMAIN Columns
      /\ job'.op = "merge" /\ job'.source = job.source /\ job'.target = job.target
      /\ job'.at = job.at + 1
      /\ UNCHANGED <<here, members, groupAdmins>>
      /\ \A k \in Cells : ref'[k] = IF k[1] = Columns[job.at] /\ ref[k] = job.source
                                    THEN job.target ELSE ref[k]
  BY <1>1 DEF MoveColumn, TypeOK, Idle, Merging
<1>3. InMerge /\ InMerge' /\ job.source # job.target
  BY <1>1, <1>2 DEF InMerge, MergeIsOn
<1>4. RefSeen' = RefSeen
  BY <1>2, <1>3 DEF RefSeen
<1>5. HereSeen' = HereSeen /\ MembersSeen' = MembersSeen
  BY <1>2, <1>3 DEF HereSeen, MembersSeen, Without
<1>6. AdminsSeen' = AdminsSeen
  BY <1>2, <1>3 DEF AdminsSeen, Without, Carried
<1>7. CarriedOver'
  <2>1. Columns' = Columns
    BY <1>2 DEF Columns
  <2>2. job'.at # Len(Columns) + 2
    BY <1>1, <1>2, ColumnsAreMany
  <2> QED BY <2>1, <2>2 DEF CarriedOver
<1> QED BY <1>4, <1>5, <1>6, <1>7 DEF Seen

LEMMA TransferUnseen ==
  ASSUME MInv, TransferGroupAdmin
  PROVE  UNCHANGED Seen /\ CarriedOver'
<1>1. TypeOK /\ MergeIsOn
  BY DEF MInv, AInv
<1>2. /\ job.op = "merge" /\ job \in Merging
      /\ job'.op = "merge" /\ job'.source = job.source /\ job'.target = job.target
      /\ groupAdmins' = Carried(job.source, job.target)
      /\ UNCHANGED <<here, ref, members>>
  BY <1>1 DEF TransferGroupAdmin, TypeOK, Idle, Merging
<1>3. InMerge /\ InMerge' /\ job.source # job.target
  BY <1>1, <1>2 DEF InMerge, MergeIsOn
<1> DEFINE s == job.source
           t == job.target
<1>4. Carried(s, t)' = Carried(s, t)
  BY <1>1, <1>2, <1>3 DEF Carried, TypeOK
<1>5. AdminsSeen' = AdminsSeen
  BY <1>2, <1>3, <1>4 DEF AdminsSeen, Without
<1>6. HereSeen' = HereSeen /\ MembersSeen' = MembersSeen /\ RefSeen' = RefSeen
  BY <1>2, <1>3 DEF HereSeen, MembersSeen, RefSeen, Without
<1>7. CarriedOver'
  BY <1>2, <1>4 DEF CarriedOver
<1> QED BY <1>5, <1>6, <1>7 DEF Seen

\* The source can be deleted, and nobody looks at it any more.
LEMMA EndMergeUnseen ==
  ASSUME MInv, TypeOK', EndMerge
  PROVE  UNCHANGED Seen /\ CarriedOver'
<1>1. TypeOK /\ MergeIsOn /\ CarriedOver
  BY DEF MInv, AInv
<1>2. job.op = "merge" /\ job \in Merging /\ Moved /\ job' = Idle
  BY <1>1 DEF EndMerge, TypeOK, Idle
<1>3. InMerge /\ ~InMerge'
  BY <1>2 DEF InMerge, Idle
<1> DEFINE s == job.source
           t == job.target
<1>4. \A k \in Cells : ref[k] # s
  <2>1. job.at > Len(Columns)
    BY <1>1, <1>2, ColumnsAreMany DEF Moved
  <2> QED BY <1>1, <1>2, <2>1, NothingIsLeft
<1>5. Erase(s)
  BY <1>4 DEF EndMerge, Referenced
<1>6. Carried(s, t) = groupAdmins
  <2>1. CASE s \in Users
    BY <1>1, <1>2, <1>3, <2>1 DEF Moved, CarriedOver
  <2>2. CASE s \notin Users
    <3>1. \A g \in Groups : s \notin groupAdmins[g]
      BY <1>1, <2>2 DEF TypeOK
    <3> QED BY <1>1, <3>1 DEF Carried, TypeOK
  <2> QED BY <2>1, <2>2
<1>7. /\ HereSeen' = here' /\ RefSeen' = ref'
      /\ MembersSeen' = members' /\ AdminsSeen' = groupAdmins'
  BY <1>3, SeenAfter
<1>8. HereSeen = here \ {s} /\ MembersSeen = [g \in Groups |-> members[g] \ {s}]
  BY <1>3 DEF HereSeen, MembersSeen, Without
<1>9. RefSeen = ref
  BY <1>1, <1>4 DEF RefSeen, TypeOK
<1>10. ref' = ref
  BY <1>1, <1>4, <1>5 DEF Erase, TypeOK
<1>11. AdminsSeen = [g \in Groups |-> groupAdmins[g] \ {s}]
  BY <1>3, <1>6 DEF AdminsSeen, Without
<1>12. CarriedOver'
  BY <1>3 DEF CarriedOver
<1> QED BY <1>5, <1>7, <1>8, <1>9, <1>10, <1>11, <1>12 DEF Seen, Erase

\* What nobody's merge is in the way of is seen as it is done.
LEMMA OthersSeen ==
  ASSUME AInv, TypeOK', job = Idle, job' = Idle, Everybody \/ Handlers
  PROVE  AllAtOnce!Next \/ UNCHANGED Seen
<1>1. TypeOK /\ ~InMerge /\ ~InMerge'
  BY DEF AInv, InMerge, Idle
<1>2. HereSeen = here /\ RefSeen = ref /\ MembersSeen = members /\ AdminsSeen = groupAdmins
  BY <1>1, SeenAsItIs
<1>3. /\ HereSeen' = here' /\ RefSeen' = ref'
      /\ MembersSeen' = members' /\ AdminsSeen' = groupAdmins'
  BY <1>1, SeenAfter
<1> HIDE DEF HereSeen, RefSeen, MembersSeen, AdminsSeen
<1>4. CASE UNCHANGED <<here, ref, members, groupAdmins>>
  BY <1>2, <1>3, <1>4 DEF Seen
<1>5. ASSUME NEW e \in Entities, Create(e)
      PROVE  AllAtOnce!Create(e)
  BY <1>2, <1>3, <1>5
     DEF Create, AllAtOnce!Create, HereSeen, RefSeen, MembersSeen, AdminsSeen
<1>6. ASSUME NEW e \in here, NEW k \in Cells, Refer(k, e)
      PROVE  AllAtOnce!Refer(k)
  <2>1. ref[k] = None /\ ref'[k] = e /\ ref' = [ref EXCEPT ![k] = ref'[k]]
    BY <1>1, <1>6 DEF Refer, TypeOK
  <2> QED BY <1>2, <1>3, <1>6, <2>1
             DEF Refer, AllAtOnce!Refer, HereSeen, RefSeen, MembersSeen, AdminsSeen
<1>7. ASSUME NEW u \in here \cap Users, NEW g \in Groups, NEW asAdmin \in BOOLEAN,
             Enter(u, g, asAdmin)
      PROVE  AllAtOnce!Enter(u, g, asAdmin)
  BY <1>2, <1>3, <1>7
     DEF Enter, AllAtOnce!Enter, HereSeen, RefSeen, MembersSeen, AdminsSeen
<1>8. ASSUME NEW a \in admitted, NEW e \in here, Delete(a, e)
      PROVE  AllAtOnce!Delete(e)
  <2>1. Erase(e) /\ \A k \in Cells : ref[k] = e => k[1] \in Nullable
    BY <1>8 DEF Delete, Referenced
  <2> QED BY <1>2, <1>3, <2>1
             DEF Erase, AllAtOnce!Delete, AllAtOnce!Vanish, HereSeen, RefSeen, MembersSeen, AdminsSeen
<1>9. CASE Everybody
  BY <1>2, <1>5, <1>6, <1>7, <1>9 DEF Everybody, AllAtOnce!Next, AllAtOnce!Entities, HereSeen
<1>10. CASE Handlers
  <2>1. PICK a \in admitted :
          \/ \E u \in here \cap Users, admin \in BOOLEAN : UpdateUser(a, u, admin)
          \/ \E e \in here : ToggleVerification(a, e) \/ Delete(a, e)
          \/ \E s, t \in here : Merge(a, s, t)
    BY <1>10 DEF Handlers
  <2>2. CASE \E u \in here \cap Users, admin \in BOOLEAN : UpdateUser(a, u, admin)
    BY <1>4, <2>2 DEF UpdateUser
  <2>3. CASE \E e \in here : ToggleVerification(a, e)
    BY <1>4, <2>3 DEF ToggleVerification
  <2>4. CASE \E e \in here : Delete(a, e)
    BY <1>2, <1>8, <2>4 DEF AllAtOnce!Next, HereSeen
  <2>5. CASE \E s, t \in here : Merge(a, s, t)
    BY <2>5 DEF Merge, Idle
  <2> QED BY <2>1, <2>2, <2>3, <2>4, <2>5
<1> QED BY <1>9, <1>10

LEMMA PromiseStep ==
  ASSUME MInv, TypeOK', [Next]_vars
  PROVE  (AllAtOnce!Next \/ UNCHANGED Seen) /\ CarriedOver'
<1>1. CASE JobStep
  BY <1>1, MoveColumnUnseen, TransferUnseen, EndMergeUnseen DEF JobStep
<1>2. CASE Everybody \/ Handlers
  <2>1. job = Idle
    BY <1>2 DEF Everybody, Create, Refer, Enter, Handlers, UpdateUser, ToggleVerification,
                Delete, Merge, Handles
  <2>2. \/ job' = Idle
        \/ \E a \in admitted : \E s, t \in here : Merge(a, s, t)
    BY <1>2, <2>1 DEF Everybody, Create, Refer, Enter, Handlers, UpdateUser,
                      ToggleVerification, Delete
  <2>3. CASE job' = Idle
    <3>1. CarriedOver'
      BY <2>3 DEF CarriedOver, InMerge, Idle
    <3> QED BY <1>2, <2>1, <2>3, <3>1, OthersSeen DEF MInv
  <2>4. ASSUME NEW a \in admitted, NEW s \in here, NEW t \in here, Merge(a, s, t)
        PROVE  AllAtOnce!Next /\ CarriedOver'
    <3>1. AllAtOnce!Merge(s, t)
      BY <2>4, MergeSeen DEF MInv
    <3>2. HereSeen = here
      BY <2>1, SeenAsItIs DEF MInv, AInv, InMerge, Idle
    <3>3. AllAtOnce!Next
      BY <3>1, <3>2 DEF AllAtOnce!Next, HereSeen
    <3>4. job'.at = 1
      BY <2>4 DEF Merge
    <3>5. job' \in Merging \/ job' = Idle
      BY DEF TypeOK
    <3>6. job'.source \in Users => Columns' = UserColumns
      <4>1. job'.source \in Users => job'.source \notin Products \cup Stores
        OBVIOUS
      <4> QED BY <4>1 DEF Columns
    <3>7. CarriedOver'
      BY <3>4, <3>6, UserColumnsAre DEF CarriedOver
    <3> QED BY <3>3, <3>7
  <2> QED BY <2>2, <2>3, <2>4
<1>3. CASE (\E a \in sysadmins : Admit(a)) \/ UNCHANGED vars
  <2>1. UNCHANGED <<here, ref, members, groupAdmins, job>>
    BY <1>3 DEF Admit, vars
  <2>2. UNCHANGED Seen
    BY <2>1 DEF Seen, HereSeen, RefSeen, MembersSeen, AdminsSeen, Without, InMerge, Carried
  <2>3. CarriedOver'
    BY <2>1 DEF MInv, CarriedOver, InMerge, Columns, Carried
  <2> QED BY <2>2, <2>3
<1> QED BY <1>1, <1>2, <1>3 DEF Next

LEMMA PromiseInit == Init => AllAtOnce!Init /\ CarriedOver
<1> SUFFICES ASSUME Init PROVE AllAtOnce!Init /\ CarriedOver
  OBVIOUS
<1>1. TypeOK /\ ~InMerge
  BY InvInit DEF AInv, Init, InMerge, Idle
<1>2. HereSeen = here /\ RefSeen = ref /\ MembersSeen = members /\ AdminsSeen = groupAdmins
  BY <1>1, SeenAsItIs
<1>3. AllAtOnce!Init
  BY <1>2 DEF Init, AllAtOnce!Init, HereSeen, RefSeen, MembersSeen, AdminsSeen
<1> QED BY <1>1, <1>3 DEF CarriedOver

LEMMA MergeInvariant == Spec => []MInv
<1>1. Init => MInv
  BY InvInit, PromiseInit DEF MInv
<1>2. MInv /\ [Next]_vars => MInv'
  <2> SUFFICES ASSUME MInv, [Next]_vars PROVE MInv'
    OBVIOUS
  <2>1. AInv'
    BY InvStep DEF MInv, Handler
  <2> QED BY <2>1, PromiseStep DEF MInv, AInv
<1> QED BY <1>1, <1>2, PTL DEF Spec

\* Whatever is merged, and however much refers to it, a merge that is not cut
\* short looks as if it had happened in one step: the service implements
\* AdminPromise.
THEOREM MergesLookAtomic == Spec => MergesAreAtomic
<1>1. Init => AllAtOnce!Init
  BY PromiseInit
<1>2. MInv /\ MInv' /\ [Next]_vars => [AllAtOnce!Next]_(AllAtOnce!promise)
  <2> SUFFICES ASSUME MInv, MInv', [Next]_vars
               PROVE  [AllAtOnce!Next]_(AllAtOnce!promise)
    OBVIOUS
  <2>1. AllAtOnce!Next \/ UNCHANGED Seen
    BY PromiseStep DEF MInv, AInv
  <2>2. CASE UNCHANGED Seen
    BY <2>2 DEF Seen, HereSeen, RefSeen, MembersSeen, AdminsSeen, AllAtOnce!promise
  <2> QED BY <2>1, <2>2
<1> QED BY <1>1, <1>2, MergeInvariant, PTL DEF Spec, MergesAreAtomic, AllAtOnce!Spec
=============================================================================
