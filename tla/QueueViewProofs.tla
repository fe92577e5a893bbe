---------------------------- MODULE QueueViewProofs ----------------------------
(***************************************************************************)
(* What holds of a run's rows and of the captures pages take of them, for    *)
(* any rows, readers and bounds.                                            *)
(***************************************************************************)
EXTENDS QueueView, FiniteSetTheorems, SequenceTheorems, WellFoundedInduction, TLAPS

-----------------------------------------------------------------------------
(***************************************************************************)
(* Ordered rows.                                                           *)
(***************************************************************************)
\* The rows of a set, each once and in order.
LEMMA InOrderRows ==
  ASSUME NEW S \in SUBSET Nat, IsFiniteSet(S)
  PROVE  /\ InOrder(S) \in Seq(S) /\ ToSet(InOrder(S)) = S
         /\ Ascending(InOrder(S))
  <1> DEFINE n == Cardinality(S)
             upTo(r) == {x \in S : x <= r}
             place == [r \in S |-> PlaceIn(S, r)]
  <1>1. n \in Nat /\ IsFiniteSet(1..n) /\ Cardinality(1..n) = n
    BY FS_CardinalityType, FS_Interval
  <1>2. ASSUME NEW r \in S PROVE IsFiniteSet(upTo(r)) /\ PlaceIn(S, r) \in 1..n
    <2>1. upTo(r) \in SUBSET S /\ r \in upTo(r)
      OBVIOUS
    <2>2. IsFiniteSet(upTo(r)) /\ Cardinality(upTo(r)) <= n /\ Cardinality(upTo(r)) \in Nat
      BY <2>1, FS_Subset, FS_CardinalityType
    <2>3. Cardinality(upTo(r)) # 0
      BY <2>1, <2>2, FS_EmptySet
    <2> QED
      BY <1>1, <2>2, <2>3 DEF PlaceIn
  <1>3. ASSUME NEW q \in S, NEW r \in S, q < r PROVE PlaceIn(S, q) < PlaceIn(S, r)
    <2> q \in Nat /\ r \in Nat
      OBVIOUS
    <2>1. upTo(q) \in SUBSET upTo(r) /\ r \in upTo(r) /\ r \notin upTo(q)
      <3>1. \A x \in S : x <= q => x <= r
        BY <1>3
      <3>2. upTo(q) \subseteq upTo(r)
        BY <3>1
      <3>3. r <= r /\ ~(r <= q)
        BY <1>3
      <3> QED
        BY <3>2, <3>3
    <2>2. IsFiniteSet(upTo(r)) /\ PlaceIn(S, q) \in Nat /\ PlaceIn(S, r) \in Nat
      <3>1. PlaceIn(S, q) \in 1..n /\ PlaceIn(S, r) \in 1..n /\ IsFiniteSet(upTo(r))
        BY <1>2
      <3> QED
        BY <1>1, <3>1
    <2>3. Cardinality(upTo(q)) <= Cardinality(upTo(r))
          /\ Cardinality(upTo(q)) # Cardinality(upTo(r))
      BY <2>1, <2>2, FS_Subset
    <2> QED
      BY <2>2, <2>3 DEF PlaceIn
  <1>4. place \in [S -> 1..n]
    BY <1>2
  <1>5. \A q, r \in S : place[q] = place[r] => q = r
    <2>1. ASSUME NEW q \in S, NEW r \in S, place[q] = place[r] PROVE q = r
      <3>1. q \in Nat /\ r \in Nat /\ PlaceIn(S, q) = PlaceIn(S, r)
        BY <2>1
      <3>2. PlaceIn(S, q) \in Int
        <4>1. PlaceIn(S, q) \in 1..n
          BY <1>2
        <4> HIDE DEF n
        <4> QED
          BY <1>1, <4>1
      <3>3. ~(q < r) /\ ~(r < q)
        BY <1>3, <3>1, <3>2
      <3> QED
        BY <3>1, <3>3
    <2> QED
      BY <2>1
  <1>6. place \in Injection(S, 1..n)
    BY <1>4, <1>5 DEF Injection, IsInjective
  <1>7. place \in Surjection(S, 1..n)
    BY <1>1, <1>6, FS_Injection
  <1>8. \A i \in 1..n : \E r \in S : PlaceIn(S, r) = i
    BY <1>7 DEF Surjection
  <1> DEFINE row(i) == CHOOSE r \in S : PlaceIn(S, r) = i
  <1>9. \A i \in 1..n : row(i) \in S /\ PlaceIn(S, row(i)) = i
    BY <1>8
  <1>10. InOrder(S) = [i \in 1..n |-> row(i)]
    BY DEF InOrder
  <1> HIDE DEF row, place, upTo
  <1>11. InOrder(S) \in Seq(S) /\ DOMAIN InOrder(S) = 1..n
    BY <1>1, <1>9, <1>10, IsASeq
  <1>12. \A r \in S : \E i \in 1..n : row(i) = r
    <2>1. ASSUME NEW r \in S PROVE row(PlaceIn(S, r)) = r
      <3>1. row(PlaceIn(S, r)) \in S /\ PlaceIn(S, row(PlaceIn(S, r))) = PlaceIn(S, r)
        BY <1>2, <1>9
      <3> QED
        BY <1>5, <3>1 DEF place
    <2> QED
      BY <1>2, <2>1
  <1>13. ToSet(InOrder(S)) = S
    <2>1. ToSet(InOrder(S)) = {InOrder(S)[i] : i \in 1..n}
      BY <1>11 DEF ToSet
    <2>2. \A i \in 1..n : InOrder(S)[i] = row(i)
      BY <1>10
    <2>3. \A i \in 1..n : row(i) \in S
      BY <1>9
    <2> HIDE DEF n
    <2>4. ToSet(InOrder(S)) = {row(i) : i \in 1..n}
      BY <2>1, <2>2
    <2> QED
      BY <1>12, <2>3, <2>4
  <1>14. Ascending(InOrder(S))
    <2>1. ASSUME NEW i \in 1..n, NEW j \in 1..n, i < j PROVE row(i) < row(j)
      <3>1. row(i) \in Nat /\ row(j) \in Nat /\ row(i) \in S /\ row(j) \in S
        BY <1>9
      <3>2. ~(row(j) < row(i)) /\ row(i) # row(j)
        BY <1>3, <1>9, <2>1, <3>1
      <3> QED
        BY <3>1, <3>2
    <2> QED
      BY <1>10, <1>11, <2>1 DEF Ascending
  <1> QED
    BY <1>11, <1>13, <1>14

LEMMA LeastNatural ==
  ASSUME NEW T \in SUBSET Nat, T # {}
  PROVE  Min(T) \in T /\ \A y \in T : Min(T) <= y
  <1> DEFINE less == {pair \in Nat \X Nat : pair[1] < pair[2]}
  <1>1. IsWellFoundedOn(less, Nat)
    BY NatLessThanWellFounded, Zenon DEF OpToRel
  <1>2. PICK x \in T : \A y \in T : <<y, x>> \notin less
    BY <1>1, WFMin, Zenon
  <1>3. ASSUME NEW y \in T PROVE x <= y
    <2>1. x \in Nat /\ y \in Nat /\ ~(<<y, x>> \in less)
      BY <1>2
    <2>2. ~(y < x)
      BY <2>1
    <2> QED
      BY <2>1, <2>2
  <1> QED
    BY <1>3 DEF Min

\* The next of the block's rows that is wanted.
LEMMA AdvancePasses ==
  ASSUME lists[block] \in Seq(Admission), NEW start \in 1..(Len(lists[block]) + 1), NEW rows
  PROVE  /\ Advance(start, rows) \in start..(Len(lists[block]) + 1)
         /\ \A i \in start..(Advance(start, rows) - 1) : lists[block][i] \notin rows
  <1> DEFINE n == Len(lists[block])
             wanted == {i \in start..n : lists[block][i] \in rows} \cup {n + 1}
  <1>1. n \in Nat
    OBVIOUS
  <1>2. wanted \in SUBSET Nat /\ wanted # {} /\ wanted \subseteq start..(n + 1)
    BY <1>1
  <1>3. Min(wanted) \in wanted /\ \A y \in wanted : Min(wanted) <= y
    BY <1>2, LeastNatural
  <1>4. Advance(start, rows) = Min(wanted)
    BY DEF Advance
  <1> HIDE DEF wanted
  <1>5. Advance(start, rows) \in start..(n + 1)
    BY <1>2, <1>3, <1>4
  <1>6. ASSUME NEW i \in start..(Advance(start, rows) - 1) PROVE lists[block][i] \notin rows
    <2>1. i \notin wanted
      BY <1>1, <1>3, <1>4, <1>5
    <2> QED
      BY <1>1, <1>5, <2>1 DEF wanted
  <1> QED
    BY <1>5, <1>6

-----------------------------------------------------------------------------
(***************************************************************************)
(* Captures.  A list that a capture took only ever grows past what it took,  *)
(* and a row that still waits is stamped above every capture's generation    *)
(* when it stops: its generation is of the numbering the row is in.         *)
(***************************************************************************)
Known == {r \in Admission : stamps[r].added # 0}
Now == lists[block]
Reached(start, r) == r \in ToSet(loose) \/ \E i \in start..Len(Now) : Now[i] = r

KnownInv ==
  \A r \in Admission \ Known : stamps[r] = Unpublished /\ r \notin off \cup replaced

\* A row of the numbering in force.
Stamped(r) ==
  /\ r \in Known \ replaced
  /\ stamps[r].added <= generation /\ stamps[r].hidden <= generation
  /\ stamps[r].retired <= generation

BlockInv ==
  /\ block = Len(lists)
  /\ Ascending(Now) /\ Ascending(loose) /\ ToSet(Now) \cap ToSet(loose) = {}
  /\ \A r \in ToSet(Now) \cup ToSet(loose) : Stamped(r)
  /\ \A r \in Waiting : Reached(queuedFrom, r)
  /\ \A r \in Waiting \ Hidden : Reached(shownFrom, r)

CountInv == counts = [waiting |-> Cardinality(Waiting), hidden |-> Cardinality(Hidden)]

Taken == [block : Nat, length : Nat, loose : Seq(Admission), queuedFrom : Nat \ {0},
          shownFrom : Nat \ {0}, generation : Nat, waiting : Seq(Admission),
          offered : Seq(Admission)]

\* The rows a capture took, with those it steps over.
RowsOf(c) == {lists[c.block][i] : i \in 1..c.length} \cup ToSet(c.loose)

CaptureInv(c) ==
  /\ c.block \in 1..Len(lists) /\ c.length \in 0..Len(lists[c.block])
  /\ Mergeable(c)
  /\ RowsOf(c) \subseteq Known
  /\ \A r \in RowsOf(c) \cap Waiting : c.generation <= generation
  /\ WalkQueued(c) = c.waiting /\ WalkShown(c) = c.offered

ViewInv ==
  /\ QueueViewTypeOK
  /\ capture \in [Page -> {<<>>} \cup {<<c>> : c \in Taken}]
  /\ KnownInv /\ BlockInv /\ CountInv
  /\ \A p \in Page : capture[p] # <<>> => CaptureInv(capture[p][1])

LEMMA Stretch ==
  ASSUME NEW s \in Seq(Admission), NEW m \in Nat \ {0}, NEW n \in 0..Len(s)
  PROVE  /\ ToSet(SubSeq(s, m, n)) = {s[i] : i \in m..n}
         /\ SubSeq(s, m, n) \in Seq(Admission)
  <1> DEFINE t == SubSeq(s, m, n)
  <1>1. \A i \in m..n : s[i] \in Admission
    OBVIOUS
  <1>2. /\ t \in Seq(Admission) /\ Len(t) = IF m <= n THEN n - m + 1 ELSE 0
        /\ \A i \in 1..(n - m + 1) : t[i] = s[m + i - 1]
    BY <1>1, SubSeqProperties
  <1> HIDE DEF t
  <1>3. DOMAIN t = 1..(n - m + 1)
    BY <1>2
  <1>4. \A i \in m..n : i - m + 1 \in 1..(n - m + 1) /\ s[i] = t[i - m + 1]
    BY <1>2
  <1>5. \A i \in 1..(n - m + 1) : m + i - 1 \in m..n /\ t[i] = s[m + i - 1]
    BY <1>2
  <1>6. {t[i] : i \in 1..(n - m + 1)} = {s[i] : i \in m..n}
    BY <1>4, <1>5
  <1> QED
    BY <1>2, <1>3, <1>6 DEF ToSet, t

\* Rows that stand in a list are of the run.
LEMMA RowsOfList ==
  ASSUME NEW s \in Seq(Admission)
  PROVE  ToSet(s) = {s[i] : i \in 1..Len(s)} /\ ToSet(s) \in SUBSET Admission
  BY DEF ToSet

LEMMA AdmissionsFinite ==
  ASSUME NEW S \in SUBSET Admission
  PROVE  IsFiniteSet(S) /\ S \in SUBSET Nat /\ Cardinality(S) \in Nat
  BY QueueViewAssumption, FS_Subset, FS_CardinalityType

LEMMA OrderedAdmissions ==
  ASSUME NEW S \in SUBSET Admission
  PROVE  InOrder(S) \in Seq(Admission) /\ ToSet(InOrder(S)) = S /\ Ascending(InOrder(S))
  BY AdmissionsFinite, InOrderRows, SeqMonotonic

-----------------------------------------------------------------------------
(***************************************************************************)
(* How the lists change: the block stays, gets a row at its end, or is      *)
(* replaced by a list of its own.                                          *)
(***************************************************************************)
Stays == lists' = lists /\ block' = block
Extends(r) == lists' = [lists EXCEPT ![block] = Append(Now, r)] /\ block' = block
Replaces(rows) ==
  /\ lists' = Append(lists, InOrder(rows)) /\ block' = Len(lists) + 1
  /\ loose' = <<>> /\ queuedFrom' = 1 /\ shownFrom' = 1

\* What a rebuild carries over.
Kept(lse, now) ==
  {r \in ToSet(SubSeq(Now, queuedFrom, Len(Now))) \cup ToSet(lse) : now[r].retired = 0}

LEMMA Settled ==
  ASSUME QueueViewTypeOK, NEW lse \in Seq(Admission), NEW now, Settle(Now, lse, now)
  PROVE  /\ Kept(lse, now) \in SUBSET Admission
         /\ \/ Replaces(Kept(lse, now))
            \/ Stays /\ loose' = lse /\ UNCHANGED <<queuedFrom, shownFrom>>
  <1>1. Now \in Seq(Admission) /\ queuedFrom \in Nat \ {0} /\ block \in DOMAIN lists
    BY DEF QueueViewTypeOK, Now
  <1>2. ToSet(SubSeq(Now, queuedFrom, Len(Now))) \in SUBSET Admission
    BY <1>1, Stretch, RowsOfList
  <1>3. Kept(lse, now) \in SUBSET Admission
    BY <1>2, RowsOfList DEF Kept
  <1>4. [lists EXCEPT ![block] = Now] = lists
    BY <1>1 DEF Now, QueueViewTypeOK
  <1> QED
    BY <1>3, <1>4 DEF Settle, Replaces, Stays, Kept

LEMMA Replaced ==
  ASSUME QueueViewTypeOK, NEW rows \in SUBSET Admission, Replaces(rows)
  PROVE  /\ lists' \in Seq(Seq(Admission)) /\ block' \in DOMAIN lists' /\ Len(lists') = Len(lists) + 1
         /\ \A b \in 1..Len(lists) : lists'[b] = lists[b]
         /\ Now' \in Seq(Admission) /\ ToSet(Now') = rows /\ Ascending(Now')
  <1>1. lists \in Seq(Seq(Admission))
    BY DEF QueueViewTypeOK
  <1>2. InOrder(rows) \in Seq(Admission) /\ ToSet(InOrder(rows)) = rows /\ Ascending(InOrder(rows))
    BY OrderedAdmissions
  <1> HIDE DEF InOrder
  <1>3. /\ lists' \in Seq(Seq(Admission)) /\ Len(lists') = Len(lists) + 1
        /\ \A b \in 1..Len(lists) : lists'[b] = lists[b]
        /\ lists'[Len(lists) + 1] = InOrder(rows)
    BY <1>1, <1>2, AppendProperties DEF Replaces
  <1>4. Now' = InOrder(rows) /\ block' \in DOMAIN lists'
    BY <1>1, <1>3 DEF Now, Replaces
  <1> QED
    BY <1>2, <1>3, <1>4

LEMMA Extended ==
  ASSUME QueueViewTypeOK, NEW r \in Admission, Extends(r)
  PROVE  /\ lists' \in Seq(Seq(Admission)) /\ Len(lists') = Len(lists) /\ block' \in DOMAIN lists'
         /\ \A b \in 1..Len(lists) : b # block => lists'[b] = lists[b]
         /\ Now' = Append(Now, r) /\ Now' \in Seq(Admission) /\ Len(Now') = Len(Now) + 1
         /\ \A i \in 1..Len(Now) : Now'[i] = Now[i]
         /\ Now'[Len(Now) + 1] = r
  <1>1. lists \in Seq(Seq(Admission)) /\ block \in 1..Len(lists) /\ Now \in Seq(Admission)
    BY DEF QueueViewTypeOK, Now
  <1>2. /\ Append(Now, r) \in Seq(Admission) /\ Len(Append(Now, r)) = Len(Now) + 1
        /\ \A i \in 1..Len(Now) : Append(Now, r)[i] = Now[i]
        /\ Append(Now, r)[Len(Now) + 1] = r
    BY <1>1, AppendProperties
  <1>3. /\ lists' \in Seq(Seq(Admission)) /\ Len(lists') = Len(lists)
        /\ \A b \in 1..Len(lists) : lists'[b] = IF b = block THEN Append(Now, r) ELSE lists[b]
    BY <1>1, <1>2, ExceptSeq DEF Extends
  <1>4. Now' = Append(Now, r)
    BY <1>1, <1>3 DEF Now, Extends
  <1>5. block' \in DOMAIN lists'
    BY <1>1, <1>3 DEF Extends
  <1> QED
    BY <1>2, <1>3, <1>4, <1>5

\* An addition puts its row at the block's end or beside the block.
LEMMA AddSettles ==
  ASSUME QueueViewTypeOK, NEW r \in Admission, Add(r)
  PROVE  \/ /\ Extends(r) /\ UNCHANGED <<loose, queuedFrom, shownFrom>>
            /\ Now = <<>> \/ Last(Now) <= r
         \/ \E lse : /\ lse = InOrder(ToSet(loose) \cup {r})
                     /\ Kept(lse, stamps') \in SUBSET Admission
                     /\ \/ Replaces(Kept(lse, stamps'))
                        \/ Stays /\ loose' = lse /\ UNCHANGED <<queuedFrom, shownFrom>>
  <1> DEFINE lse == InOrder(ToSet(loose) \cup {r})
  <1>1. Now \in Seq(Admission) /\ loose \in Seq(Admission)
    BY DEF QueueViewTypeOK, Now
  <1>2. lse \in Seq(Admission)
    BY <1>1, RowsOfList, OrderedAdmissions
  <1> HIDE DEF lse
  <1>3. CASE Now # <<>> /\ r < Last(Now)
    <2>1. Settle(Now, lse, stamps')
      BY <1>3 DEF Add, Now, lse
    <2> QED
      BY <1>2, <2>1, Settled DEF lse
  <1>4. CASE ~(Now # <<>> /\ r < Last(Now))
    <2>1. Extends(r) /\ UNCHANGED <<loose, queuedFrom, shownFrom>>
      BY <1>4 DEF Add, Now, Extends
    <2>2. Now # <<>> => Last(Now) \in Nat /\ r \in Nat
      <3>1. ASSUME Now # <<>> PROVE Now[Len(Now)] \in Admission
        BY <1>1, <3>1, EmptySeq, ElementOfSeq
      <3> QED
        BY <3>1, QueueViewAssumption DEF Last
    <2> QED
      BY <1>4, <2>1, <2>2
  <1> QED
    BY <1>3, <1>4

LEMMA DropSettles ==
  ASSUME QueueViewTypeOK, NEW r \in Admission, DropRow(r)
  PROVE  \/ counts'.waiting = 0 /\ Replaces({}) /\ generation' = 0
         \/ /\ counts'.waiting # 0 /\ generation' = generation + 1
            /\ Kept(loose, stamps') \in SUBSET Admission
            /\ \/ Replaces(Kept(loose, stamps'))
               \/ Stays /\ UNCHANGED <<loose, queuedFrom, shownFrom>>
  <1>1. CASE counts'.waiting = 0
    BY <1>1, FS_EmptySet DEF DropRow, NewRows, Replaces
  <1>2. CASE counts'.waiting # 0
    <2>1. Settle(Now, loose, stamps') /\ generation' = generation + 1 /\ loose \in Seq(Admission)
      BY <1>2 DEF DropRow, Now, QueueViewTypeOK
    <2> QED
      BY <1>2, <2>1, Settled
  <1> QED
    BY <1>1, <1>2

LEMMA RelistReplaces ==
  ASSUME QueueViewTypeOK, NEW rows \in SUBSET Admission, Relist(rows)
  PROVE  Replaces(rows) /\ generation' = Cardinality(rows) /\ Cardinality(rows) \in Nat
  BY AdmissionsFinite DEF Relist, NewRows, Replaces

LEMMA PlacesInRange ==
  ASSUME NEW rows \in SUBSET Admission, NEW r \in rows
  PROVE  PlaceIn(rows, r) \in 1..Cardinality(rows)
  <1> DEFINE upTo == {x \in rows : x <= r}
  <1>1. upTo \in SUBSET rows /\ r \in upTo
    BY AdmissionsFinite
  <1>2. IsFiniteSet(rows) /\ Cardinality(rows) \in Nat
    BY AdmissionsFinite
  <1>3. /\ IsFiniteSet(upTo) /\ Cardinality(upTo) <= Cardinality(rows)
        /\ Cardinality(upTo) \in Nat
    BY <1>1, <1>2, FS_Subset, FS_CardinalityType
  <1>4. Cardinality(upTo) # 0
    BY <1>1, <1>3, FS_EmptySet
  <1> QED
    BY <1>2, <1>3, <1>4 DEF PlaceIn

\* Where a rebuild or a step leaves the block, its rows and its marks are typed.
LEMMA ListTyped ==
  ASSUME QueueViewTypeOK,
         \/ \E rows \in SUBSET Admission : Replaces(rows)
         \/ Stays /\ loose' \in Seq(Admission) /\ UNCHANGED <<queuedFrom, shownFrom>>
         \/ \E r \in Admission : Extends(r) /\ UNCHANGED <<loose, queuedFrom, shownFrom>>
  PROVE  /\ lists' \in Seq(Seq(Admission)) /\ block' \in DOMAIN lists' /\ loose' \in Seq(Admission)
         /\ queuedFrom' \in 1..(Len(Now') + 1) /\ shownFrom' \in 1..(Len(Now') + 1)
  <1>1. Now \in Seq(Admission)
    BY DEF QueueViewTypeOK, Now
  <1>2. ASSUME NEW rows \in SUBSET Admission, Replaces(rows)
        PROVE  /\ lists' \in Seq(Seq(Admission)) /\ block' \in DOMAIN lists'
               /\ loose' \in Seq(Admission)
               /\ queuedFrom' \in 1..(Len(Now') + 1) /\ shownFrom' \in 1..(Len(Now') + 1)
    <2>1. Now' \in Seq(Admission) /\ lists' \in Seq(Seq(Admission)) /\ block' \in DOMAIN lists'
      BY <1>2, Replaced
    <2>2. Len(Now') \in Nat
      BY <2>1, LenProperties
    <2> QED
      BY <1>2, <2>1, <2>2, EmptySeq DEF Replaces
  <1>3. CASE Stays /\ loose' \in Seq(Admission) /\ UNCHANGED <<queuedFrom, shownFrom>>
    BY <1>3 DEF QueueViewTypeOK, Stays, Now
  <1>4. ASSUME NEW r \in Admission, Extends(r), UNCHANGED <<loose, queuedFrom, shownFrom>>
        PROVE  /\ lists' \in Seq(Seq(Admission)) /\ block' \in DOMAIN lists'
               /\ loose' \in Seq(Admission)
               /\ queuedFrom' \in 1..(Len(Now') + 1) /\ shownFrom' \in 1..(Len(Now') + 1)
    <2>1. /\ lists' \in Seq(Seq(Admission)) /\ block' \in DOMAIN lists'
          /\ Len(Now') = Len(Now) + 1
      BY <1>4, Extended
    <2>2. Len(Now) \in Nat /\ queuedFrom \in 1..(Len(Now) + 1) /\ shownFrom \in 1..(Len(Now) + 1)
      BY <1>1 DEF QueueViewTypeOK, Now
    <2>3. 1..(Len(Now) + 1) \subseteq 1..(Len(Now') + 1)
      BY <2>1, <2>2
    <2> QED
      BY <1>4, <2>1, <2>2, <2>3 DEF QueueViewTypeOK
  <1> QED
    BY <1>2, <1>3, <1>4

LEMMA ViewTyped ==
  ASSUME QueueViewTypeOK, QueueViewNext
  PROVE  QueueViewTypeOK'
  <1>1. ASSUME NEW r \in Admission, Add(r) PROVE QueueViewTypeOK'
    <2>1. /\ stamps' \in [Admission -> [added : Nat, hidden : Nat, retired : Nat]]
          /\ off' \in SUBSET Admission /\ replaced' \in SUBSET Admission /\ generation' \in Nat
      <3>1. stamps' = [stamps EXCEPT ![r].added = generation + 1] /\ generation' = generation + 1
        BY <1>1 DEF Add
      <3>2. generation + 1 \in Nat
        BY DEF QueueViewTypeOK
      <3>3. off' \in SUBSET Admission /\ replaced' \in SUBSET Admission
        BY <1>1 DEF Add, QueueViewTypeOK
      <3> QED
        BY <3>1, <3>2, <3>3 DEF QueueViewTypeOK
    <2>2. InOrder(ToSet(loose) \cup {r}) \in Seq(Admission)
      BY RowsOfList, OrderedAdmissions DEF QueueViewTypeOK
    <2>3. /\ lists' \in Seq(Seq(Admission)) /\ block' \in DOMAIN lists' /\ loose' \in Seq(Admission)
          /\ queuedFrom' \in 1..(Len(Now') + 1) /\ shownFrom' \in 1..(Len(Now') + 1)
      BY <1>1, <2>2, AddSettles, ListTyped
    <2> QED
      BY <2>1, <2>3 DEF QueueViewTypeOK, Now
  <1>2. ASSUME NEW r \in Admission, DropRow(r) PROVE QueueViewTypeOK'
    <2>1. generation' \in Nat
      <3>1. generation \in Nat
        BY DEF QueueViewTypeOK
      <3>2. generation' = 0 \/ generation' = generation + 1
        BY <1>2, DropSettles
      <3> QED
        BY <3>1, <3>2
    <2>2. /\ stamps' \in [Admission -> [added : Nat, hidden : Nat, retired : Nat]]
          /\ off' \in SUBSET Admission /\ replaced' \in SUBSET Admission
      <3>1. stamps' = [stamps EXCEPT ![r].retired = generation + 1]
        BY <1>2 DEF DropRow
      <3>2. generation + 1 \in Nat
        BY DEF QueueViewTypeOK
      <3>3. off' \in SUBSET Admission /\ replaced' \in SUBSET Admission
        BY <1>2 DEF DropRow, QueueViewTypeOK
      <3> QED
        BY <3>1, <3>2, <3>3 DEF QueueViewTypeOK
    <2>3. /\ lists' \in Seq(Seq(Admission)) /\ block' \in DOMAIN lists' /\ loose' \in Seq(Admission)
          /\ queuedFrom' \in 1..(Len(Now') + 1) /\ shownFrom' \in 1..(Len(Now') + 1)
      <3>1. loose \in Seq(Admission) /\ {} \in SUBSET Admission
        BY DEF QueueViewTypeOK
      <3> QED
        BY <1>2, <3>1, DropSettles, ListTyped
    <2> QED
      BY <2>1, <2>2, <2>3 DEF QueueViewTypeOK, Now
  <1>3. ASSUME NEW rows \in SUBSET Admission, Relist(rows) PROVE QueueViewTypeOK'
    <2>1. \A r \in rows : PlaceIn(rows, r) \in Nat
      BY PlacesInRange, AdmissionsFinite
    <2>2. stamps' \in [Admission -> [added : Nat, hidden : Nat, retired : Nat]]
      BY <1>3, <2>1 DEF Relist, QueueViewTypeOK, Unpublished
    <2>3. off' \in SUBSET Admission /\ replaced' \in SUBSET Admission
      BY <1>3 DEF Relist, QueueViewTypeOK, kSubset, Waiting
    <2>4. Replaces(rows) /\ generation' \in Nat
      BY <1>3, RelistReplaces
    <2>5. /\ lists' \in Seq(Seq(Admission)) /\ block' \in DOMAIN lists' /\ loose' \in Seq(Admission)
          /\ queuedFrom' \in 1..(Len(Now') + 1) /\ shownFrom' \in 1..(Len(Now') + 1)
      BY <2>4, ListTyped
    <2> QED
      BY <2>2, <2>3, <2>4, <2>5 DEF QueueViewTypeOK, Now
  <1>4. ASSUME NEW r \in Admission, Hide(r) PROVE QueueViewTypeOK'
    <2>1. /\ stamps' = [stamps EXCEPT ![r].hidden = generation + 1]
          /\ generation' = generation + 1 /\ generation + 1 \in Nat
      BY <1>4 DEF Hide, QueueViewTypeOK
    <2>2. UNCHANGED <<off, replaced, lists, block, loose, queuedFrom, shownFrom>>
      BY <1>4 DEF Hide
    <2> QED
      BY <2>1, <2>2 DEF QueueViewTypeOK
  <1>5. ASSUME NEW p \in Page, Capture(p) PROVE QueueViewTypeOK'
    <2>1. /\ queuedFrom' \in queuedFrom..(Len(Now) + 1)
          /\ shownFrom' \in shownFrom..(Len(Now) + 1)
      <3>1. /\ lists[block] \in Seq(Admission) /\ queuedFrom \in 1..(Len(lists[block]) + 1)
            /\ shownFrom \in 1..(Len(lists[block]) + 1)
        BY DEF QueueViewTypeOK
      <3>2. \A rows : /\ Advance(queuedFrom, rows) \in queuedFrom..(Len(lists[block]) + 1)
                     /\ Advance(shownFrom, rows) \in shownFrom..(Len(lists[block]) + 1)
        BY <3>1, AdvancePasses
      <3> QED
        BY <1>5, <3>2 DEF Capture, Now
    <2>2. Now \in Seq(Admission)
      BY DEF QueueViewTypeOK, Now
    <2>3. queuedFrom' \in 1..(Len(Now) + 1) /\ shownFrom' \in 1..(Len(Now) + 1)
      BY <2>1, <2>2 DEF QueueViewTypeOK
    <2> QED
      BY <1>5, <2>3 DEF Capture, QueueViewTypeOK, Now
  <1>6. ASSUME NEW p \in Page, Release(p) PROVE QueueViewTypeOK'
    BY <1>6 DEF Release, QueueViewTypeOK
  <1> QED
    BY <1>1, <1>2, <1>3, <1>4, <1>5, <1>6 DEF QueueViewNext

-----------------------------------------------------------------------------
(***************************************************************************)
(* What each step does to the rows that wait.                               *)
(***************************************************************************)
LEMMA WaitersStamped ==
  ASSUME QueueViewTypeOK, BlockInv, NEW r \in Waiting
  PROVE  /\ Stamped(r) /\ stamps[r] \in [added : Nat, hidden : Nat, retired : Nat]
         /\ stamps[r].added # 0 /\ stamps[r].retired = 0 /\ r \in Admission \ replaced
         /\ (r \in Hidden <=> (r \in off \/ stamps[r].hidden # 0))
  <1>1. /\ r \in Admission \ replaced /\ stamps[r].added # 0 /\ stamps[r].retired = 0
        /\ stamps[r] \in [added : Nat, hidden : Nat, retired : Nat]
    BY DEF Waiting, QueueViewTypeOK
  <1>2. Now \in Seq(Admission) /\ queuedFrom \in Nat \ {0}
    BY DEF QueueViewTypeOK, Now
  <1>3. r \in ToSet(Now) \cup ToSet(loose)
    <2>1. ASSUME NEW i \in queuedFrom..Len(Now), Now[i] = r PROVE r \in ToSet(Now)
      BY <1>2, <2>1, RowsOfList
    <2> QED
      BY <2>1 DEF BlockInv, Reached
  <1>4. Stamped(r)
    BY <1>3 DEF BlockInv
  <1>5. r \in Hidden <=> (r \in off \/ stamps[r].hidden # 0)
    BY <1>4 DEF Hidden, SkippedAt, Stamped
  <1> QED
    BY <1>1, <1>4, <1>5

LEMMA AddMoves ==
  ASSUME QueueViewTypeOK, KnownInv, BlockInv, NEW r \in Admission, Add(r)
  PROVE  /\ r \notin Known /\ r \notin Waiting /\ Known' = Known \cup {r} /\ Waiting' = Waiting \cup {r}
         /\ generation' = generation + 1 /\ replaced' = replaced
         /\ \A q \in Admission \ {r} : stamps'[q] = stamps[q] /\ (q \in off' <=> q \in off)
         /\ stamps'[r] = [added |-> generation + 1, hidden |-> 0, retired |-> 0]
         /\ r \notin replaced
         /\ Hidden' = IF r \in off' THEN Hidden \cup {r} ELSE Hidden
  <1>1. stamps[r] = Unpublished /\ stamps \in [Admission -> [added : Nat, hidden : Nat, retired : Nat]]
        /\ generation \in Nat
    BY DEF Add, QueueViewTypeOK
  <1>2. r \notin Known /\ r \notin Waiting /\ r \notin replaced /\ r \notin off
    BY <1>1 DEF Known, KnownInv, Waiting, Unpublished
  <1>3. /\ generation' = generation + 1 /\ replaced' = replaced
        /\ \A q \in Admission \ {r} : stamps'[q] = stamps[q] /\ (q \in off' <=> q \in off)
    BY <1>1 DEF Add
  <1>4. stamps'[r] = [added |-> generation + 1, hidden |-> 0, retired |-> 0]
    BY <1>1 DEF Add, Unpublished
  <1>5. Known' = Known \cup {r}
    BY <1>1, <1>3, <1>4 DEF Known
  <1>6. Waiting' = Waiting \cup {r}
    BY <1>1, <1>2, <1>3, <1>4 DEF Waiting
  <1>7. \A q \in Waiting : SkippedAt(q, generation)' <=> q \in Hidden
    <2>1. ASSUME NEW q \in Waiting PROVE SkippedAt(q, generation)' <=> q \in Hidden
      <3>1. /\ stamps[q].hidden <= generation /\ stamps[q].hidden \in Nat /\ q \in Admission
            /\ (q \in Hidden <=> (q \in off \/ stamps[q].hidden # 0))
        BY WaitersStamped DEF Stamped
      <3>2. stamps'[q] = stamps[q] /\ (q \in off' <=> q \in off) /\ generation' = generation + 1
        BY <1>2, <1>3, <3>1
      <3> QED
        BY <1>1, <3>1, <3>2 DEF SkippedAt
    <2> QED
      BY <2>1
  <1>8. SkippedAt(r, generation)' <=> r \in off'
    BY <1>4 DEF SkippedAt
  <1>9. Hidden \subseteq Waiting /\ Hidden' = {q \in Waiting' : SkippedAt(q, generation)'}
    BY DEF Hidden
  <1>10. Hidden' = IF r \in off' THEN Hidden \cup {r} ELSE Hidden
    BY <1>2, <1>6, <1>7, <1>8, <1>9
  <1> QED
    BY <1>2, <1>3, <1>4, <1>5, <1>6, <1>10

LEMMA DropMoves ==
  ASSUME QueueViewTypeOK, KnownInv, BlockInv, CountInv, NEW r \in Admission, DropRow(r)
  PROVE  /\ r \in Waiting /\ Known' = Known /\ Waiting' = Waiting \ {r} /\ Hidden' = Hidden \ {r}
         /\ replaced' = replaced /\ off' = off
         /\ \A q \in Admission \ {r} : stamps'[q] = stamps[q]
         /\ stamps'[r] = [stamps[r] EXCEPT !.retired = generation + 1]
         /\ (SkippedAt(r, generation + 1) <=> r \in Hidden)
         /\ \/ generation' = generation + 1 /\ counts'.waiting # 0
            \/ generation' = 0 /\ counts'.waiting = 0 /\ Waiting' = {}
  <1>1. /\ r \in Waiting /\ stamps \in [Admission -> [added : Nat, hidden : Nat, retired : Nat]]
        /\ generation \in Nat /\ replaced' = replaced /\ off' = off
        /\ stamps' = [stamps EXCEPT ![r].retired = generation + 1]
        /\ counts'.waiting = counts.waiting - 1
    BY DEF DropRow, QueueViewTypeOK
  <1>2. /\ \A q \in Admission \ {r} : stamps'[q] = stamps[q]
        /\ stamps'[r] = [stamps[r] EXCEPT !.retired = generation + 1]
        /\ stamps'[r].retired = generation + 1 /\ stamps'[r].added = stamps[r].added
    BY <1>1
  <1>3. Known' = Known
    BY <1>2 DEF Known
  <1>4. Waiting' = Waiting \ {r}
    BY <1>1, <1>2 DEF Waiting
  <1>5. SkippedAt(r, generation + 1) <=> r \in Hidden
    <2>1. /\ stamps[r].hidden <= generation /\ stamps[r].hidden \in Nat
          /\ (r \in Hidden <=> (r \in off \/ stamps[r].hidden # 0))
      BY <1>1, WaitersStamped DEF Stamped
    <2> QED
      BY <1>1, <2>1 DEF SkippedAt
  <1>6. \/ generation' = generation + 1 /\ counts'.waiting # 0
        \/ generation' = 0 /\ counts'.waiting = 0 /\ Waiting' = {}
    <2>1. ASSUME counts'.waiting = 0 PROVE Waiting' = {}
      <3>1. IsFiniteSet(Waiting) /\ Cardinality(Waiting) \in Nat
        BY AdmissionsFinite DEF Waiting
      <3>2. Cardinality(Waiting) = 1
        BY <1>1, <2>1, <3>1 DEF CountInv
      <3> QED
        BY <1>1, <1>4, <3>1, <3>2, FS_Singleton
    <2> QED
      BY <2>1, DropSettles
  <1>7. \A q \in Waiting' : SkippedAt(q, generation)' <=> q \in Hidden
    <2>1. ASSUME NEW q \in Waiting' PROVE SkippedAt(q, generation)' <=> q \in Hidden
      <3>1. q \in Waiting /\ q # r /\ generation' = generation + 1
        BY <1>4, <1>6
      <3>2. /\ stamps[q].hidden <= generation /\ stamps[q].hidden \in Nat /\ q \in Admission
            /\ (q \in Hidden <=> (q \in off \/ stamps[q].hidden # 0))
        BY <3>1, WaitersStamped DEF Stamped
      <3>3. stamps'[q] = stamps[q] /\ off' = off
        BY <1>1, <1>2, <3>1, <3>2
      <3> QED
        BY <1>1, <3>1, <3>2, <3>3 DEF SkippedAt
    <2> QED
      BY <2>1
  <1>8. Hidden \subseteq Waiting /\ Hidden' = {q \in Waiting' : SkippedAt(q, generation)'}
    BY DEF Hidden
  <1>9. Hidden' = Hidden \ {r}
    BY <1>4, <1>7, <1>8
  <1> QED
    BY <1>1, <1>2, <1>3, <1>4, <1>5, <1>6, <1>9

LEMMA RelistMoves ==
  ASSUME QueueViewTypeOK, KnownInv, BlockInv, CountInv, NEW rows \in SUBSET Admission, Relist(rows)
  PROVE  /\ rows \cap Known = {} /\ Known' = Known \cup rows /\ Waiting' = rows
         /\ \A q \in Admission \ rows : stamps'[q] = stamps[q] /\ (q \in off' <=> q \in off)
         /\ \A q \in rows : /\ stamps'[q].added \in 1..Cardinality(rows) /\ stamps'[q].hidden = 0
                            /\ stamps'[q].retired = 0 /\ q \notin replaced'
         /\ generation' = Cardinality(rows) /\ generation' \in Nat
         /\ Cardinality(Waiting') = Cardinality(Waiting)
         /\ Cardinality(Hidden') = Cardinality(Hidden)
  <1>1. /\ \A q \in rows : stamps[q] = Unpublished
        /\ replaced' = replaced \cup Waiting /\ Cardinality(rows) = Cardinality(Waiting)
        /\ stamps' = [q \in Admission |-> IF q \in rows
                         THEN [Unpublished EXCEPT !.added = PlaceIn(rows, q)] ELSE stamps[q]]
    BY DEF Relist
  <1>2. PICK gone \in kSubset(counts.hidden, rows) : off' = off \cup gone
    BY DEF Relist
  <1>3. gone \in SUBSET rows /\ Cardinality(gone) = Cardinality(Hidden)
    BY <1>2 DEF kSubset, CountInv
  <1>4. rows \cap Known = {}
    BY <1>1 DEF Known, Unpublished
  <1>5. \A q \in rows : q \notin off /\ q \notin replaced /\ q \notin Waiting
    BY <1>1, <1>4 DEF KnownInv, Waiting, Unpublished
  <1>6. \A q \in Admission \ rows : stamps'[q] = stamps[q] /\ (q \in off' <=> q \in off)
    BY <1>1, <1>2, <1>3
  <1>7. \A q \in rows : /\ stamps'[q].added \in 1..Cardinality(rows) /\ stamps'[q].hidden = 0
                       /\ stamps'[q].retired = 0 /\ q \notin replaced'
    <2>1. ASSUME NEW q \in rows
          PROVE  /\ stamps'[q].added \in 1..Cardinality(rows) /\ stamps'[q].hidden = 0
                 /\ stamps'[q].retired = 0
      <3>1. PlaceIn(rows, q) \in 1..Cardinality(rows)
        BY PlacesInRange
      <3>2. stamps'[q] = [added |-> PlaceIn(rows, q), hidden |-> 0, retired |-> 0]
        BY <1>1 DEF Unpublished
      <3> QED
        BY <3>1, <3>2
    <2> QED
      BY <1>1, <1>5, <2>1
  <1>8. generation' = Cardinality(rows) /\ Cardinality(rows) \in Nat
    BY RelistReplaces
  <1>9. \A q \in rows : stamps'[q].added # 0
    BY <1>7, <1>8
  <1>10. Known' = Known \cup rows
    BY <1>6, <1>9 DEF Known
  <1>11. Waiting' = rows
    <2>1. \A q \in rows : q \in Waiting'
      BY <1>7, <1>9 DEF Waiting
    <2>2. ASSUME NEW q \in Waiting' PROVE q \in rows
      <3>1. SUFFICES ASSUME q \notin rows PROVE FALSE
        OBVIOUS
      <3>2. q \in Admission /\ q \notin replaced' /\ stamps'[q].added # 0 /\ stamps'[q].retired = 0
        BY DEF Waiting
      <3>3. stamps'[q] = stamps[q]
        BY <1>6, <3>1, <3>2
      <3> QED
        BY <1>1, <3>2, <3>3 DEF Waiting
    <2> QED
      BY <2>1, <2>2
  <1>12. Hidden' = gone
    <2>1. \A q \in rows : SkippedAt(q, generation)' <=> q \in gone
      BY <1>2, <1>5, <1>7 DEF SkippedAt
    <2> QED
      BY <1>3, <1>11, <2>1 DEF Hidden
  <1> QED
    BY <1>1, <1>3, <1>4, <1>6, <1>7, <1>8, <1>10, <1>11, <1>12

LEMMA HideMoves ==
  ASSUME QueueViewTypeOK, KnownInv, BlockInv, NEW r \in Admission, Hide(r)
  PROVE  /\ r \in Waiting /\ r \notin Hidden /\ Known' = Known /\ Waiting' = Waiting
         /\ Hidden' = Hidden \cup {r} /\ replaced' = replaced /\ off' = off
         /\ generation' = generation + 1
         /\ \A q \in Admission \ {r} : stamps'[q] = stamps[q]
         /\ stamps'[r] = [stamps[r] EXCEPT !.hidden = generation + 1]
  <1>1. /\ r \in Waiting /\ ~SkippedAt(r, generation)
        /\ stamps \in [Admission -> [added : Nat, hidden : Nat, retired : Nat]]
        /\ generation \in Nat /\ replaced' = replaced /\ off' = off
        /\ generation' = generation + 1
        /\ stamps' = [stamps EXCEPT ![r].hidden = generation + 1]
    BY DEF Hide, QueueViewTypeOK
  <1>2. /\ \A q \in Admission \ {r} : stamps'[q] = stamps[q]
        /\ stamps'[r] = [stamps[r] EXCEPT !.hidden = generation + 1]
        /\ stamps'[r].retired = stamps[r].retired /\ stamps'[r].added = stamps[r].added
        /\ stamps'[r].hidden = generation + 1
    BY <1>1
  <1>3. r \notin Hidden
    BY <1>1 DEF Hidden
  <1>4. Known' = Known /\ Waiting' = Waiting
    BY <1>1, <1>2 DEF Known, Waiting
  <1>5. \A q \in Waiting \ {r} : SkippedAt(q, generation)' <=> q \in Hidden
    <2>1. ASSUME NEW q \in Waiting \ {r} PROVE SkippedAt(q, generation)' <=> q \in Hidden
      <3>1. /\ stamps[q].hidden <= generation /\ stamps[q].hidden \in Nat /\ q \in Admission
            /\ (q \in Hidden <=> (q \in off \/ stamps[q].hidden # 0))
        BY WaitersStamped DEF Stamped
      <3>2. stamps'[q] = stamps[q]
        BY <1>2, <3>1
      <3> QED
        BY <1>1, <3>1, <3>2 DEF SkippedAt
    <2> QED
      BY <2>1
  <1>6. SkippedAt(r, generation)'
    BY <1>1, <1>2 DEF SkippedAt
  <1>7. Hidden \subseteq Waiting /\ Hidden' = {q \in Waiting' : SkippedAt(q, generation)'}
    BY DEF Hidden
  <1>8. Hidden' = Hidden \cup {r}
    BY <1>1, <1>4, <1>5, <1>6, <1>7
  <1> QED
    BY <1>1, <1>2, <1>3, <1>4, <1>8

\* A row that is published is never published again, keeps whether it was off its
\* run, and what else is stamped on it comes after every capture that has it.
Moved(r) ==
  /\ stamps'[r].added = stamps[r].added /\ (r \in off' <=> r \in off)
  /\ r \in Waiting =>
       /\ stamps'[r].retired = stamps[r].retired \/ stamps'[r].retired > generation
       /\ \/ stamps'[r].hidden = stamps[r].hidden
          \/ stamps[r].hidden = 0 /\ stamps'[r].hidden > generation
  /\ r \notin Waiting => stamps'[r] = stamps[r] /\ r \notin Waiting'
  /\ r \in Waiting' => generation' >= generation

LEMMA RowsMove ==
  ASSUME QueueViewTypeOK, KnownInv, BlockInv, CountInv, QueueViewNext, NEW q \in Known
  PROVE  q \in Known' /\ Moved(q)
  <1>1. generation \in Nat /\ q \in Admission
    BY DEF QueueViewTypeOK, Known
  <1>2. ASSUME NEW r \in Admission, Add(r) PROVE q \in Known' /\ Moved(q)
    BY <1>1, <1>2, AddMoves DEF Moved
  <1>3. ASSUME NEW r \in Admission, DropRow(r) PROVE q \in Known' /\ Moved(q)
    <2>1. CASE q = r
      <3>1. /\ r \in Waiting /\ r \notin Waiting' /\ Known' = Known /\ off' = off
            /\ stamps'[r] = [stamps[r] EXCEPT !.retired = generation + 1]
        BY <1>3, DropMoves
      <3>2. /\ stamps'[r].retired = generation + 1 /\ stamps'[r].added = stamps[r].added
            /\ stamps'[r].hidden = stamps[r].hidden
        BY <3>1, WaitersStamped
      <3> QED
        BY <1>1, <2>1, <3>1, <3>2 DEF Moved
    <2>2. CASE q # r
      <3>1. /\ Known' = Known /\ off' = off /\ stamps'[q] = stamps[q] /\ Waiting' = Waiting \ {r}
            /\ generation' = generation + 1 \/ Waiting' = {}
        BY <1>1, <1>3, <2>2, DropMoves
      <3> QED
        BY <1>1, <3>1 DEF Moved
    <2> QED
      BY <2>1, <2>2
  <1>4. ASSUME NEW rows \in SUBSET Admission, Relist(rows) PROVE q \in Known' /\ Moved(q)
    <2>1. /\ q \notin rows /\ Known' = Known \cup rows /\ Waiting' = rows
          /\ stamps'[q] = stamps[q] /\ (q \in off' <=> q \in off)
      BY <1>1, <1>4, RelistMoves
    <2> QED
      BY <2>1 DEF Moved
  <1>5. ASSUME NEW r \in Admission, Hide(r) PROVE q \in Known' /\ Moved(q)
    <2>1. CASE q = r
      <3>1. /\ r \in Waiting /\ r \notin Hidden /\ Known' = Known /\ off' = off /\ generation' = generation + 1
            /\ stamps'[r] = [stamps[r] EXCEPT !.hidden = generation + 1]
        BY <1>5, HideMoves
      <3>2. /\ stamps'[r].hidden = generation + 1 /\ stamps'[r].added = stamps[r].added
            /\ stamps'[r].retired = stamps[r].retired /\ stamps[r].hidden = 0
        BY <3>1, WaitersStamped
      <3> QED
        BY <1>1, <2>1, <3>1, <3>2 DEF Moved
    <2>2. CASE q # r
      <3>1. /\ Known' = Known /\ off' = off /\ stamps'[q] = stamps[q] /\ Waiting' = Waiting
            /\ generation' = generation + 1
        BY <1>1, <1>5, <2>2, HideMoves
      <3> QED
        BY <1>1, <3>1 DEF Moved
    <2> QED
      BY <2>1, <2>2
  <1>6. ASSUME NEW p \in Page, Capture(p) \/ Release(p) PROVE q \in Known' /\ Moved(q)
    <2>1. UNCHANGED <<stamps, off, replaced, generation>>
      BY <1>6 DEF Capture, Release
    <2> QED
      BY <1>1, <2>1 DEF Moved, Known, Waiting
  <1> QED
    BY <1>2, <1>3, <1>4, <1>5, <1>6 DEF QueueViewNext

-----------------------------------------------------------------------------
(***************************************************************************)
(* What a reader has in hand.                                              *)
(***************************************************************************)
\* A list that was ever the block only ever grows at its end.
LEMMA ListsGrow ==
  ASSUME QueueViewTypeOK, QueueViewNext, NEW b \in 1..Len(lists)
  PROVE  /\ b \in 1..Len(lists') /\ Len(lists'[b]) >= Len(lists[b])
         /\ \A i \in 1..Len(lists[b]) : lists'[b][i] = lists[b][i]
  <1>1. /\ lists \in Seq(Seq(Admission)) /\ lists[b] \in Seq(Admission) /\ Len(lists[b]) \in Nat
        /\ Len(lists) \in Nat
    BY DEF QueueViewTypeOK
  <1> DEFINE grown == /\ b \in 1..Len(lists') /\ Len(lists'[b]) >= Len(lists[b])
                      /\ \A i \in 1..Len(lists[b]) : lists'[b][i] = lists[b][i]
  <1>2. ASSUME lists' = lists PROVE grown
    BY <1>1, <1>2
  <1>3. ASSUME NEW rows \in SUBSET Admission, Replaces(rows) PROVE grown
    <2>1. Len(lists') = Len(lists) + 1 /\ lists'[b] = lists[b]
      BY <1>3, Replaced
    <2> QED
      BY <1>1, <2>1
  <1>4. ASSUME NEW r \in Admission, Extends(r) PROVE grown
    <2>1. /\ Len(lists') = Len(lists) /\ (b # block => lists'[b] = lists[b])
          /\ Len(Now') = Len(Now) + 1 /\ \A i \in 1..Len(Now) : Now'[i] = Now[i]
      BY <1>4, Extended
    <2>2. CASE b = block
      <3>1. Now = lists[b] /\ Now' = lists'[b]
        BY <1>4, <2>2 DEF Now, Extends
      <3> QED
        BY <1>1, <2>1, <3>1
    <2>3. CASE b # block
      BY <1>1, <2>1, <2>3
    <2> QED
      BY <2>2, <2>3
  <1> HIDE DEF grown
  <1>5. ASSUME NEW r \in Admission, Add(r) PROVE grown
    BY <1>2, <1>3, <1>4, <1>5, AddSettles DEF Stays
  <1>6. ASSUME NEW r \in Admission, DropRow(r) PROVE grown
    <2>1. \/ \E rows \in SUBSET Admission : Replaces(rows)
          \/ Stays
      BY <1>6, DropSettles
    <2> QED
      BY <1>2, <1>3, <2>1 DEF Stays
  <1>7. ASSUME NEW rows \in SUBSET Admission, Relist(rows) PROVE grown
    BY <1>3, <1>7, RelistReplaces
  <1>8. ASSUME NEW r \in Admission, Hide(r) PROVE grown
    BY <1>2, <1>8 DEF Hide
  <1>9. ASSUME NEW p \in Page, Capture(p) \/ Release(p) PROVE grown
    BY <1>2, <1>9 DEF Capture, Release
  <1> QED
    BY <1>5, <1>6, <1>7, <1>8, <1>9 DEF QueueViewNext, grown

\* What a walk steps through, from where the capture says.
LEMMA WalkedRows ==
  ASSUME QueueViewTypeOK, NEW c \in Taken, c.block \in 1..Len(lists),
         c.length \in 0..Len(lists[c.block]), NEW start \in Nat \ {0}
  PROVE  /\ Walked(c, start) = {lists[c.block][i] : i \in start..c.length} \cup ToSet(c.loose)
         /\ Walked(c, start) \subseteq RowsOf(c)
  <1>1. lists[c.block] \in Seq(Admission)
    BY DEF QueueViewTypeOK
  <1>2. c.length \in Nat
    BY DEF Taken
  <1>3. ToSet(SubSeq(lists[c.block], start, c.length)) = {lists[c.block][i] : i \in start..c.length}
    BY <1>1, Stretch
  <1>4. start..c.length \subseteq 1..c.length
    BY <1>2
  <1> QED
    BY <1>3, <1>4 DEF Walked, RowsOf

LEMMA SameStretch ==
  ASSUME NEW s \in Seq(Admission), NEW t \in Seq(Admission), NEW m \in Nat \ {0},
         NEW n \in 0..Len(s), Len(t) >= Len(s), \A i \in 1..n : t[i] = s[i]
  PROVE  SubSeq(t, m, n) = SubSeq(s, m, n)
  <1>1. \A i \in m..n : s[i] \in Admission /\ t[i] \in Admission /\ t[i] = s[i]
    OBVIOUS
  <1>2. /\ SubSeq(s, m, n) \in Seq(Admission)
        /\ Len(SubSeq(s, m, n)) = IF m <= n THEN n - m + 1 ELSE 0
        /\ \A i \in 1..(n - m + 1) : SubSeq(s, m, n)[i] = s[m + i - 1]
    BY <1>1, SubSeqProperties
  <1>3. /\ SubSeq(t, m, n) \in Seq(Admission)
        /\ Len(SubSeq(t, m, n)) = IF m <= n THEN n - m + 1 ELSE 0
        /\ \A i \in 1..(n - m + 1) : SubSeq(t, m, n)[i] = t[m + i - 1]
    BY <1>1, SubSeqProperties
  <1>4. \A i \in 1..(n - m + 1) : m + i - 1 \in m..n
    OBVIOUS
  <1>5. \A i \in 1..Len(SubSeq(s, m, n)) : SubSeq(s, m, n)[i] = SubSeq(t, m, n)[i]
    BY <1>1, <1>2, <1>3, <1>4
  <1> QED
    BY <1>2, <1>3, <1>5, SeqEqual

LEMMA CaptureKept ==
  ASSUME QueueViewTypeOK, KnownInv, BlockInv, CountInv, QueueViewNext,
         NEW c \in Taken, CaptureInv(c)
  PROVE  CaptureInv(c)'
  <1>1. /\ c.length \in Nat /\ c.generation \in Nat /\ c.loose \in Seq(Admission)
        /\ c.queuedFrom \in Nat \ {0} /\ c.shownFrom \in Nat \ {0}
    BY DEF Taken
  <1>2. c.block \in 1..Len(lists) /\ c.length \in 0..Len(lists[c.block])
    BY DEF CaptureInv
  <1>3. QueueViewTypeOK'
    BY ViewTyped
  <1>4. lists[c.block] \in Seq(Admission)
    BY <1>2 DEF QueueViewTypeOK
  <1>5. /\ c.block \in 1..Len(lists') /\ Len(lists'[c.block]) >= Len(lists[c.block])
        /\ \A i \in 1..Len(lists[c.block]) : lists'[c.block][i] = lists[c.block][i]
    BY <1>2, ListsGrow
  <1>6. lists'[c.block] \in Seq(Admission)
    <2>1. lists' \in Seq(Seq(Admission))
      BY <1>3 DEF QueueViewTypeOK
    <2> QED
      BY <1>5, <2>1, ElementOfSeq
  <1>7. c.length \in 0..Len(lists'[c.block])
    BY <1>2, <1>4, <1>5, <1>6
  <1>8. \A i \in 1..c.length : lists'[c.block][i] = lists[c.block][i]
    BY <1>2, <1>4, <1>5
  <1>9. \A m \in Nat \ {0} :
          SubSeq(lists'[c.block], m, c.length) = SubSeq(lists[c.block], m, c.length)
    BY <1>2, <1>4, <1>5, <1>6, <1>8, SameStretch
  <1>10. Mergeable(c)'
    <2>1. SubSeq(lists'[c.block], 1, c.length) = SubSeq(lists[c.block], 1, c.length)
      <3>1. 1 \in Nat \ {0}
        OBVIOUS
      <3> QED
        BY <1>9, <3>1, Zenon
    <2>2. Mergeable(c)
      BY DEF CaptureInv
    <2> QED
      BY <2>1, <2>2 DEF Mergeable
  <1>11. RowsOf(c)' = RowsOf(c)
    BY <1>8 DEF RowsOf
  <1>12. \A r \in RowsOf(c) : r \in Known /\ r \in Known' /\ Moved(r)
    BY RowsMove DEF CaptureInv
  <1>13. \A m \in Nat \ {0} : Walked(c, m)' = Walked(c, m) /\ Walked(c, m) \subseteq RowsOf(c)
    <2>1. \A m \in Nat \ {0} : Walked(c, m) \subseteq RowsOf(c)
      BY <1>2, WalkedRows
    <2> QED
      BY <1>9, <2>1 DEF Walked
  <1>14. ASSUME NEW r \in RowsOf(c)
         PROVE  /\ (QueuedAt(r, c.generation)' <=> QueuedAt(r, c.generation))
                /\ (SkippedAt(r, c.generation)' <=> SkippedAt(r, c.generation))
    <2>1. r \in Admission /\ Moved(r)
      BY <1>12 DEF Known
    <2>2. /\ stamps[r] \in [added : Nat, hidden : Nat, retired : Nat] /\ generation \in Nat
          /\ stamps'[r] \in [added : Nat, hidden : Nat, retired : Nat]
      BY <1>3, <2>1 DEF QueueViewTypeOK
    <2>3. CASE r \in Waiting
      <3>1. c.generation <= generation /\ stamps[r].retired = 0
        BY <2>3 DEF CaptureInv, Waiting
      <3>2. /\ stamps'[r].added = stamps[r].added /\ (r \in off' <=> r \in off)
            /\ stamps'[r].retired = stamps[r].retired \/ stamps'[r].retired > generation
            /\ \/ stamps'[r].hidden = stamps[r].hidden
               \/ stamps[r].hidden = 0 /\ stamps'[r].hidden > generation
        BY <2>1, <2>3 DEF Moved
      <3>3. QueuedAt(r, c.generation)' <=> QueuedAt(r, c.generation)
        BY <1>1, <2>2, <3>1, <3>2 DEF QueuedAt
      <3>4. SkippedAt(r, c.generation)' <=> SkippedAt(r, c.generation)
        BY <1>1, <2>2, <3>1, <3>2 DEF SkippedAt
      <3> QED
        BY <3>3, <3>4
    <2>4. CASE r \notin Waiting
      BY <2>1, <2>4 DEF Moved, QueuedAt, SkippedAt
    <2> QED
      BY <2>3, <2>4
  <1>15. WalkQueued(c)' = c.waiting /\ WalkShown(c)' = c.offered
    <2>1. Walked(c, c.queuedFrom)' = Walked(c, c.queuedFrom) /\ Walked(c, c.shownFrom)' = Walked(c, c.shownFrom)
          /\ Walked(c, c.queuedFrom) \subseteq RowsOf(c) /\ Walked(c, c.shownFrom) \subseteq RowsOf(c)
      BY <1>1, <1>13
    <2>2. {r \in Walked(c, c.queuedFrom)' : QueuedAt(r, c.generation)'}
            = {r \in Walked(c, c.queuedFrom) : QueuedAt(r, c.generation)}
      BY <1>14, <2>1
    <2>3. {r \in Walked(c, c.shownFrom)' : QueuedAt(r, c.generation)' /\ ~SkippedAt(r, c.generation)'}
            = {r \in Walked(c, c.shownFrom) : QueuedAt(r, c.generation) /\ ~SkippedAt(r, c.generation)}
      BY <1>14, <2>1
    <2> QED
      BY <2>2, <2>3 DEF WalkQueued, WalkShown, CaptureInv
  <1>16. \A r \in RowsOf(c) : r \in Waiting' => c.generation <= generation'
    <2>1. ASSUME NEW r \in RowsOf(c), r \in Waiting' PROVE c.generation <= generation'
      <3>1. r \in Waiting /\ generation' >= generation
        BY <1>12, <2>1 DEF Moved
      <3>2. c.generation <= generation
        BY <2>1, <3>1 DEF CaptureInv
      <3>3. generation \in Nat /\ generation' \in Nat
        BY <1>3 DEF QueueViewTypeOK
      <3> QED
        BY <1>1, <3>1, <3>2, <3>3
    <2> QED
      BY <2>1
  <1> QED
    BY <1>5, <1>7, <1>10, <1>11, <1>12, <1>15, <1>16 DEF CaptureInv

-----------------------------------------------------------------------------
(***************************************************************************)
(* The block, what stands beside it, and the counts.                        *)
(***************************************************************************)
LEMMA KnownKept ==
  ASSUME QueueViewTypeOK, KnownInv, BlockInv, CountInv, QueueViewNext
  PROVE  KnownInv'
  <1>1. ASSUME NEW r \in Admission, Add(r) PROVE KnownInv'
    BY <1>1, AddMoves DEF KnownInv
  <1>2. ASSUME NEW r \in Admission, DropRow(r) PROVE KnownInv'
    <2>1. r \in Waiting /\ Known' = Known /\ replaced' = replaced /\ off' = off
      BY <1>2, DropMoves
    <2>2. \A q \in Admission \ {r} : stamps'[q] = stamps[q]
      BY <1>2, DropMoves
    <2>3. r \in Known
      BY <2>1 DEF Waiting, Known
    <2> QED
      BY <2>1, <2>2, <2>3 DEF KnownInv
  <1>3. ASSUME NEW rows \in SUBSET Admission, Relist(rows) PROVE KnownInv'
    <2>1. replaced' = replaced \cup Waiting /\ Waiting \subseteq Known
      BY <1>3 DEF Relist, Waiting, Known
    <2> QED
      BY <1>3, <2>1, RelistMoves DEF KnownInv
  <1>4. ASSUME NEW r \in Admission, Hide(r) PROVE KnownInv'
    <2>1. r \in Waiting /\ Known' = Known /\ replaced' = replaced /\ off' = off
      BY <1>4, HideMoves
    <2>2. \A q \in Admission \ {r} : stamps'[q] = stamps[q]
      BY <1>4, HideMoves
    <2>3. r \in Known
      BY <2>1 DEF Waiting, Known
    <2> QED
      BY <2>1, <2>2, <2>3 DEF KnownInv
  <1>5. ASSUME NEW p \in Page, Capture(p) \/ Release(p) PROVE KnownInv'
    BY <1>5 DEF Capture, Release, KnownInv, Known
  <1> QED
    BY <1>1, <1>2, <1>3, <1>4, <1>5 DEF QueueViewNext

LEMMA CountKept ==
  ASSUME QueueViewTypeOK, KnownInv, BlockInv, CountInv, QueueViewNext
  PROVE  CountInv'
  <1>1. /\ IsFiniteSet(Waiting) /\ Cardinality(Waiting) \in Nat
        /\ IsFiniteSet(Hidden) /\ Cardinality(Hidden) \in Nat /\ Hidden \subseteq Waiting
    BY AdmissionsFinite DEF Waiting, Hidden
  <1>2. counts.waiting = Cardinality(Waiting) /\ counts.hidden = Cardinality(Hidden)
    BY DEF CountInv
  <1>3. ASSUME NEW r \in Admission, Add(r) PROVE CountInv'
    <2>1. /\ r \notin Waiting /\ Waiting' = Waiting \cup {r}
          /\ Hidden' = IF r \in off' THEN Hidden \cup {r} ELSE Hidden
      BY <1>3, AddMoves
    <2>2. counts' = [waiting |-> counts.waiting + 1,
                     hidden |-> counts.hidden + IF r \in off' THEN 1 ELSE 0]
      BY <1>3 DEF Add
    <2>3. Cardinality(Waiting') = Cardinality(Waiting) + 1
      BY <1>1, <2>1, FS_AddElement
    <2>4. Cardinality(Hidden') = Cardinality(Hidden) + IF r \in off' THEN 1 ELSE 0
      <3>1. CASE r \in off'
        BY <1>1, <2>1, <3>1, FS_AddElement
      <3>2. CASE r \notin off'
        BY <1>1, <2>1, <3>2
      <3> QED
        BY <3>1, <3>2
    <2> QED
      BY <1>2, <2>2, <2>3, <2>4 DEF CountInv
  <1>4. ASSUME NEW r \in Admission, DropRow(r) PROVE CountInv'
    <2>1. /\ r \in Waiting /\ Waiting' = Waiting \ {r} /\ Hidden' = Hidden \ {r}
          /\ (SkippedAt(r, generation + 1) <=> r \in Hidden)
      BY <1>4, DropMoves
    <2>2. counts' = [waiting |-> counts.waiting - 1,
                     hidden |-> counts.hidden - IF SkippedAt(r, generation + 1) THEN 1 ELSE 0]
      BY <1>4 DEF DropRow
    <2>3. Cardinality(Waiting') = Cardinality(Waiting) - 1
      BY <1>1, <2>1, FS_RemoveElement
    <2>4. Cardinality(Hidden') = Cardinality(Hidden) - IF r \in Hidden THEN 1 ELSE 0
      <3>1. CASE r \in Hidden
        BY <1>1, <2>1, <3>1, FS_RemoveElement
      <3>2. CASE r \notin Hidden
        <4>1. Hidden' = Hidden
          BY <2>1, <3>2
        <4> QED
          BY <1>1, <3>2, <4>1
      <3> QED
        BY <3>1, <3>2
    <2> QED
      BY <1>2, <2>1, <2>2, <2>3, <2>4 DEF CountInv
  <1>5. ASSUME NEW rows \in SUBSET Admission, Relist(rows) PROVE CountInv'
    <2>1. counts' = counts
      BY <1>5 DEF Relist
    <2> QED
      BY <1>5, <2>1, RelistMoves DEF CountInv
  <1>6. ASSUME NEW r \in Admission, Hide(r) PROVE CountInv'
    <2>1. r \notin Hidden /\ Waiting' = Waiting /\ Hidden' = Hidden \cup {r}
      BY <1>6, HideMoves
    <2>2. counts' = [counts EXCEPT !.hidden = @ + 1]
      BY <1>6 DEF Hide
    <2>3. Cardinality(Hidden') = Cardinality(Hidden) + 1
      BY <1>1, <2>1, FS_AddElement
    <2> QED
      BY <2>1, <2>2, <2>3 DEF CountInv
  <1>7. ASSUME NEW p \in Page, Capture(p) \/ Release(p) PROVE CountInv'
    <2>1. UNCHANGED <<stamps, off, replaced, generation, counts>>
      BY <1>7 DEF Capture, Release
    <2> QED
      BY <2>1 DEF CountInv, Waiting, Hidden, SkippedAt
  <1> QED
    BY <1>3, <1>4, <1>5, <1>6, <1>7 DEF QueueViewNext

\* A block that replaces another holds all that waits, and nothing stands beside it.
LEMMA BlockRebuilt ==
  ASSUME QueueViewTypeOK, NEW rows \in SUBSET Admission, Replaces(rows),
         Waiting' \subseteq rows, \A r \in rows : Stamped(r)'
  PROVE  BlockInv'
  <1>1. /\ Len(lists') = Len(lists) + 1 /\ Now' \in Seq(Admission)
        /\ ToSet(Now') = rows /\ Ascending(Now')
    BY Replaced
  <1>2. block' = Len(lists') /\ loose' = <<>> /\ queuedFrom' = 1 /\ shownFrom' = 1
    BY <1>1 DEF Replaces
  <1>3. ToSet(<<>>) = {} /\ Ascending(<<>>)
    BY DEF ToSet, Ascending
  <1>4. \A r \in rows : Reached(1, r)'
    <2>1. \A r \in rows : \E i \in 1..Len(Now') : Now'[i] = r
      BY <1>1, RowsOfList
    <2> QED
      BY <2>1 DEF Reached
  <1> QED
    BY <1>1, <1>2, <1>3, <1>4 DEF BlockInv

\* A block that stays is still reached from where it was, but for what is put beside it.
LEMMA BlockStays ==
  ASSUME QueueViewTypeOK, BlockInv, Stays, UNCHANGED <<queuedFrom, shownFrom>>,
         NEW extra, extra \cap ToSet(Now) = {},
         Ascending(loose'), ToSet(loose') = ToSet(loose) \cup extra,
         \A r \in ToSet(Now) \cup ToSet(loose) \cup extra : Stamped(r)',
         Waiting' \subseteq Waiting \cup extra,
         Waiting' \ Hidden' \subseteq (Waiting \ Hidden) \cup extra
  PROVE  BlockInv'
  <1>1. Now' = Now /\ block' = block /\ lists' = lists
    BY DEF Stays, Now
  <1>2. \A start, r : Reached(start, r) => Reached(start, r)'
    BY <1>1 DEF Reached
  <1>3. \A start : \A r \in extra : Reached(start, r)'
    BY DEF Reached
  <1> QED
    BY <1>1, <1>2, <1>3 DEF BlockInv

\* A row at the block's end is after all of it.
LEMMA BlockExtends ==
  ASSUME QueueViewTypeOK, BlockInv, NEW r \in Admission, Extends(r),
         UNCHANGED <<loose, queuedFrom, shownFrom>>, Now = <<>> \/ Last(Now) <= r,
         r \notin ToSet(Now) \cup ToSet(loose),
         \A q \in ToSet(Now) \cup ToSet(loose) \cup {r} : Stamped(q)',
         Waiting' \subseteq Waiting \cup {r},
         Waiting' \ Hidden' \subseteq (Waiting \ Hidden) \cup {r}
  PROVE  BlockInv'
  <1>1. /\ Now \in Seq(Admission) /\ Len(Now) \in Nat
        /\ queuedFrom \in 1..(Len(Now) + 1) /\ shownFrom \in 1..(Len(Now) + 1)
    BY DEF QueueViewTypeOK, Now
  <1>2. /\ Len(lists') = Len(lists) /\ Now' \in Seq(Admission) /\ Len(Now') = Len(Now) + 1
        /\ \A i \in 1..Len(Now) : Now'[i] = Now[i]
        /\ Now'[Len(Now) + 1] = r
    BY Extended
  <1>3. block' = Len(lists')
    BY <1>2 DEF BlockInv, Extends
  <1>4. ToSet(Now') = ToSet(Now) \cup {r}
    <2>1. ToSet(Now') = {Now'[i] : i \in 1..(Len(Now) + 1)} /\ ToSet(Now) = {Now[i] : i \in 1..Len(Now)}
      BY <1>1, <1>2, RowsOfList
    <2>2. 1..(Len(Now) + 1) = 1..Len(Now) \cup {Len(Now) + 1}
      BY <1>1
    <2> QED
      BY <1>2, <2>1, <2>2
  <1>5. \A i \in 1..Len(Now) : Now[i] \in Nat /\ Now[i] < r
    <2>1. ASSUME NEW i \in 1..Len(Now) PROVE Now[i] \in Nat /\ Now[i] < r
      <3>1. Now[i] \in Nat /\ Now[Len(Now)] \in Nat /\ r \in Nat
        <4>1. Len(Now) \in 1..Len(Now)
          BY <1>1, <2>1
        <4>2. Now[i] \in Admission /\ Now[Len(Now)] \in Admission
          BY <1>1, <2>1, <4>1, ElementOfSeq
        <4> QED
          BY <4>2, QueueViewAssumption
      <3>2. Now[Len(Now)] <= r
        BY <1>1, <2>1, EmptySeq DEF Last
      <3>3. i < Len(Now) => Now[i] < Now[Len(Now)]
        BY <1>1, <2>1 DEF BlockInv, Ascending
      <3>4. Now[i] # r
        BY <1>1, RowsOfList
      <3> QED
        BY <1>1, <2>1, <3>1, <3>2, <3>3, <3>4
    <2> QED
      BY <2>1
  <1>6. Ascending(Now')
    <2>1. ASSUME NEW i \in 1..(Len(Now) + 1), NEW j \in 1..(Len(Now) + 1), i < j
          PROVE  Now'[i] < Now'[j]
      <3>1. i \in 1..Len(Now) /\ Now'[i] = Now[i]
        BY <1>1, <1>2, <2>1
      <3>2. CASE j = Len(Now) + 1
        BY <1>2, <1>5, <3>1, <3>2
      <3>3. CASE j # Len(Now) + 1
        <4>1. j \in 1..Len(Now) /\ Now'[j] = Now[j]
          BY <1>1, <1>2, <3>3
        <4>2. Now[i] < Now[j]
          BY <1>1, <2>1, <3>1, <4>1 DEF BlockInv, Ascending
        <4> QED
          BY <3>1, <4>1, <4>2
      <3> QED
        BY <3>2, <3>3
    <2> QED
      BY <1>2, <2>1 DEF Ascending
  <1>7. \A start \in 1..(Len(Now) + 1) : Reached(start, r)'
    <2>1. ASSUME NEW start \in 1..(Len(Now) + 1) PROVE Reached(start, r)'
      <3>1. Len(Now) + 1 \in start..Len(Now')
        BY <1>1, <1>2
      <3> QED
        BY <1>2, <3>1 DEF Reached
    <2> QED
      BY <2>1
  <1>8. \A start \in 1..(Len(Now) + 1) : \A q : Reached(start, q) => Reached(start, q)'
    <2>1. ASSUME NEW start \in 1..(Len(Now) + 1), NEW q, NEW i \in start..Len(Now), Now[i] = q
          PROVE  Reached(start, q)'
      <3>1. i \in start..Len(Now') /\ Now'[i] = q
        BY <1>1, <1>2, <2>1
      <3> QED
        BY <3>1 DEF Reached
    <2> QED
      BY <2>1 DEF Reached
  <1> QED
    BY <1>1, <1>2, <1>3, <1>4, <1>6, <1>7, <1>8 DEF BlockInv

\* A rebuild carries over what its walks would still reach, and nothing else.
LEMMA KeptRows ==
  ASSUME QueueViewTypeOK, NEW lse \in Seq(Admission), NEW now
  PROVE  /\ Kept(lse, now) \subseteq ToSet(Now) \cup ToSet(lse)
         /\ \A r : /\ r \in ToSet(lse) \/ \E i \in queuedFrom..Len(Now) : Now[i] = r
                   /\ now[r].retired = 0
                   => r \in Kept(lse, now)
  <1>1. Now \in Seq(Admission) /\ Len(Now) \in Nat /\ queuedFrom \in Nat \ {0}
    BY DEF QueueViewTypeOK, Now
  <1>2. ToSet(SubSeq(Now, queuedFrom, Len(Now))) = {Now[i] : i \in queuedFrom..Len(Now)}
    BY <1>1, Stretch
  <1>3. ToSet(Now) = {Now[i] : i \in 1..Len(Now)} /\ queuedFrom..Len(Now) \subseteq 1..Len(Now)
    BY <1>1, RowsOfList
  <1> QED
    BY <1>2, <1>3 DEF Kept

LEMMA AddKeepsBlock ==
  ASSUME QueueViewTypeOK, KnownInv, BlockInv, NEW r \in Admission, Add(r)
  PROVE  BlockInv'
  <1> DEFINE lse == InOrder(ToSet(loose) \cup {r})
  <1>1. Now \in Seq(Admission) /\ loose \in Seq(Admission) /\ generation \in Nat
    BY DEF QueueViewTypeOK, Now
  <1>2. /\ r \notin Known /\ Known' = Known \cup {r} /\ Waiting' = Waiting \cup {r}
        /\ generation' = generation + 1 /\ replaced' = replaced /\ r \notin replaced
        /\ stamps'[r] = [added |-> generation + 1, hidden |-> 0, retired |-> 0]
        /\ Waiting' \ Hidden' \subseteq (Waiting \ Hidden) \cup {r}
    BY AddMoves
  <1>3. \A q \in Admission \ {r} : stamps'[q] = stamps[q]
    BY AddMoves
  <1>4. ToSet(Now) \subseteq Admission /\ ToSet(loose) \subseteq Admission
    BY <1>1, RowsOfList
  <1>5. r \notin ToSet(Now) \cup ToSet(loose)
    BY <1>2 DEF BlockInv, Stamped
  <1>6. \A q \in ToSet(Now) \cup ToSet(loose) \cup {r} : Stamped(q)'
    <2>1. Stamped(r)'
      BY <1>1, <1>2 DEF Stamped
    <2>2. ASSUME NEW q \in ToSet(Now) \cup ToSet(loose) PROVE Stamped(q)'
      <3>1. q \in Admission \ {r} /\ Stamped(q)
        BY <1>4, <1>5 DEF BlockInv
      <3>2. stamps[q] \in [added : Nat, hidden : Nat, retired : Nat] /\ stamps'[q] = stamps[q]
        BY <1>3, <3>1 DEF QueueViewTypeOK
      <3> QED
        BY <1>1, <1>2, <3>1, <3>2 DEF Stamped
    <2> QED
      BY <2>1, <2>2
  <1>7. lse \in Seq(Admission) /\ ToSet(lse) = ToSet(loose) \cup {r} /\ Ascending(lse)
    BY <1>4, OrderedAdmissions
  <1> HIDE DEF lse
  <1>8. CASE /\ Extends(r) /\ UNCHANGED <<loose, queuedFrom, shownFrom>>
             /\ Now = <<>> \/ Last(Now) <= r
    BY <1>2, <1>5, <1>6, <1>8, BlockExtends
  <1>9. CASE /\ Kept(lse, stamps') \in SUBSET Admission /\ Replaces(Kept(lse, stamps'))
    <2>1. /\ Kept(lse, stamps') \subseteq ToSet(Now) \cup ToSet(lse)
          /\ \A q : /\ q \in ToSet(lse) \/ \E i \in queuedFrom..Len(Now) : Now[i] = q
                    /\ stamps'[q].retired = 0
                    => q \in Kept(lse, stamps')
      BY <1>7, KeptRows
    <2>2. ASSUME NEW q \in Waiting' PROVE q \in Kept(lse, stamps')
      <3>1. stamps'[q].retired = 0
        BY DEF Waiting
      <3>2. q \in ToSet(lse) \/ \E i \in queuedFrom..Len(Now) : Now[i] = q
        <4>1. CASE q = r
          BY <1>7, <4>1
        <4>2. CASE q # r
          BY <1>2, <1>7, <4>2 DEF BlockInv, Reached
        <4> QED
          BY <4>1, <4>2
      <3> QED
        BY <2>1, <3>1, <3>2
    <2>3. \A q \in Kept(lse, stamps') : Stamped(q)'
      BY <1>6, <1>7, <2>1
    <2> QED
      BY <1>9, <2>2, <2>3, BlockRebuilt
  <1>10. CASE Stays /\ loose' = lse /\ UNCHANGED <<queuedFrom, shownFrom>>
    <2> DEFINE extra == {r}
    <2>1. extra \cap ToSet(Now) = {} /\ ToSet(loose') = ToSet(loose) \cup extra /\ Ascending(loose')
      BY <1>5, <1>7, <1>10
    <2>2. /\ \A q \in ToSet(Now) \cup ToSet(loose) \cup extra : Stamped(q)'
          /\ Waiting' \subseteq Waiting \cup extra
          /\ Waiting' \ Hidden' \subseteq (Waiting \ Hidden) \cup extra
      BY <1>2, <1>6
    <2> HIDE DEF extra
    <2> QED
      BY <1>10, <2>1, <2>2, BlockStays
  <1> QED
    BY <1>8, <1>9, <1>10, AddSettles DEF lse

\* A row that is stamped stays so when the generation goes on.
LEMMA StampsGoOn ==
  ASSUME QueueViewTypeOK, BlockInv, generation' = generation + 1, Known' = Known,
         replaced' = replaced, NEW r \in Admission,
         \A q \in Admission \ {r} : stamps'[q] = stamps[q],
         \/ stamps'[r] = [stamps[r] EXCEPT !.retired = generation + 1]
         \/ stamps'[r] = [stamps[r] EXCEPT !.hidden = generation + 1]
  PROVE  \A q \in ToSet(Now) \cup ToSet(loose) : Stamped(q)'
  <1>1. Now \in Seq(Admission) /\ loose \in Seq(Admission) /\ generation \in Nat
    BY DEF QueueViewTypeOK, Now
  <1>2. ASSUME NEW q \in ToSet(Now) \cup ToSet(loose) PROVE Stamped(q)'
    <2>1. q \in Admission /\ Stamped(q)
      BY <1>1, RowsOfList DEF BlockInv
    <2>2. stamps[q] \in [added : Nat, hidden : Nat, retired : Nat]
      BY <2>1 DEF QueueViewTypeOK
    <2>3. /\ stamps'[q].added = stamps[q].added
          /\ stamps'[q].hidden \in {stamps[q].hidden, generation + 1}
          /\ stamps'[q].retired \in {stamps[q].retired, generation + 1}
      <3>1. CASE q = r
        BY <2>2, <3>1
      <3>2. CASE q # r
        BY <2>1, <3>2
      <3> QED
        BY <3>1, <3>2
    <2>4. /\ q \in Known' \ replaced' /\ stamps[q].added <= generation
          /\ stamps[q].hidden <= generation /\ stamps[q].retired <= generation
      BY <2>1 DEF Stamped
    <2> QED
      BY <1>1, <2>2, <2>3, <2>4 DEF Stamped
  <1> QED
    BY <1>2

LEMMA DropKeepsBlock ==
  ASSUME QueueViewTypeOK, KnownInv, BlockInv, CountInv, NEW r \in Admission, DropRow(r)
  PROVE  BlockInv'
  <1>1. loose \in Seq(Admission) /\ generation \in Nat
    BY DEF QueueViewTypeOK
  <1>2. /\ Known' = Known /\ Waiting' = Waiting \ {r} /\ Hidden' = Hidden \ {r}
        /\ replaced' = replaced
        /\ stamps'[r] = [stamps[r] EXCEPT !.retired = generation + 1]
    BY DropMoves
  <1>3. \A q \in Admission \ {r} : stamps'[q] = stamps[q]
    BY DropMoves
  <1>4. CASE counts'.waiting = 0 /\ Replaces({})
    <2>1. Waiting' = {}
      BY <1>4, DropMoves
    <2>2. {} \in SUBSET Admission /\ Waiting' \subseteq {} /\ \A q \in {} : Stamped(q)'
      BY <2>1
    <2> QED
      BY <1>4, <2>2, BlockRebuilt
  <1>5. CASE counts'.waiting # 0
    <2>1. generation' = generation + 1
      BY <1>5, DropMoves
    <2>2. \A q \in ToSet(Now) \cup ToSet(loose) : Stamped(q)'
      BY <1>2, <1>3, <2>1, StampsGoOn
    <2>3. CASE Kept(loose, stamps') \in SUBSET Admission /\ Replaces(Kept(loose, stamps'))
      <3>1. /\ Kept(loose, stamps') \subseteq ToSet(Now) \cup ToSet(loose)
            /\ \A q : /\ q \in ToSet(loose) \/ \E i \in queuedFrom..Len(Now) : Now[i] = q
                      /\ stamps'[q].retired = 0
                      => q \in Kept(loose, stamps')
        BY <1>1, KeptRows
      <3>2. ASSUME NEW q \in Waiting' PROVE q \in Kept(loose, stamps')
        <4>1. stamps'[q].retired = 0
          BY DEF Waiting
        <4>2. q \in ToSet(loose) \/ \E i \in queuedFrom..Len(Now) : Now[i] = q
          BY <1>2 DEF BlockInv, Reached
        <4> QED
          BY <3>1, <4>1, <4>2
      <3>3. \A q \in Kept(loose, stamps') : Stamped(q)'
        BY <2>2, <3>1
      <3> QED
        BY <2>3, <3>2, <3>3, BlockRebuilt
    <2>4. CASE Stays /\ UNCHANGED <<loose, queuedFrom, shownFrom>>
      <3> DEFINE extra == {}
      <3>1. extra \cap ToSet(Now) = {} /\ ToSet(loose') = ToSet(loose) \cup extra /\ Ascending(loose')
        BY <2>4 DEF BlockInv
      <3>2. /\ \A q \in ToSet(Now) \cup ToSet(loose) \cup extra : Stamped(q)'
            /\ Waiting' \subseteq Waiting \cup extra
            /\ Waiting' \ Hidden' \subseteq (Waiting \ Hidden) \cup extra
        BY <1>2, <2>2
      <3> HIDE DEF extra
      <3> QED
        BY <2>4, <3>1, <3>2, BlockStays
    <2> QED
      BY <1>5, <2>3, <2>4, DropSettles
  <1> QED
    BY <1>4, <1>5, DropSettles

LEMMA RelistKeepsBlock ==
  ASSUME QueueViewTypeOK, KnownInv, BlockInv, CountInv, NEW rows \in SUBSET Admission, Relist(rows)
  PROVE  BlockInv'
  <1>1. /\ Known' = Known \cup rows /\ Waiting' = rows
        /\ generation' = Cardinality(rows) /\ generation' \in Nat
    BY RelistMoves
  <1>2. \A q \in rows : Stamped(q)'
    <2>1. ASSUME NEW q \in rows PROVE Stamped(q)'
      <3>1. /\ stamps'[q].added \in 1..Cardinality(rows) /\ stamps'[q].hidden = 0
            /\ stamps'[q].retired = 0 /\ q \notin replaced'
        BY RelistMoves
      <3> QED
        BY <1>1, <3>1 DEF Stamped
    <2> QED
      BY <2>1
  <1> QED
    BY <1>1, <1>2, RelistReplaces, BlockRebuilt

LEMMA HideKeepsBlock ==
  ASSUME QueueViewTypeOK, KnownInv, BlockInv, NEW r \in Admission, Hide(r)
  PROVE  BlockInv'
  <1> DEFINE extra == {}
  <1>1. /\ Known' = Known /\ Waiting' = Waiting /\ Hidden' = Hidden \cup {r}
        /\ replaced' = replaced /\ generation' = generation + 1
        /\ stamps'[r] = [stamps[r] EXCEPT !.hidden = generation + 1]
    BY HideMoves
  <1>2. \A q \in Admission \ {r} : stamps'[q] = stamps[q]
    BY HideMoves
  <1>3. \A q \in ToSet(Now) \cup ToSet(loose) : Stamped(q)'
    BY <1>1, <1>2, StampsGoOn
  <1>4. Stays /\ UNCHANGED <<loose, queuedFrom, shownFrom>>
    BY DEF Hide, Stays
  <1>5. extra \cap ToSet(Now) = {} /\ ToSet(loose') = ToSet(loose) \cup extra /\ Ascending(loose')
    BY <1>4 DEF BlockInv
  <1>6. /\ \A q \in ToSet(Now) \cup ToSet(loose) \cup extra : Stamped(q)'
        /\ Waiting' \subseteq Waiting \cup extra
        /\ Waiting' \ Hidden' \subseteq (Waiting \ Hidden) \cup extra
    BY <1>1, <1>3
  <1> HIDE DEF extra
  <1> QED
    BY <1>4, <1>5, <1>6, BlockStays

\* Reading moves the marks past rows that nobody asks for any more.
LEMMA CaptureKeepsBlock ==
  ASSUME QueueViewTypeOK, BlockInv, NEW p \in Page, Capture(p)
  PROVE  BlockInv'
  <1>1. /\ lists[block] \in Seq(Admission) /\ queuedFrom \in 1..(Len(lists[block]) + 1)
        /\ shownFrom \in 1..(Len(lists[block]) + 1)
    BY DEF QueueViewTypeOK
  <1>2. /\ queuedFrom' = Advance(queuedFrom, {r \in Admission : stamps[r].retired = 0})
        /\ shownFrom' = Advance(shownFrom, Waiting \ Hidden)
        /\ UNCHANGED <<stamps, off, replaced, lists, block, loose, generation>>
    BY DEF Capture
  <1>3. /\ Waiting' = Waiting /\ Hidden' = Hidden /\ Known' = Known /\ Now' = Now
        /\ \A r : Stamped(r)' <=> Stamped(r)
    BY <1>2 DEF Waiting, Hidden, SkippedAt, Known, Now, Stamped
  <1>4. ASSUME NEW start \in 1..(Len(lists[block]) + 1), NEW rows, NEW r \in rows,
               Reached(start, r)
        PROVE  Reached(Advance(start, rows), r)
    <2>1. /\ Advance(start, rows) \in start..(Len(lists[block]) + 1)
          /\ \A i \in start..(Advance(start, rows) - 1) : lists[block][i] \notin rows
      BY <1>1, AdvancePasses
    <2>2. ASSUME NEW i \in start..Len(Now), Now[i] = r PROVE i \in Advance(start, rows)..Len(Now)
      <3>1. ~(i \in start..(Advance(start, rows) - 1))
        BY <2>1, <2>2 DEF Now
      <3> QED
        BY <1>1, <2>1, <3>1 DEF Now
    <2> QED
      BY <1>4, <2>2 DEF Reached
  <1>5. \A r \in Waiting : Reached(queuedFrom', r)
    <2> DEFINE rows == {r \in Admission : stamps[r].retired = 0}
    <2>1. Waiting \subseteq rows
      BY DEF Waiting
    <2> HIDE DEF rows
    <2> QED
      BY <1>1, <1>2, <1>4, <2>1 DEF BlockInv, rows
  <1>6. \A r \in Waiting \ Hidden : Reached(shownFrom', r)
    BY <1>1, <1>2, <1>4 DEF BlockInv
  <1>7. \A start, r : Reached(start, r) => Reached(start, r)'
    BY <1>2, <1>3 DEF Reached
  <1>8. /\ \A r \in Waiting : r \in ToSet(loose') \/ \E i \in queuedFrom'..Len(Now') : Now'[i] = r
        /\ \A r \in Waiting \ Hidden :
             r \in ToSet(loose') \/ \E i \in shownFrom'..Len(Now') : Now'[i] = r
    BY <1>2, <1>3, <1>5, <1>6 DEF Reached
  <1> QED
    BY <1>2, <1>3, <1>8 DEF BlockInv, Reached

LEMMA BlockKept ==
  ASSUME QueueViewTypeOK, KnownInv, BlockInv, CountInv, QueueViewNext
  PROVE  BlockInv'
  <1>1. ASSUME NEW p \in Page, Release(p) PROVE BlockInv'
    <2>1. UNCHANGED <<stamps, off, replaced, lists, block, loose, generation, queuedFrom, shownFrom>>
      BY <1>1 DEF Release
    <2> QED
      BY <2>1 DEF BlockInv, Now, Stamped, Known, Waiting, Hidden, SkippedAt, Reached
  <1> QED
    BY <1>1, AddKeepsBlock, DropKeepsBlock, RelistKeepsBlock, HideKeepsBlock, CaptureKeepsBlock
       DEF QueueViewNext

-----------------------------------------------------------------------------
(***************************************************************************)
(* What a reader takes: the block as it is, from the marks on.              *)
(***************************************************************************)
LEMMA CaptureTakes ==
  ASSUME QueueViewTypeOK, BlockInv, NEW p \in Page, Capture(p), NEW c,
         c = [block |-> block, length |-> Len(lists[block]), loose |-> loose,
              queuedFrom |-> queuedFrom', shownFrom |-> shownFrom', generation |-> generation,
              waiting |-> InOrder(Waiting), offered |-> InOrder(Waiting \ Hidden)]
  PROVE  c \in Taken /\ CaptureInv(c)'
  <1>1. /\ Now \in Seq(Admission) /\ Len(Now) \in Nat /\ loose \in Seq(Admission)
        /\ generation \in Nat /\ block \in 1..Len(lists) /\ block \in Nat
    BY DEF QueueViewTypeOK, Now
  <1>2. QueueViewTypeOK' /\ BlockInv'
    BY ViewTyped, CaptureKeepsBlock DEF QueueViewNext
  <1>3. UNCHANGED <<stamps, off, replaced, lists, block, loose, generation>>
    BY DEF Capture
  <1>4. /\ Waiting' = Waiting /\ Hidden' = Hidden /\ Known' = Known /\ Now' = Now
        /\ \A r, g : /\ QueuedAt(r, g)' <=> QueuedAt(r, g)
                     /\ SkippedAt(r, g)' <=> SkippedAt(r, g)
    BY <1>3 DEF Waiting, Hidden, SkippedAt, QueuedAt, Known, Now
  <1>5. queuedFrom' \in Nat \ {0} /\ shownFrom' \in Nat \ {0}
    BY <1>2 DEF QueueViewTypeOK
  <1>6. InOrder(Waiting) \in Seq(Admission) /\ InOrder(Waiting \ Hidden) \in Seq(Admission)
    BY OrderedAdmissions DEF Waiting
  <1> HIDE DEF InOrder
  <1>7. /\ c.block = block /\ c.length = Len(Now) /\ c.loose = loose
        /\ c.queuedFrom = queuedFrom' /\ c.shownFrom = shownFrom' /\ c.generation = generation
        /\ c.waiting = InOrder(Waiting) /\ c.offered = InOrder(Waiting \ Hidden)
    BY DEF Now
  <1>8. c \in Taken
    BY <1>1, <1>5, <1>6 DEF Taken, Now
  <1>9. lists'[c.block] = Now /\ c.block \in 1..Len(lists') /\ c.length \in 0..Len(lists'[c.block])
    BY <1>1, <1>3, <1>7 DEF Now
  <1>10. ToSet(Now) = {Now[i] : i \in 1..Len(Now)} /\ ToSet(Now) \in SUBSET Admission
         /\ ToSet(loose) \in SUBSET Admission
    BY <1>1, RowsOfList
  <1>11. RowsOf(c)' = ToSet(Now) \cup ToSet(loose)
    BY <1>7, <1>9, <1>10 DEF RowsOf
  <1>12. Mergeable(c)'
    <2>1. SubSeq(lists'[c.block], 1, c.length) = Now
      BY <1>1, <1>7, <1>9, SubSeqFull
    <2> QED
      BY <1>7, <2>1 DEF Mergeable, BlockInv
  <1>13. ASSUME NEW start \in Nat \ {0}
         PROVE  Walked(c, start)' = {Now[i] : i \in start..Len(Now)} \cup ToSet(loose)
    BY <1>1, <1>7, <1>9, Stretch DEF Walked
  <1>14. ASSUME NEW r \in ToSet(Now) \cup ToSet(loose)
         PROVE  /\ r \in Known /\ r \in Admission \ replaced
                /\ (QueuedAt(r, generation) <=> r \in Waiting)
                /\ (r \in Waiting => (SkippedAt(r, generation) <=> r \in Hidden))
    <2>1. r \in Admission /\ Stamped(r)
      BY <1>10 DEF BlockInv
    <2>2. stamps[r] \in [added : Nat, hidden : Nat, retired : Nat]
      BY <2>1 DEF QueueViewTypeOK
    <2>3. QueuedAt(r, generation) <=> stamps[r].retired = 0
      BY <1>1, <2>1, <2>2 DEF QueuedAt, Stamped
    <2>4. r \in Waiting <=> stamps[r].retired = 0
      BY <2>1 DEF Waiting, Stamped, Known
    <2> QED
      BY <2>1, <2>3, <2>4 DEF Stamped, Hidden
  <1>15. \A start \in 1..(Len(Now) + 1) :
           {Now[i] : i \in start..Len(Now)} \subseteq ToSet(Now)
    BY <1>1, <1>10
  <1>16. queuedFrom' \in 1..(Len(Now) + 1) /\ shownFrom' \in 1..(Len(Now) + 1)
    BY <1>2, <1>3 DEF QueueViewTypeOK, Now
  <1>17. /\ \A r \in Waiting : r \in {Now[i] : i \in queuedFrom'..Len(Now)} \cup ToSet(loose)
         /\ \A r \in Waiting \ Hidden :
              r \in {Now[i] : i \in shownFrom'..Len(Now)} \cup ToSet(loose)
    BY <1>2, <1>3, <1>4 DEF BlockInv, Reached
  <1>18. WalkQueued(c)' = c.waiting
    <2>1. Walked(c, c.queuedFrom)' = {Now[i] : i \in queuedFrom'..Len(Now)} \cup ToSet(loose)
      BY <1>5, <1>7, <1>13
    <2>2. {r \in Walked(c, c.queuedFrom)' : QueuedAt(r, c.generation)'} = Waiting
      <3>1. \A r \in Walked(c, c.queuedFrom)' : QueuedAt(r, c.generation)' <=> r \in Waiting
        BY <1>4, <1>7, <1>14, <1>15, <1>16, <2>1
      <3> QED
        BY <1>17, <2>1, <3>1
    <2> QED
      BY <1>7, <2>2 DEF WalkQueued
  <1>19. WalkShown(c)' = c.offered
    <2>1. Walked(c, c.shownFrom)' = {Now[i] : i \in shownFrom'..Len(Now)} \cup ToSet(loose)
      BY <1>5, <1>7, <1>13
    <2>2. {r \in Walked(c, c.shownFrom)' : QueuedAt(r, c.generation)' /\ ~SkippedAt(r, c.generation)'}
            = Waiting \ Hidden
      <3>1. \A r \in Walked(c, c.shownFrom)' :
              QueuedAt(r, c.generation)' /\ ~SkippedAt(r, c.generation)' <=> r \in Waiting \ Hidden
        BY <1>4, <1>7, <1>14, <1>15, <1>16, <2>1
      <3> QED
        BY <1>17, <2>1, <3>1
    <2> QED
      BY <1>7, <2>2 DEF WalkShown
  <1>20. RowsOf(c)' \subseteq Known'
    BY <1>4, <1>11, <1>14
  <1>21. c.generation <= generation'
    BY <1>1, <1>3, <1>7
  <1> QED
    BY <1>8, <1>9, <1>12, <1>18, <1>19, <1>20, <1>21 DEF CaptureInv

LEMMA CapturesKept ==
  ASSUME ViewInv, QueueViewNext
  PROVE  /\ capture' \in [Page -> {<<>>} \cup {<<c>> : c \in Taken}]
         /\ \A p \in Page : capture'[p] # <<>> => CaptureInv(capture[p][1])'
  <1>1. /\ QueueViewTypeOK /\ KnownInv /\ BlockInv /\ CountInv
        /\ capture \in [Page -> {<<>>} \cup {<<c>> : c \in Taken}]
    BY DEF ViewInv
  <1>2. ASSUME NEW p \in Page, capture[p] # <<>>
        PROVE  \E c \in Taken : capture[p] = <<c>> /\ CaptureInv(c) /\ CaptureInv(c)'
    <2>1. PICK c \in Taken : capture[p] = <<c>>
      BY <1>1, <1>2
    <2>2. CaptureInv(c)
      BY <1>2, <2>1 DEF ViewInv
    <2> QED
      BY <1>1, <2>1, <2>2, CaptureKept
  <1>3. ASSUME NEW p \in Page,
               capture'[p] # <<>> => \E c \in Taken : capture'[p] = <<c>> /\ CaptureInv(c)'
        PROVE  capture'[p] # <<>> => CaptureInv(capture[p][1])'
    <2>1. SUFFICES ASSUME capture'[p] # <<>> PROVE CaptureInv(capture[p][1])'
      OBVIOUS
    <2>2. PICK c \in Taken : capture'[p] = <<c>> /\ CaptureInv(c)'
      BY <1>3, <2>1
    <2>3. capture[p][1]' = c
      BY <2>2
    <2> QED
      BY <2>2, <2>3 DEF CaptureInv, Mergeable, RowsOf, WalkQueued, WalkShown, Walked
  <1>4. CASE capture' = capture
    BY <1>1, <1>2, <1>3, <1>4
  <1>5. ASSUME NEW p \in Page, Capture(p)
        PROVE  /\ capture' \in [Page -> {<<>>} \cup {<<c>> : c \in Taken}]
               /\ \A q \in Page : capture'[q] # <<>> => CaptureInv(capture[q][1])'
    <2> DEFINE c == [block |-> block, length |-> Len(lists[block]), loose |-> loose,
                     queuedFrom |-> queuedFrom', shownFrom |-> shownFrom',
                     generation |-> generation,
                     waiting |-> InOrder(Waiting), offered |-> InOrder(Waiting \ Hidden)]
    <2>1. capture' = [capture EXCEPT ![p] = <<c>>]
      BY <1>5 DEF Capture
    <2>2. \E d \in Taken : d = c /\ CaptureInv(d)'
      <3>1. \A d : d = c => d \in Taken /\ CaptureInv(d)'
        BY <1>1, <1>5, CaptureTakes
      <3> HIDE DEF c
      <3> QED
        BY <3>1
    <2> HIDE DEF c
    <2>3. capture'[p] = <<c>> /\ \A q \in Page \ {p} : capture'[q] = capture[q]
      BY <1>1, <2>1
    <2>4. ASSUME NEW q \in Page, capture'[q] # <<>>
          PROVE  \E d \in Taken : capture'[q] = <<d>> /\ CaptureInv(d)'
      BY <1>2, <2>2, <2>3, <2>4
    <2>5. capture' \in [Page -> {<<>>} \cup {<<d>> : d \in Taken}]
      BY <1>1, <2>1, <2>2
    <2> QED
      BY <1>3, <2>4, <2>5
  <1>6. ASSUME NEW p \in Page, Release(p)
        PROVE  /\ capture' \in [Page -> {<<>>} \cup {<<c>> : c \in Taken}]
               /\ \A q \in Page : capture'[q] # <<>> => CaptureInv(capture[q][1])'
    <2>1. capture' = [capture EXCEPT ![p] = <<>>]
      BY <1>6 DEF Release
    <2>2. capture'[p] = <<>> /\ \A q \in Page \ {p} : capture'[q] = capture[q]
      BY <1>1, <2>1
    <2>3. ASSUME NEW q \in Page, capture'[q] # <<>>
          PROVE  \E c \in Taken : capture'[q] = <<c>> /\ CaptureInv(c)'
      BY <1>2, <2>2, <2>3
    <2>4. capture' \in [Page -> {<<>>} \cup {<<c>> : c \in Taken}]
      BY <1>1, <2>1
    <2> QED
      BY <1>3, <2>3, <2>4
  <1> QED
    BY <1>4, <1>5, <1>6 DEF QueueViewNext, Add, DropRow, Hide, Relist

-----------------------------------------------------------------------------
(***************************************************************************)
(* The theorems.                                                           *)
(***************************************************************************)
LEMMA ViewInvInit == QueueViewInit => ViewInv
  <1> SUFFICES ASSUME QueueViewInit PROVE ViewInv
    OBVIOUS
  <1>1. lists = <<(<<>>)>> /\ block = 1 /\ loose = <<>> /\ capture = [p \in Page |-> <<>>]
        /\ stamps = [r \in Admission |-> Unpublished] /\ off = {} /\ replaced = {}
        /\ generation = 0 /\ queuedFrom = 1 /\ shownFrom = 1
        /\ counts = [waiting |-> 0, hidden |-> 0]
    BY DEF QueueViewInit
  <1>2. /\ Now = <<>> /\ ToSet(Now) = {} /\ ToSet(loose) = {} /\ Ascending(Now) /\ Ascending(loose)
        /\ Len(lists) = 1 /\ Len(Now) = 0
    BY <1>1 DEF Now, ToSet, Ascending
  <1>3. Waiting = {} /\ Hidden = {} /\ Known = {}
    BY <1>1 DEF Waiting, Hidden, Known, Unpublished
  <1>4. lists \in Seq(Seq(Admission)) /\ loose \in Seq(Admission) /\ block \in DOMAIN lists
    <2>1. <<>> \in Seq(Admission)
      OBVIOUS
    <2> QED
      BY <1>1, <2>1
  <1>5. QueueViewTypeOK
    <2>1. stamps \in [Admission -> [added : Nat, hidden : Nat, retired : Nat]]
      BY <1>1 DEF Unpublished
    <2>2. queuedFrom \in 1..(Len(lists[block]) + 1) /\ shownFrom \in 1..(Len(lists[block]) + 1)
      BY <1>1, <1>2 DEF Now
    <2> QED
      BY <1>1, <1>4, <2>1, <2>2 DEF QueueViewTypeOK
  <1>6. KnownInv
    BY <1>1 DEF KnownInv
  <1>7. BlockInv
    BY <1>1, <1>2, <1>3 DEF BlockInv
  <1>8. CountInv
    BY <1>1, <1>3, FS_EmptySet DEF CountInv
  <1>9. /\ capture \in [Page -> {<<>>} \cup {<<c>> : c \in Taken}]
        /\ \A p \in Page : capture[p] = <<>>
    BY <1>1
  <1> QED
    BY <1>5, <1>6, <1>7, <1>8, <1>9 DEF ViewInv

LEMMA ViewInvStep == ViewInv /\ [QueueViewNext]_queueViewVars => ViewInv'
  <1> SUFFICES ASSUME ViewInv, [QueueViewNext]_queueViewVars PROVE ViewInv'
    OBVIOUS
  <1>1. CASE QueueViewNext
    <2>1. QueueViewTypeOK /\ KnownInv /\ BlockInv /\ CountInv
      BY DEF ViewInv
    <2>2. QueueViewTypeOK' /\ KnownInv' /\ BlockInv' /\ CountInv'
      BY <1>1, <2>1, ViewTyped, KnownKept, BlockKept, CountKept
    <2>3. /\ capture' \in [Page -> {<<>>} \cup {<<c>> : c \in Taken}]
          /\ \A p \in Page : capture'[p] # <<>> => CaptureInv(capture[p][1])'
      BY <1>1, CapturesKept
    <2> QED
      BY <2>2, <2>3 DEF ViewInv
  <1>2. CASE UNCHANGED queueViewVars
    <2>1. UNCHANGED <<stamps, off, replaced, lists, block, loose, generation, queuedFrom,
                      shownFrom, counts, capture>>
      BY <1>2 DEF queueViewVars
    <2>2. QueueViewTypeOK' /\ KnownInv'
      BY <2>1 DEF ViewInv, QueueViewTypeOK, KnownInv, Known
    <2>3. BlockInv'
      BY <2>1 DEF ViewInv, BlockInv, Now, Stamped, Known, Reached, Waiting, Hidden, SkippedAt
    <2>4. CountInv'
      BY <2>1 DEF ViewInv, CountInv, Waiting, Hidden, SkippedAt
    <2>5. ASSUME NEW p \in Page, capture'[p] # <<>> PROVE CaptureInv(capture[p][1])'
      <3>1. CaptureInv(capture[p][1])
        BY <2>1, <2>5 DEF ViewInv
      <3>2. /\ Mergeable(capture[p][1])' = Mergeable(capture[p][1])
            /\ RowsOf(capture[p][1])' = RowsOf(capture[p][1])
        BY <2>1 DEF Mergeable, RowsOf
      <3>3. Known' = Known /\ Waiting' = Waiting
        BY <2>1 DEF Known, Waiting
      <3>4. WalkQueued(capture[p][1])' = WalkQueued(capture[p][1])
        BY <2>1 DEF WalkQueued, Walked, QueuedAt
      <3>5. WalkShown(capture[p][1])' = WalkShown(capture[p][1])
        BY <2>1 DEF WalkShown, Walked, QueuedAt, SkippedAt
      <3> QED
        BY <2>1, <3>1, <3>2, <3>3, <3>4, <3>5 DEF CaptureInv
    <2> QED
      BY <2>1, <2>2, <2>3, <2>4, <2>5 DEF ViewInv
  <1> QED
    BY <1>1, <1>2

\* What stands in the block and beside it is what waits, every list in order and
\* stamped within the generation, whatever QueueView's writers and readers do.
THEOREM ViewInvHolds == QueueViewSpec => []ViewInv
  BY ViewInvInit, ViewInvStep, PTL DEF QueueViewSpec

\* A page that took its rows under the scheduler's condition and walks them after
\* letting go reads one moment of the queue, whatever the writers do meanwhile.
THEOREM CapturesAlwaysStandStill == QueueViewSpec => []CapturesStandStill
  <1>1. ViewInv => CapturesStandStill
    BY DEF ViewInv, CountInv, CaptureInv, CapturesStandStill
  <1> QED
    BY <1>1, ViewInvHolds, PTL
=============================================================================
