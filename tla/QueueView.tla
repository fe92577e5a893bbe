------------------------------ MODULE QueueView ------------------------------
(***************************************************************************)
(* One run's rows as pages read them: src/trackstarr/queue_view.py, under    *)
(* the scheduler's condition of work.py.                                    *)
(*                                                                         *)
(* A reader takes references to the run's rows under the condition and walks *)
(* them after letting go, while rows are added, claimed and hidden and the   *)
(* block they stand in is appended to or replaced.  A list is an object: the *)
(* block is the number of the list it is, and a capture keeps that number.   *)
(***************************************************************************)
EXTENDS Integers, Sequences, SequencesExt, FiniteSetsExt

CONSTANTS
  Admission,  \* rows, each published once, at the rank that is its number
  Page,       \* readers
  Loose,      \* _LOOSE: rows outside the block before it is rebuilt
  MaxBlocks   \* bound on the rebuilds

ASSUME QueueViewAssumption ==
  Admission \subseteq Nat \ {0} /\ IsFiniteSet(Admission) /\ Loose \in Nat /\ MaxBlocks \in Nat \ {0}

VARIABLES
  stamps,      \* admission -> when it was added, hidden and retired; 0 for not
  off,         \* admissions published already taken off their run
  replaced,    \* admissions whose row was published again as another
  lists,       \* every list that was ever the block
  block,       \* the one that is now
  loose,       \* rows that arrived out of order, in order
  generation,
  queuedFrom, shownFrom,  \* block positions with nothing left before them
  counts,      \* the waiting rows, and those of them that are hidden
  capture      \* page -> what it took, and what it should find there

queueViewVars == <<stamps, off, replaced, lists, block, loose, generation,
                   queuedFrom, shownFrom, counts, capture>>

Unpublished == [added |-> 0, hidden |-> 0, retired |-> 0]

(***************************************************************************)
(* A row as of a generation.                                                *)
(***************************************************************************)
QueuedStill(r, g) == stamps[r].added <= g /\ stamps[r].retired = 0

QueuedAt(r, g) ==
  stamps[r].added <= g /\ (stamps[r].retired = 0 \/ stamps[r].retired > g)
SkippedAt(r, g) == r \in off \/ (stamps[r].hidden # 0 /\ stamps[r].hidden <= g)

\* What is waiting now, whatever lists it stands in.
Waiting == {r \in Admission \ replaced : stamps[r].added # 0 /\ stamps[r].retired = 0}
Hidden == {r \in Waiting : SkippedAt(r, generation)}

PlaceIn(rows, r) == Cardinality({x \in rows : x <= r})
InOrder(rows) ==
  [i \in 1..Cardinality(rows) |-> CHOOSE r \in rows : PlaceIn(rows, r) = i]

(***************************************************************************)
(* Writing, under the condition.                                            *)
(***************************************************************************)
\* The block is rebuilt once a walk would step over more than it reads.
Overgrown(blk, lse, waiting) == Len(lse) > Loose \/ Len(blk) > 2 * waiting + Loose

\* A rebuilt block is a new list: captures keep the old one.
Settle(blk, lse, now) ==
  IF Overgrown(blk, lse, counts'.waiting)
  THEN /\ lists' = Append(lists, InOrder({r \in ToSet(SubSeq(blk, queuedFrom, Len(blk)))
                                                \cup ToSet(lse) : now[r].retired = 0}))
       /\ block' = Len(lists) + 1
       /\ loose' = <<>> /\ queuedFrom' = 1 /\ shownFrom' = 1
  ELSE /\ lists' = [lists EXCEPT ![block] = blk] /\ loose' = lse
       /\ UNCHANGED <<block, queuedFrom, shownFrom>>

\* A row before the block's tail goes beside the block, any other at its end.
Add(r) ==
  LET blk == lists[block]
      beside == blk # <<>> /\ r < Last(blk)
  IN
  /\ stamps[r] = Unpublished /\ Len(lists) < MaxBlocks
  /\ generation' = generation + 1
  /\ stamps' = [stamps EXCEPT ![r].added = generation + 1]
  /\ off' \in {off, off \cup {r}}
  /\ counts' = [waiting |-> counts.waiting + 1,
                hidden |-> counts.hidden + IF r \in off' THEN 1 ELSE 0]
  /\ IF beside
     THEN Settle(blk, InOrder(ToSet(loose) \cup {r}), stamps')
     ELSE /\ lists' = [lists EXCEPT ![block] = Append(blk, r)]
          /\ UNCHANGED <<block, loose, queuedFrom, shownFrom>>
  /\ UNCHANGED <<replaced, capture>>

\* Rows of their own, which no capture has.
NewRows(rows) ==
  /\ lists' = Append(lists, InOrder(rows)) /\ block' = Len(lists) + 1
  /\ loose' = <<>> /\ queuedFrom' = 1 /\ shownFrom' = 1
  /\ generation' = Cardinality(rows)

\* Claimed, or its admission ended; rows that are all gone take their numbering along.
DropRow(r) ==
  /\ r \in Waiting /\ Len(lists) < MaxBlocks
  /\ stamps' = [stamps EXCEPT ![r].retired = generation + 1]
  /\ counts' = [waiting |-> counts.waiting - 1,
                hidden |-> counts.hidden - IF SkippedAt(r, generation + 1) THEN 1 ELSE 0]
  /\ IF counts'.waiting = 0
     THEN NewRows({})
     ELSE generation' = generation + 1 /\ Settle(lists[block], loose, stamps')
  /\ UNCHANGED <<off, replaced, capture>>

\* A command moved files: every row is published again at its new rank.
Relist(rows) ==
  /\ Waiting # {} /\ Len(lists) < MaxBlocks /\ Cardinality(rows) = Cardinality(Waiting)
  /\ \A r \in rows : stamps[r] = Unpublished
  /\ replaced' = replaced \cup Waiting
  /\ stamps' = [r \in Admission |-> IF r \in rows
                  THEN [Unpublished EXCEPT !.added = PlaceIn(rows, r)]
                  ELSE stamps[r]]
  /\ \E gone \in kSubset(counts.hidden, rows) : off' = off \cup gone
  /\ NewRows(rows)
  /\ UNCHANGED <<counts, capture>>

\* Taken off its run; it keeps its place until a worker reaches it.  Asking again
\* changes nothing.
Hide(r) ==
  /\ r \in Waiting /\ ~SkippedAt(r, generation)
  /\ generation' = generation + 1
  /\ stamps' = [stamps EXCEPT ![r].hidden = generation + 1]
  /\ counts' = [counts EXCEPT !.hidden = @ + 1]
  /\ UNCHANGED <<off, replaced, lists, block, loose, queuedFrom, shownFrom, capture>>

(***************************************************************************)
(* Reading.                                                                 *)
(***************************************************************************)
\* The first position from `start` with one of the rows, or past the end.
Advance(start, rows) ==
  Min({i \in start..Len(lists[block]) : lists[block][i] \in rows} \cup {Len(lists[block]) + 1})

Capture(p) ==
  /\ capture[p] = <<>>
  /\ queuedFrom' = Advance(queuedFrom, {r \in Admission : stamps[r].retired = 0})
  /\ shownFrom' = Advance(shownFrom, Waiting \ Hidden)
  /\ capture' = [capture EXCEPT ![p] = <<[
       block |-> block, length |-> Len(lists[block]), loose |-> loose,
       queuedFrom |-> queuedFrom', shownFrom |-> shownFrom', generation |-> generation,
       waiting |-> InOrder(Waiting), offered |-> InOrder(Waiting \ Hidden)]>>]
  /\ UNCHANGED <<stamps, off, replaced, lists, block, loose, generation, counts>>

\* What is left of the block and what stands beside it: two lists in order that
\* share no row, so their merge has each row once and in order.
Walked(c, start) == ToSet(SubSeq(lists[c.block], start, c.length)) \cup ToSet(c.loose)
WalkQueued(c) == InOrder({r \in Walked(c, c.queuedFrom) : QueuedAt(r, c.generation)})
WalkShown(c) ==
  InOrder({r \in Walked(c, c.shownFrom) :
             QueuedAt(r, c.generation) /\ ~SkippedAt(r, c.generation)})

Release(p) ==
  /\ capture[p] # <<>>
  /\ capture' = [capture EXCEPT ![p] = <<>>]
  /\ UNCHANGED <<stamps, off, replaced, lists, block, loose, generation, queuedFrom, shownFrom, counts>>

QueueViewInit ==
  /\ stamps = [r \in Admission |-> Unpublished] /\ off = {} /\ replaced = {}
  /\ lists = <<(<<>>)>> /\ block = 1 /\ loose = <<>> /\ generation = 0
  /\ queuedFrom = 1 /\ shownFrom = 1
  /\ counts = [waiting |-> 0, hidden |-> 0]
  /\ capture = [p \in Page |-> <<>>]

QueueViewNext ==
  \/ \E r \in Admission : Add(r) \/ DropRow(r) \/ Hide(r)
  \/ \E rows \in SUBSET Admission : Relist(rows)
  \/ \E p \in Page : Capture(p) \/ Release(p)

QueueViewSpec == QueueViewInit /\ [][QueueViewNext]_queueViewVars

QueueViewTypeOK ==
  /\ stamps \in [Admission -> [added : Nat, hidden : Nat, retired : Nat]]
  /\ {off, replaced} \subseteq SUBSET Admission /\ generation \in Nat /\ block \in DOMAIN lists
  /\ lists \in Seq(Seq(Admission)) /\ loose \in Seq(Admission)
  /\ queuedFrom \in 1..(Len(lists[block]) + 1) /\ shownFrom \in 1..(Len(lists[block]) + 1)

Ascending(rows) == \A i, j \in DOMAIN rows : i < j => rows[i] < rows[j]
Mergeable(c) ==
  LET rows == SubSeq(lists[c.block], 1, c.length)
  IN Ascending(rows) /\ Ascending(c.loose) /\ ToSet(rows) \cap ToSet(c.loose) = {}

\* A capture is one moment of the queue: however long its reader takes, and whatever
\* is added, claimed, hidden and rebuilt meanwhile, what it took can be merged, its
\* walks give the rows that waited, and those on offer, when it was taken, each once
\* and in queue order; and the counts a page is told are those of the rows.
CapturesStandStill ==
  /\ counts = [waiting |-> Cardinality(Waiting), hidden |-> Cardinality(Hidden)]
  /\ \A p \in Page : capture[p] # <<>> =>
       /\ Mergeable(capture[p][1])
       /\ WalkQueued(capture[p][1]) = capture[p][1].waiting
       /\ WalkShown(capture[p][1]) = capture[p][1].offered
=============================================================================
