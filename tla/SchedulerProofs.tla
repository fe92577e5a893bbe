---------------------------- MODULE SchedulerProofs ----------------------------
(***************************************************************************)
(* What holds of the shared queue for any runs, files, lanes and commands.  *)
(***************************************************************************)
EXTENDS Scheduler, FiniteSetTheorems, WellFoundedInduction, TLAPS

-----------------------------------------------------------------------------
(***************************************************************************)
(* Lemmas about the helpers.                                               *)
(***************************************************************************)

\* A key is a run and a path of the instance.
LEMMA KeyParts == \A k \in Keys : Run(k) \in Runs /\ Path(k) \in Paths
  BY SchedulerAssumption DEF Run, Path

\* A heap entry built from a task is an entry.
LEMMA EntryTypes ==
  ASSUME NEW k \in Keys, NEW T \in [Keys -> Task], NEW stops
  PROVE  EntryOf(k, T, stops) \in Entry
  <1>1. T[k] \in Task
    OBVIOUS
  <1>2. T[k].skipped \in BOOLEAN /\ T[k].priority \in BOOLEAN /\ T[k].rank \in Int
    BY <1>1 DEF Task
  <1>3. Abandoned(T[k], Run(k), stops) \in BOOLEAN
    BY DEF Abandoned
  <1> QED
    BY <1>2, <1>3 DEF EntryOf, Entry

\* _index keeps the heaps well formed.
LEMMA IndexTypes ==
  ASSUME NEW ks \in SUBSET Keys, NEW T \in [Keys -> Task], NEW stops,
         indexed \subseteq Keys, entries \in [Keys -> Entry], Index(ks, T, stops)
  PROVE  indexed' \subseteq Keys /\ entries' \in [Keys -> Entry]
  <1>1. \A k \in Keys : EntryOf(k, T, stops) \in Entry
    BY EntryTypes
  <1> QED
    BY <1>1 DEF Index

\* _refresh keeps the heaps well formed and the heaps' members.
LEMMA RefreshTypes ==
  ASSUME NEW ks, NEW T \in [Keys -> Task], NEW stops,
         indexed \subseteq Keys, entries \in [Keys -> Entry], Refresh(ks, T, stops)
  PROVE  indexed' = indexed /\ parked' = parked /\ entries' \in [Keys -> Entry]
  <1>1. ks \cap indexed \in SUBSET Keys
    OBVIOUS
  <1>2. Index(ks \cap indexed, T, stops) /\ parked' = parked
    BY DEF Refresh
  <1>3. indexed' = indexed
    BY <1>2 DEF Index
  <1> QED
    BY <1>1, <1>2, <1>3, IndexTypes

\* _wake_path moves parked keys to the heaps and keeps both well formed.
LEMMA WakeTypes ==
  ASSUME NEW ps, tasks \in [Keys -> Task], parked \subseteq Keys,
         indexed \subseteq Keys, entries \in [Keys -> Entry], Wake(ps)
  PROVE  /\ indexed' \subseteq Keys /\ entries' \in [Keys -> Entry]
         /\ parked' = parked \ {k \in parked : Path(k) \in ps}
         /\ indexed' = indexed \cup {k \in parked : Path(k) \in ps}
  <1> DEFINE woken == {k \in parked : Path(k) \in ps}
  <1>1. woken \in SUBSET Keys
    OBVIOUS
  <1>2. parked' = parked \ woken /\ Index(woken, tasks, stopping)
    BY DEF Wake
  <1>3. indexed' = indexed \cup woken
    BY <1>2 DEF Index
  <1> HIDE DEF woken
  <1>4. indexed' \subseteq Keys /\ entries' \in [Keys -> Entry]
    BY <1>1, <1>2, IndexTypes
  <1> QED
    BY <1>2, <1>3, <1>4 DEF woken

\* retire_run forgets a run's control, close and stop together.
LEMMA RetireTypes ==
  ASSUME NEW r, NEW closes, NEW fills, NEW n, NEW owes, open \subseteq Runs,
         closes \subseteq open, stopping \subseteq open,
         Retire(r, closes, fills, n, owes)
  PROVE  open' \subseteq Runs /\ closing' \subseteq open' /\ stopping' \subseteq open'
  BY DEF Retire

-----------------------------------------------------------------------------
(***************************************************************************)
(* Type correctness, one lemma per group of actions.                        *)
(***************************************************************************)

\* The initial state is typed.
LEMMA InitTypes == Init => TypeOK
  <1> SUFFICES ASSUME Init PROVE TypeOK
    OBVIOUS
  <1>1. NoTask \in Task /\ NoEntry \in Entry
    BY DEF NoTask, NoEntry, Task, Entry, Stages, Lanes
  <1>2. tasks \in [Keys -> Task] /\ entries \in [Keys -> Entry]
    BY <1>1 DEF Init
  <1>3. DOMAIN undo \subseteq Nat /\ \A h \in DOMAIN undo : undo[h] \in Int
    BY DEF Init, NoUndo
  <1>4. /\ occupied \in [Lanes -> Int] /\ live \in [Runs -> Int] /\ owed \in [Runs -> Int]
        /\ group \in [Runs -> {"none", "open", "closed", "drained"}]
        /\ command \in [Commands -> {"idle", "writing", "committed"}]
        /\ selection \in [Commands -> SUBSET Keys]
    BY DEF Init
  <1>5. /\ indexed = {} /\ parked = {} /\ activePaths = {} /\ holding = {} /\ tails = {}
        /\ open = {} /\ closing = {} /\ stopping = {} /\ skipIndex = {} /\ filling = {}
        /\ reserved = {} /\ delivered = {} /\ concluded = {}
    BY DEF Init
  <1>6. settling \in Int /\ sequence \in Nat /\ front \in Int
    BY DEF Init
  <1>7. paused \in BOOLEAN /\ closed \in BOOLEAN /\ halted \in BOOLEAN
    BY Zenon DEF Init
  <1> QED
    BY <1>2, <1>3, <1>4, <1>5, <1>6, <1>7 DEF TypeOK

\* A run's opening, sealing and closing keep the types.
LEMMA ProducingTypes == TypeOK /\ Producing => TypeOK'
  <1> SUFFICES ASSUME TypeOK, Producing PROVE TypeOK'
    OBVIOUS
  <1>1. ASSUME NEW r \in Runs, NEW fills \in BOOLEAN, OpenRun(r, fills) PROVE TypeOK'
    BY <1>1 DEF TypeOK, OpenRun, index, workers, ranks, service, pauses, answers, InState
  <1>2. ASSUME NEW r \in Runs, Seal(r) PROVE TypeOK'
    <2>1. open' \subseteq Runs /\ closing' \subseteq open' /\ stopping' \subseteq open'
      BY <1>2, RetireTypes DEF Seal, TypeOK
    <2> QED
      BY <1>2, <2>1 DEF TypeOK, Seal, index, workers, ranks, service, pauses, answers, InState
  <1>3. ASSUME NEW r \in Runs, CloseRun(r) PROVE TypeOK'
    <2>1. closing \cup {r} \subseteq open
      BY <1>3 DEF CloseRun, TypeOK
    <2>2. open' \subseteq Runs /\ closing' \subseteq open' /\ stopping' \subseteq open'
      BY <1>3, <2>1, RetireTypes DEF CloseRun, TypeOK
    <2> QED
      BY <1>3, <2>2 DEF TypeOK, CloseRun, index, workers, ranks, service, registry,
                        pauses, answers, InState
  <1>4. ASSUME NEW r \in Runs, CloseGroup(r) PROVE TypeOK'
    BY <1>4 DEF TypeOK, CloseGroup, index, workers, ranks, service, controls, registry,
                pauses, answers, InState
  <1>5. ASSUME NEW r \in Runs, DrainGroup(r) PROVE TypeOK'
    BY <1>5 DEF TypeOK, DrainGroup, index, workers, ranks, service, controls, registry,
                pauses, answers, InState
  <1> QED
    BY <1>1, <1>2, <1>3, <1>4, <1>5 DEF Producing

\* So do admissions and decisions.
LEMMA AdmittingTypes == TypeOK /\ Admitting => TypeOK'
  <1> SUFFICES ASSUME TypeOK, Admitting PROVE TypeOK'
    OBVIOUS
  <1>1. ASSUME NEW k \in Keys, NEW urgent \in BOOLEAN, Submit(k, urgent) PROVE TypeOK'
    <2>1. tasks' \in [Keys -> Task]
      BY <1>1 DEF Submit, TypeOK, Task, Stages, Lanes
    <2>2. indexed' \subseteq Keys /\ entries' \in [Keys -> Entry]
      BY <1>1, <2>1, IndexTypes DEF Submit, TypeOK
    <2>3. holding' \subseteq InState("active")'
      BY <1>1 DEF Submit, Admits, TypeOK, InState, workers
    <2> QED
      BY <1>1, <2>1, <2>2, <2>3, KeyParts
      DEF TypeOK, Submit, workers, service, pauses, answers
  <1>2. ASSUME NEW k \in Keys, NEW h \in 1..sequence, ContinueFile(k, h) PROVE TypeOK'
    <2> DEFINE rank(hurry) == IF hurry THEN front - 1 ELSE tasks[k].rank
               next(hurry) == [tasks[k] EXCEPT !.state = "pending", !.lane = "work",
                                               !.priority = FALSE, !.rank = rank(hurry)]
    <2>0. PICK hurry \in BOOLEAN : /\ front' = IF hurry THEN front - 1 ELSE front
                                   /\ tasks' = [tasks EXCEPT ![k] = next(hurry)]
      BY <1>2 DEF ContinueFile
    <2>a. tasks[k] \in Task /\ rank(hurry) \in Int
      BY DEF TypeOK, Task
    <2>b. next(hurry) \in Task
      BY <2>a DEF Task, Stages, Lanes
    <2> HIDE DEF next
    <2>1. tasks' \in [Keys -> Task] /\ front' \in Int
      BY <2>0, <2>b DEF TypeOK
    <2>2. indexed' \subseteq Keys /\ entries' \in [Keys -> Entry]
      BY <1>2, <2>1, IndexTypes DEF ContinueFile, TypeOK
    <2>3. holding' \subseteq InState("active")'
      BY <1>2 DEF ContinueFile, Decides, TypeOK, InState, workers
    <2> QED
      BY <1>2, <2>1, <2>2, <2>3
      DEF TypeOK, ContinueFile, workers, service, controls, registry, pauses, answers
  <1>3. ASSUME NEW k \in Keys, NEW h \in 1..sequence, CompleteFile(k, h) PROVE TypeOK'
    <2>1. /\ tasks' = [tasks EXCEPT ![k] = NoTask]
          /\ live' = [live EXCEPT ![Run(k)] = @ - 1]
          /\ skipIndex' = skipIndex \ {k}
      BY <1>3 DEF CompleteFile, Terminal
    <2>2. open' \subseteq Runs /\ closing' \subseteq open' /\ stopping' \subseteq open'
      BY <1>3, RetireTypes DEF CompleteFile, Terminal, TypeOK
    <2>3. tasks' \in [Keys -> Task]
      BY <2>1 DEF TypeOK, NoTask, Task, Stages, Lanes
    <2>4. holding' \subseteq InState("active")'
      BY <1>3, <2>1 DEF CompleteFile, Decides, TypeOK, InState
    <2>5. tails' \subseteq Tail
      <3>1. h \in Nat
        BY DEF TypeOK
      <3>2. [key |-> k, handle |-> h, lane |-> "decision", final |-> TRUE,
             stage |-> "callbacks"] \in Tail
        BY <3>1 DEF Tail, Lanes
      <3> QED
        BY <1>3, <3>2 DEF CompleteFile, TypeOK
    <2> QED
      BY <1>3, <2>1, <2>2, <2>3, <2>4, <2>5, KeyParts
      DEF TypeOK, CompleteFile, index, ranks, service, registry, pauses, answers
  <1> QED
    BY <1>1, <1>2, <1>3 DEF Admitting, Decide

\* So does a worker's whole way: claim, call, release, callbacks.
LEMMA WorkingTypes == TypeOK /\ Working => TypeOK'
  <1> SUFFICES ASSUME TypeOK, Working PROVE TypeOK'
    OBVIOUS
  <1> USE DEF TypeOK
  <1>0. Heads \subseteq indexed /\ SetAside \subseteq indexed
    BY DEF Heads, SetAside
  <1>1. ASSUME NEW k \in Keys, Claim(k) PROVE TypeOK'
    <2>1. tasks' = [tasks EXCEPT ![k].state = "active"]
      BY <1>1 DEF Claim
    <2>2. tasks[k].lane \in Lanes
      BY DEF Task
    <2>3. tasks' \in [Keys -> Task]
      BY <2>1 DEF Task, Stages
    <2>4. holding' \subseteq InState("active")'
      BY <1>1, <2>1 DEF Claim, InState
    <2>5. indexed' \subseteq Keys /\ entries' \in [Keys -> Entry] /\ parked' \subseteq Keys
      <3>1. NoEntry \in Entry
        BY DEF NoEntry, Entry
      <3> QED
        BY <1>0, <1>1, <3>1 DEF Claim, Drop
    <2>6. occupied' \in [Lanes -> Int] /\ activePaths' \subseteq Paths /\ settling' \in Int
      BY <1>1, <2>2, KeyParts DEF Claim
    <2> QED
      BY <1>1, <2>3, <2>4, <2>5, <2>6
      DEF Claim, ranks, service, controls, registry, pauses, answers
  <1>2. ASSUME ClaimNothing PROVE TypeOK'
    <2>1. NoEntry \in Entry
      BY DEF NoEntry, Entry
    <2>2. indexed' \subseteq Keys /\ entries' \in [Keys -> Entry] /\ parked' \subseteq Keys
      BY <1>0, <1>2, <2>1 DEF ClaimNothing, Drop
    <2> QED
      BY <1>2, <2>2
      DEF ClaimNothing, workers, ranks, service, controls, registry, pauses, answers, InState
  <1>3. ASSUME NEW k \in Keys, NEW failed \in BOOLEAN, Finish(k, failed) PROVE TypeOK'
    <2> DEFINE final == Ends(tasks[k], failed)
               tail == [key |-> k, handle |-> tasks[k].handle, lane |-> tasks[k].lane,
                        final |-> final, stage |-> "callbacks"]
    <2>1. tasks[k] \in Task /\ tasks[k].lane \in Lanes /\ tasks[k].handle \in Nat
      BY DEF Task
    <2>2. tail \in Tail
      <3>1. final \in BOOLEAN
        BY DEF Ends
      <3> QED
        BY <2>1, <3>1 DEF Tail
    <2>3. tails' \subseteq Tail
      BY <1>3, <2>2 DEF Finish
    <2>4. indexed' \subseteq Keys /\ entries' \in [Keys -> Entry] /\ parked' \subseteq Keys
      BY <1>3, WakeTypes DEF Finish
    <2>5. /\ tasks' \in [Keys -> Task] /\ live' \in [Runs -> Int] /\ skipIndex' \subseteq Keys
          /\ open' \subseteq Runs /\ closing' \subseteq open' /\ stopping' \subseteq open'
          /\ \A j \in Keys \ {k} : tasks'[j] = tasks[j]
      <3>1. CASE final
        <4>1. Terminal(k)
          BY <1>3, <3>1 DEF Finish
        <4>2. open' \subseteq Runs /\ closing' \subseteq open' /\ stopping' \subseteq open'
          BY <4>1, RetireTypes DEF Terminal
        <4>3. NoTask \in Task
          BY DEF NoTask, Task, Stages, Lanes
        <4> QED
          BY <4>1, <4>2, <4>3, KeyParts DEF Terminal
      <3>2. CASE ~final
        <4>1. tasks' = [tasks EXCEPT ![k].state = "awaiting"] /\ UNCHANGED controls
          BY <1>3, <3>2 DEF Finish
        <4> QED
          BY <2>1, <4>1 DEF controls, Task, Stages
      <3> QED
        BY <3>1, <3>2
    <2>6. holding' \subseteq InState("active")'
      BY <1>3, <2>5 DEF Finish, InState
    <2>7. occupied' \in [Lanes -> Int] /\ activePaths' \subseteq Paths
      BY <1>3, <2>1 DEF Finish
    <2> QED
      BY <1>3, <2>3, <2>4, <2>5, <2>6, <2>7 DEF Finish, ranks, service, registry, pauses, answers
  <1>4. ASSUME NEW t \in tails, Callbacks(t) PROVE TypeOK'
    <2>1. /\ t \in Tail /\ t.handle \in Nat /\ Run(t.key) \in Runs
          /\ [t EXCEPT !.stage = "settle"] \in Tail
      BY KeyParts DEF Tail
    <2>2. tails' \subseteq Tail /\ delivered' \subseteq Nat /\ concluded' \subseteq Nat
      BY <1>4, <2>1 DEF Callbacks
    <2>3. open' \subseteq Runs /\ closing' \subseteq open' /\ stopping' \subseteq open'
      BY <1>4, RetireTypes DEF Callbacks
    <2>4. owed' \in [Runs -> Int]
      BY <1>4, <2>1 DEF Callbacks
    <2> QED
      BY <1>4, <2>2, <2>3, <2>4 DEF Callbacks, index, ranks, service, pauses, InState
  <1>5. ASSUME NEW t \in tails, Settle(t) PROVE TypeOK'
    BY <1>5 DEF Settle, index, ranks, service, controls, registry, pauses, answers, InState
  <1> QED
    BY <1>1, <1>2, <1>3, <1>4, <1>5 DEF Working, Dispatch, TailStep

\* What stops, skips and pause commands do to the tasks they mark.
LEMMA MarkTypes ==
  ASSUME TypeOK, NEW ks \in SUBSET Keys, MarkSkipped(ks)
  PROVE  /\ tasks' \in [Keys -> Task] /\ skipIndex' \subseteq Keys
         /\ entries' \in [Keys -> Entry] /\ indexed' = indexed /\ parked' = parked
         /\ \A k \in Keys : tasks'[k].state = tasks[k].state
  <1>1. \A k \in Keys : [tasks[k] EXCEPT !.skipped = TRUE] \in Task
    <2>1. \A k \in Keys : tasks[k] \in Task
      BY DEF TypeOK
    <2>2. \A t \in Task : [t EXCEPT !.skipped = TRUE] \in Task
      BY DEF Task
    <2> QED
      BY <2>1, <2>2
  <1>2. tasks' = [k \in Keys |-> IF k \in ks THEN [tasks[k] EXCEPT !.skipped = TRUE]
                                             ELSE tasks[k]]
    BY DEF MarkSkipped
  <1>3. tasks' \in [Keys -> Task]
    BY <1>1, <1>2 DEF TypeOK
  <1>4. \A k \in Keys : tasks'[k].state = tasks[k].state
    BY <1>2 DEF TypeOK, Task
  <1>5. entries' \in [Keys -> Entry] /\ indexed' = indexed /\ parked' = parked
    BY <1>3, RefreshTypes DEF MarkSkipped, TypeOK
  <1> QED
    BY <1>3, <1>4, <1>5 DEF MarkSkipped, TypeOK

\* The selection of a command is made of keys that wait.
LEMMA SelectedWaits == \A S : Selected(S) \subseteq InState("pending") \ reserved
  BY DEF Selected

\* Marking keys skipped keeps the types.
LEMMA MarkKeepsTypes ==
  ASSUME TypeOK, NEW ks \in SUBSET Keys, MarkSkipped(ks),
         command' \in [Commands -> {"idle", "writing", "committed"}],
         UNCHANGED <<reserved, selection>>
  PROVE  TypeOK'
  <1>1. holding' \subseteq InState("active")'
    BY MarkTypes DEF TypeOK, InState, MarkSkipped, workers
  <1> QED
    BY <1>1, MarkTypes
    DEF TypeOK, MarkSkipped, workers, ranks, service, registry, answers

\* Stops and skips keep the types.
LEMMA AbandoningTypes == TypeOK /\ (Abandoning \/ StopAll) => TypeOK'
  <1> SUFFICES ASSUME TypeOK, Abandoning \/ StopAll PROVE TypeOK'
    OBVIOUS
  <1>1. ASSUME NEW r \in Runs, Stop(r) PROVE TypeOK'
    <2>1. indexed' = indexed /\ parked' = parked /\ entries' \in [Keys -> Entry]
      BY <1>1, RefreshTypes DEF Stop, TypeOK
    <2> QED
      BY <1>1, <2>1
      DEF TypeOK, Stop, workers, ranks, service, registry, pauses, answers, InState
  <1>2. ASSUME StopAll PROVE TypeOK'
    <2>1. indexed' = indexed /\ parked' = parked /\ entries' \in [Keys -> Entry]
      BY <1>2, RefreshTypes DEF StopAll, TypeOK
    <2> QED
      BY <1>2, <2>1
      DEF TypeOK, StopAll, workers, ranks, service, registry, pauses, answers, InState
  <1>3. ASSUME NEW S \in SUBSET Keys, Skip(S) PROVE TypeOK'
    <2>1. Selected(S) \in SUBSET Keys
      BY SelectedWaits DEF InState
    <2> QED
      BY <1>3, <2>1, MarkKeepsTypes DEF Skip, pauses, TypeOK
  <1>4. ASSUME NEW k \in Keys, SkipFile(k) PROVE TypeOK'
    BY <1>4, MarkKeepsTypes DEF SkipFile, pauses, TypeOK
  <1> QED
    BY <1>1, <1>2, <1>3, <1>4 DEF Abandoning

\* The three critical sections of a pause command keep the types.
LEMMA PausingTypes == TypeOK /\ Pausing => TypeOK'
  <1> SUFFICES ASSUME TypeOK, Pausing PROVE TypeOK'
    OBVIOUS
  <1>1. ASSUME NEW c \in Commands, NEW S \in SUBSET Keys, Reserve(c, S) PROVE TypeOK'
    <2>1. Selected(S) \in SUBSET Keys
      BY SelectedWaits DEF InState
    <2> QED
      BY <1>1, <2>1 DEF TypeOK, Reserve, index, workers, ranks, service, controls, registry,
                        answers, InState
  <1>2. ASSUME NEW c \in Commands, Commit(c) PROVE TypeOK'
    BY <1>2, MarkKeepsTypes DEF Commit, TypeOK
  <1>3. ASSUME NEW c \in Commands, Release(c) PROVE TypeOK'
    <2>1. indexed' \subseteq Keys /\ entries' \in [Keys -> Entry] /\ parked' \subseteq Keys
      BY <1>3, WakeTypes DEF Release, TypeOK
    <2> QED
      BY <1>3, <2>1 DEF TypeOK, Release, workers, ranks, service, controls, registry,
                        answers, InState
  <1> QED
    BY <1>1, <1>2, <1>3 DEF Pausing

\* A reorder that gives every task a rank keeps the types.
LEMMA ReorderTypes ==
  ASSUME TypeOK, NEW T \in [Keys -> Task], Reorder(T),
         \A k \in Keys : T[k].state = tasks[k].state,
         front' \in Int, DOMAIN undo' \subseteq Nat, \A h \in DOMAIN undo' : undo'[h] \in Int
  PROVE  TypeOK'
  <1>1. tasks' = T
    BY DEF Reorder
  <1>2. indexed' = indexed /\ parked' = parked /\ entries' \in [Keys -> Entry]
    BY RefreshTypes DEF Reorder, TypeOK
  <1>3. holding' \subseteq InState("active")'
    BY <1>1 DEF Reorder, TypeOK, InState, workers
  <1> QED
    BY <1>1, <1>2, <1>3
    DEF TypeOK, Reorder, workers, service, controls, registry, pauses, answers

\* The count of any selection of keys is a number.
LEMMA SelectionCounts == \A ks \in SUBSET Keys : Cardinality(ks) \in Nat
  BY SchedulerAssumption, FS_Subset, FS_CardinalityType

\* _front ranks a selection with integers.
LEMMA FrontTypes ==
  ASSUME TypeOK, NEW ks \in SUBSET Keys, Front(ks),
         DOMAIN undo' \subseteq Nat, \A h \in DOMAIN undo' : undo'[h] \in Int
  PROVE  TypeOK'
  <1> DEFINE place(k) == Cardinality({j \in ks : Before(tasks[j], tasks[k])})
             first == front - Cardinality(ks)
             ranked(k) == [tasks[k] EXCEPT !.rank = first + place(k)]
             T == [k \in Keys |-> IF k \in ks THEN ranked(k) ELSE tasks[k]]
  <1>1. Reorder(T) /\ front' = first
    BY DEF Front
  <1>2. first \in Int
    BY SelectionCounts DEF TypeOK
  <1>3. \A k \in Keys : place(k) \in Nat
    <2>1. \A k \in Keys : {j \in ks : Before(tasks[j], tasks[k])} \in SUBSET Keys
      OBVIOUS
    <2> QED
      BY <2>1, SelectionCounts
  <1> HIDE DEF place, first
  <1>4. \A k \in Keys : first + place(k) \in Int
    BY <1>2, <1>3
  <1>5. \A k \in Keys : ranked(k) \in Task /\ ranked(k).state = tasks[k].state
    BY <1>4 DEF TypeOK, Task
  <1> HIDE DEF ranked
  <1>6. T \in [Keys -> Task] /\ \A k \in Keys : T[k].state = tasks[k].state
    BY <1>5 DEF TypeOK
  <1> HIDE DEF T
  <1> QED
    BY <1>1, <1>2, <1>6, ReorderTypes

\* Moves, promotions and undos keep the types.
LEMMA ReorderingTypes == TypeOK /\ Reordering => TypeOK'
  <1> SUFFICES ASSUME TypeOK, Reordering PROVE TypeOK'
    OBVIOUS
  <1>1. ASSUME NEW S \in SUBSET Keys, MoveTop(S) PROVE TypeOK'
    <2> DEFINE handles == {tasks[k].handle : k \in Live}
               holder(h) == CHOOSE k \in Live : tasks[k].handle = h
    <2>1. undo' = [h \in handles |-> tasks[holder(h)].rank] /\ Front(Selected(S))
      BY <1>1 DEF MoveTop
    <2>2. handles \subseteq Nat
      BY DEF TypeOK, Task, Live
    <2>3. \A h \in handles : holder(h) \in Keys
      BY DEF Live
    <2>4. \A k \in Keys : tasks[k].rank \in Int
      BY DEF TypeOK, Task
    <2> HIDE DEF handles, holder
    <2>5. DOMAIN undo' \subseteq Nat /\ \A h \in DOMAIN undo' : undo'[h] \in Int
      BY <2>1, <2>2, <2>3, <2>4
    <2>6. Selected(S) \in SUBSET Keys
      BY SelectedWaits DEF InState
    <2> QED
      BY <2>1, <2>5, <2>6, FrontTypes
  <1>2. ASSUME NEW r \in Runs, NEW S \in SUBSET Keys, Hurry(r, S) PROVE TypeOK'
    <2> DEFINE work == {k \in S \ reserved : Run(k) = r /\ tasks[k].lane = "work"}
    <2>1. Front(Selected(work)) /\ undo' = undo
      BY <1>2 DEF Hurry
    <2>2. Selected(work) \in SUBSET Keys
      BY SelectedWaits DEF InState
    <2> QED
      BY <2>1, <2>2, FrontTypes DEF TypeOK
  <1>3. ASSUME Restore PROVE TypeOK'
    <2> DEFINE kept == {k \in Live : tasks[k].handle \in DOMAIN undo}
               ranked(k) == [tasks[k] EXCEPT !.rank = undo[tasks[k].handle]]
               T == [k \in Keys |-> IF k \in kept THEN ranked(k) ELSE tasks[k]]
    <2>1. Reorder(T) /\ front' = front /\ undo' = NoUndo
      BY <1>3 DEF Restore
    <2>2. \A k \in kept : ranked(k) \in Task /\ ranked(k).state = tasks[k].state
      BY DEF TypeOK, Task, Live
    <2> HIDE DEF ranked, kept
    <2>3. T \in [Keys -> Task] /\ \A k \in Keys : T[k].state = tasks[k].state
      BY <2>2 DEF TypeOK
    <2> HIDE DEF T
    <2>4. DOMAIN undo' \subseteq Nat /\ \A h \in DOMAIN undo' : undo'[h] \in Int
      BY <2>1 DEF NoUndo
    <2> QED
      BY <2>1, <2>3, <2>4, ReorderTypes DEF TypeOK
  <1> QED
    BY <1>1, <1>2, <1>3 DEF Reordering

\* The service's own steps keep the types.
LEMMA ServiceTypes == TypeOK /\ (Holding \/ Close \/ Halt) => TypeOK'
  <1> SUFFICES ASSUME TypeOK, Holding \/ Close \/ Halt PROVE TypeOK'
    OBVIOUS
  <1>1. ASSUME NEW on \in BOOLEAN, SetPaused(on) PROVE TypeOK'
    BY <1>1 DEF TypeOK, SetPaused, index, workers, ranks, controls, registry, pauses,
                answers, InState
  <1>2. ASSUME NEW k \in Keys, EnterHold(k) PROVE TypeOK'
    BY <1>2 DEF TypeOK, EnterHold, index, ranks, service, controls, registry, pauses,
                answers, InState
  <1>3. ASSUME Close PROVE TypeOK'
    BY <1>3 DEF TypeOK, Close, index, workers, ranks, controls, registry, pauses,
                answers, InState
  <1>4. ASSUME Halt PROVE TypeOK'
    BY <1>4 DEF TypeOK, Halt, index, workers, ranks, controls, registry, pauses,
                answers, InState
  <1> QED
    BY <1>1, <1>2, <1>3, <1>4 DEF Holding

\* Every step keeps the types.
LEMMA TypesKept == TypeOK /\ [Next]_vars => TypeOK'
  <1> SUFFICES ASSUME TypeOK, [Next]_vars PROVE TypeOK'
    OBVIOUS
  <1>1. CASE UNCHANGED vars
    BY <1>1 DEF TypeOK, vars, index, workers, ranks, service, controls, registry, pauses,
                answers, InState
  <1>2. CASE Next
    BY <1>2, ProducingTypes, AdmittingTypes, WorkingTypes, AbandoningTypes, PausingTypes,
       ReorderingTypes, ServiceTypes
    DEF Next, Ending
  <1> QED
    BY <1>1, <1>2

\* The scheduler's state is well typed whatever the runs, files, lanes and
\* commands are, and a run that is closing or stopping has a control.
THEOREM TypeCorrect == Spec => []TypeOK
  <1>1. Init => TypeOK
    BY InitTypes
  <1>2. TypeOK /\ [Next]_vars => TypeOK'
    BY TypesKept
  <1> QED
    BY <1>1, <1>2, PTL DEF Spec

-----------------------------------------------------------------------------
(***************************************************************************)
(* Dispatch safety.  Which files workers hold, which wait in a heap and     *)
(* which are set aside have to be known together: a claim keeps files apart *)
(* because activePaths is exact, a parked file is woken because what blocks *)
(* it is exact, and a reserved file stays because a claim skips it.         *)
(***************************************************************************)

\* The inductive invariant of dispatch.
DispatchInv ==
  TypeOK /\ OneWorkerPerFile /\ EveryWaiterIsReachable /\ ReservedFilesWait

\* A step that moves no file, no heap entry and no reservation keeps it.
LEMMA ShapeKept ==
  ASSUME DispatchInv, TypeOK', \A k \in Keys : tasks'[k].state = tasks[k].state,
         UNCHANGED <<indexed, parked, activePaths, reserved, selection>>,
         \A c \in Commands : command'[c] = "idle" => command[c] = "idle"
  PROVE  DispatchInv'
  <1>1. InState("active")' = InState("active") /\ InState("pending")' = InState("pending")
    BY DEF InState
  <1>2. \A k \in Keys : Blocked(k)' <=> Blocked(k)
    BY DEF Blocked
  <1>3. OneWorkerPerFile'
    BY <1>1 DEF DispatchInv, OneWorkerPerFile
  <1>4. EveryWaiterIsReachable'
    BY <1>1, <1>2 DEF DispatchInv, EveryWaiterIsReachable, TypeOK
  <1>5. ReservedFilesWait'
    BY <1>1 DEF DispatchInv, ReservedFilesWait
  <1> QED
    BY <1>3, <1>4, <1>5 DEF DispatchInv

\* Initially nothing waits and nothing runs.
LEMMA InitDispatch == Init => DispatchInv
  <1> SUFFICES ASSUME Init PROVE DispatchInv
    OBVIOUS
  <1>1. TypeOK
    BY InitTypes
  <1>2. InState("active") = {} /\ InState("pending") = {}
    BY DEF Init, InState, NoTask
  <1>3. activePaths = {} /\ indexed = {} /\ parked = {} /\ reserved = {}
        /\ \A c \in Commands : selection[c] = {}
    BY DEF Init
  <1> QED
    BY <1>1, <1>2, <1>3
    DEF DispatchInv, OneWorkerPerFile, EveryWaiterIsReachable, ReservedFilesWait

\* An admission waits in a heap.
LEMMA SubmitDispatch ==
  ASSUME DispatchInv, TypeOK', NEW k \in Keys, NEW urgent, Submit(k, urgent)
  PROVE  DispatchInv'
  <1>1. tasks[k].state = "absent"
    BY DEF Submit, Admits
  <1>2. tasks'[k].state = "pending" /\ \A j \in Keys \ {k} : tasks'[j] = tasks[j]
    BY DEF Submit, DispatchInv, TypeOK
  <1>3. InState("active")' = InState("active")
        /\ InState("pending")' = InState("pending") \cup {k}
    BY <1>1, <1>2 DEF InState
  <1>4. indexed' = indexed \cup {k} /\ parked' = parked /\ activePaths' = activePaths
        /\ reserved' = reserved /\ selection' = selection /\ command' = command
    BY DEF Submit, Index, workers, pauses
  <1>5. k \notin parked
    BY <1>1 DEF DispatchInv, EveryWaiterIsReachable, InState
  <1>6. \A j \in Keys : Blocked(j)' <=> Blocked(j)
    BY <1>4 DEF Blocked
  <1> QED
    BY <1>3, <1>4, <1>5, <1>6
    DEF DispatchInv, OneWorkerPerFile, EveryWaiterIsReachable, ReservedFilesWait, TypeOK

\* A rewrite waits in a heap.
LEMMA ContinueDispatch ==
  ASSUME DispatchInv, TypeOK', NEW k \in Keys, NEW h, ContinueFile(k, h)
  PROVE  DispatchInv'
  <1>1. tasks[k].state = "awaiting"
    BY DEF ContinueFile, Decides
  <1>2. tasks'[k].state = "pending" /\ \A j \in Keys \ {k} : tasks'[j] = tasks[j]
    BY DEF ContinueFile, DispatchInv, TypeOK, Task
  <1>3. InState("active")' = InState("active")
        /\ InState("pending")' = InState("pending") \cup {k}
    BY <1>1, <1>2 DEF InState
  <1>4. indexed' = indexed \cup {k} /\ parked' = parked /\ activePaths' = activePaths
        /\ reserved' = reserved /\ selection' = selection /\ command' = command
    BY DEF ContinueFile, Index, workers, pauses
  <1>5. k \notin parked
    BY <1>1 DEF DispatchInv, EveryWaiterIsReachable, InState
  <1>6. \A j \in Keys : Blocked(j)' <=> Blocked(j)
    BY <1>4 DEF Blocked
  <1> QED
    BY <1>3, <1>4, <1>5, <1>6
    DEF DispatchInv, OneWorkerPerFile, EveryWaiterIsReachable, ReservedFilesWait, TypeOK

\* A completed file was neither waiting nor running.
LEMMA CompleteDispatch ==
  ASSUME DispatchInv, TypeOK', NEW k \in Keys, NEW h, CompleteFile(k, h)
  PROVE  DispatchInv'
  <1>1. tasks[k].state = "awaiting"
    BY DEF CompleteFile, Decides
  <1>2. tasks'[k].state = "absent" /\ \A j \in Keys \ {k} : tasks'[j] = tasks[j]
    BY DEF CompleteFile, Terminal, DispatchInv, TypeOK, NoTask
  <1>3. InState("active")' = InState("active") /\ InState("pending")' = InState("pending")
    BY <1>1, <1>2 DEF InState
  <1>4. indexed' = indexed /\ parked' = parked /\ activePaths' = activePaths
        /\ reserved' = reserved /\ selection' = selection /\ command' = command
    BY DEF CompleteFile, index, pauses
  <1>5. \A j \in Keys : Blocked(j)' <=> Blocked(j)
    BY <1>4 DEF Blocked
  <1> QED
    BY <1>3, <1>4, <1>5
    DEF DispatchInv, OneWorkerPerFile, EveryWaiterIsReachable, ReservedFilesWait, TypeOK

\* A claim takes a file nobody holds, and parks only what is blocked.
LEMMA ClaimDispatch ==
  ASSUME DispatchInv, TypeOK', NEW k \in Keys, Claim(k)
  PROVE  DispatchInv'
  <1>1. k \in indexed /\ ~Blocked(k)
    BY DEF Claim, Heads
  <1>2. SetAside \subseteq indexed /\ \A j \in SetAside : Blocked(j)
    BY DEF SetAside
  <1>3. tasks'[k].state = "active" /\ \A j \in Keys \ {k} : tasks'[j] = tasks[j]
    BY DEF Claim, DispatchInv, TypeOK, Task
  <1>4. /\ indexed' = indexed \ (SetAside \cup {k}) /\ parked' = parked \cup SetAside
        /\ activePaths' = activePaths \cup {Path(k)}
        /\ reserved' = reserved /\ selection' = selection /\ command' = command
    BY DEF Claim, Drop, pauses
  <1>5. InState("active")' = InState("active") \cup {k}
        /\ InState("pending")' = InState("pending") \ {k}
    <2>1. k \in InState("pending")
      BY <1>1 DEF DispatchInv, EveryWaiterIsReachable
    <2> QED
      BY <1>3, <2>1 DEF InState
  <1>6. OneWorkerPerFile'
    BY <1>1, <1>4, <1>5 DEF DispatchInv, OneWorkerPerFile, Blocked
  <1>7. EveryWaiterIsReachable'
    <2>1. \A j \in Keys : Blocked(j) => Blocked(j)'
      BY <1>4 DEF Blocked
    <2>2. k \notin parked \cup SetAside
      BY <1>1, <1>2 DEF DispatchInv, EveryWaiterIsReachable
    <2> QED
      BY <1>1, <1>2, <1>4, <1>5, <2>1, <2>2 DEF DispatchInv, EveryWaiterIsReachable, TypeOK
  <1>8. ReservedFilesWait'
    BY <1>1, <1>4, <1>5 DEF DispatchInv, ReservedFilesWait, Blocked
  <1> QED
    BY <1>6, <1>7, <1>8 DEF DispatchInv

\* A claim that takes nothing parks only what is blocked.
LEMMA ClaimNothingDispatch == DispatchInv /\ TypeOK' /\ ClaimNothing => DispatchInv'
  <1> SUFFICES ASSUME DispatchInv, TypeOK', ClaimNothing PROVE DispatchInv'
    OBVIOUS
  <1>1. SetAside \subseteq indexed /\ \A j \in SetAside : Blocked(j)
    BY DEF SetAside
  <1>2. /\ indexed' = indexed \ SetAside /\ parked' = parked \cup SetAside
        /\ tasks' = tasks /\ activePaths' = activePaths
        /\ reserved' = reserved /\ selection' = selection /\ command' = command
    BY DEF ClaimNothing, Drop, workers, pauses
  <1>3. InState("active")' = InState("active") /\ InState("pending")' = InState("pending")
    BY <1>2 DEF InState
  <1>4. \A j \in Keys : Blocked(j)' <=> Blocked(j)
    BY <1>2 DEF Blocked
  <1> QED
    BY <1>1, <1>2, <1>3, <1>4
    DEF DispatchInv, OneWorkerPerFile, EveryWaiterIsReachable, ReservedFilesWait, TypeOK

\* A worker that lets its file go wakes what only that file held back.
LEMMA FinishDispatch ==
  ASSUME DispatchInv, TypeOK', NEW k \in Keys, NEW failed, Finish(k, failed)
  PROVE  DispatchInv'
  <1> DEFINE woken == {j \in parked : Path(j) \in {Path(k)}}
  <1>1. tasks[k].state = "active"
    BY DEF Finish
  <1>2. /\ tasks'[k].state \in {"absent", "awaiting"}
        /\ \A j \in Keys \ {k} : tasks'[j] = tasks[j]
    BY DEF Finish, Terminal, DispatchInv, TypeOK, Task, NoTask
  <1>3. InState("active")' = InState("active") \ {k}
        /\ InState("pending")' = InState("pending")
    BY <1>1, <1>2 DEF InState
  <1>4. /\ parked' = parked \ woken /\ indexed' = indexed \cup woken
        /\ activePaths' = activePaths \ {Path(k)}
        /\ reserved' = reserved /\ selection' = selection /\ command' = command
    BY WakeTypes DEF Finish, pauses, DispatchInv, TypeOK
  <1>5. OneWorkerPerFile'
    <2>1. k \in InState("active")
      BY <1>1 DEF InState
    <2> QED
      BY <1>3, <1>4, <2>1 DEF DispatchInv, OneWorkerPerFile, InState
  <1>6. EveryWaiterIsReachable'
    <2>1. \A j \in parked' : Blocked(j)'
      BY <1>4 DEF DispatchInv, EveryWaiterIsReachable, Blocked
    <2> QED
      BY <1>3, <1>4, <2>1 DEF DispatchInv, EveryWaiterIsReachable
  <1>7. ReservedFilesWait'
    BY <1>3, <1>4 DEF DispatchInv, ReservedFilesWait
  <1> QED
    BY <1>5, <1>6, <1>7 DEF DispatchInv

\* A pause command reserves files that wait and that no other command holds.
LEMMA ReserveDispatch ==
  ASSUME DispatchInv, TypeOK', NEW c \in Commands, NEW S, Reserve(c, S)
  PROVE  DispatchInv'
  <1>1. Selected(S) \subseteq InState("pending") \ reserved
    BY SelectedWaits
  <1>2. /\ command[c] = "idle" /\ selection[c] = {}
        /\ reserved' = reserved \cup Selected(S)
        /\ selection' = [selection EXCEPT ![c] = Selected(S)]
        /\ command' = [command EXCEPT ![c] = "writing"]
        /\ tasks' = tasks /\ UNCHANGED <<indexed, parked, activePaths>>
    BY DEF Reserve, index, workers, DispatchInv, ReservedFilesWait
  <1>3. InState("active")' = InState("active") /\ InState("pending")' = InState("pending")
    BY <1>2 DEF InState
  <1>4. \A j \in Keys : Blocked(j) => Blocked(j)'
    BY <1>2 DEF Blocked
  <1>5. OneWorkerPerFile'
    BY <1>2, <1>3 DEF DispatchInv, OneWorkerPerFile
  <1>6. EveryWaiterIsReachable'
    BY <1>2, <1>3, <1>4 DEF DispatchInv, EveryWaiterIsReachable, TypeOK
  <1>7. ReservedFilesWait'
    <2>1. /\ selection'[c] = Selected(S) /\ command'[c] = "writing"
          /\ \A d \in Commands \ {c} : selection'[d] = selection[d]
                                        /\ command'[d] = command[d]
      BY <1>2 DEF DispatchInv, TypeOK
    <2>2. \A d \in Commands : selection[d] \subseteq reserved
      BY DEF DispatchInv, ReservedFilesWait
    <2>3. reserved' = UNION {selection'[d] : d \in Commands}
      BY <1>2, <2>1 DEF DispatchInv, ReservedFilesWait
    <2>4. \A d, e \in Commands : d # e => selection'[d] \cap selection'[e] = {}
      BY <1>1, <2>1, <2>2 DEF DispatchInv, ReservedFilesWait
    <2>5. reserved' \subseteq InState("pending")'
      BY <1>1, <1>2, <1>3 DEF DispatchInv, ReservedFilesWait
    <2> QED
      BY <2>1, <2>3, <2>4, <2>5 DEF DispatchInv, ReservedFilesWait
  <1> QED
    BY <1>5, <1>6, <1>7 DEF DispatchInv

\* A pause command that ends wakes what only its reservation held back.
LEMMA ReleaseDispatch ==
  ASSUME DispatchInv, TypeOK', NEW c \in Commands, Release(c)
  PROVE  DispatchInv'
  <1> DEFINE ps == {Path(k) : k \in selection[c]}
             woken == {j \in parked : Path(j) \in ps}
  <1>1. /\ reserved' = reserved \ selection[c]
        /\ selection' = [selection EXCEPT ![c] = {}]
        /\ command' = [command EXCEPT ![c] = "idle"]
        /\ tasks' = tasks /\ activePaths' = activePaths /\ Wake(ps)
    BY DEF Release, workers
  <1>2. parked' = parked \ woken /\ indexed' = indexed \cup woken
    BY <1>1, WakeTypes DEF DispatchInv, TypeOK
  <1>3. InState("active")' = InState("active") /\ InState("pending")' = InState("pending")
    BY <1>1 DEF InState
  <1>4. OneWorkerPerFile'
    BY <1>1, <1>3 DEF DispatchInv, OneWorkerPerFile
  <1>5. EveryWaiterIsReachable'
    <2>1. \A j \in parked' : Blocked(j)'
      BY <1>1, <1>2 DEF DispatchInv, EveryWaiterIsReachable, Blocked
    <2> QED
      BY <1>2, <1>3, <2>1 DEF DispatchInv, EveryWaiterIsReachable
  <1>6. ReservedFilesWait'
    <2>1. /\ selection'[c] = {}
          /\ \A d \in Commands \ {c} : selection'[d] = selection[d]
                                        /\ command'[d] = command[d]
      BY <1>1 DEF DispatchInv, TypeOK
    <2>2. reserved' = UNION {selection'[d] : d \in Commands}
      BY <1>1, <2>1 DEF DispatchInv, ReservedFilesWait
    <2> QED
      BY <1>1, <1>3, <2>1, <2>2 DEF DispatchInv, ReservedFilesWait
  <1> QED
    BY <1>4, <1>5, <1>6 DEF DispatchInv

\* The steps that move no file at all.
LEMMA ControlDispatch ==
  ASSUME DispatchInv, TypeOK',
         Producing \/ Abandoning \/ Reordering \/ Holding \/ Ending
           \/ (\E k \in Keys : TailStep(k)) \/ (\E c \in Commands : Commit(c))
  PROVE  DispatchInv'
  <1> USE DEF index, workers, pauses
  <1>1. ASSUME Producing PROVE DispatchInv'
    BY <1>1, ShapeKept DEF Producing, OpenRun, Seal, CloseRun, CloseGroup, DrainGroup
  <1>2. ASSUME NEW k \in Keys, TailStep(k) PROVE DispatchInv'
    BY <1>2, ShapeKept DEF TailStep, Callbacks, Settle
  <1>3. ASSUME NEW r \in Runs, Stop(r) PROVE DispatchInv'
    <2>1. indexed' = indexed /\ parked' = parked
      BY <1>3, RefreshTypes DEF Stop, DispatchInv, TypeOK
    <2> QED
      BY <1>3, <2>1, ShapeKept DEF Stop
  <1>4. ASSUME StopAll PROVE DispatchInv'
    <2>1. indexed' = indexed /\ parked' = parked
      BY <1>4, RefreshTypes DEF StopAll, DispatchInv, TypeOK
    <2> QED
      BY <1>4, <2>1, ShapeKept DEF StopAll
  <1>5. ASSUME NEW ks \in SUBSET Keys, MarkSkipped(ks), UNCHANGED <<reserved, selection>>,
               \A c \in Commands : command'[c] = "idle" => command[c] = "idle"
        PROVE  DispatchInv'
    <2>1. /\ indexed' = indexed /\ parked' = parked
          /\ \A k \in Keys : tasks'[k].state = tasks[k].state
      BY <1>5, MarkTypes DEF DispatchInv
    <2> QED
      BY <1>5, <2>1, ShapeKept DEF MarkSkipped
  <1>6. ASSUME NEW S \in SUBSET Keys, Skip(S) PROVE DispatchInv'
    <2>1. Selected(S) \in SUBSET Keys
      BY SelectedWaits DEF InState
    <2> QED
      BY <1>5, <1>6, <2>1 DEF Skip
  <1>7. ASSUME NEW k \in Keys, SkipFile(k) PROVE DispatchInv'
    BY <1>5, <1>7 DEF SkipFile
  <1>8. ASSUME NEW c \in Commands, Commit(c) PROVE DispatchInv'
    <2>1. selection[c] \in SUBSET Keys /\ MarkSkipped(selection[c])
      BY <1>8 DEF Commit, DispatchInv, TypeOK
    <2>2. UNCHANGED <<reserved, selection>>
          /\ \A d \in Commands : command'[d] = "idle" => command[d] = "idle"
      BY <1>8 DEF Commit, DispatchInv, TypeOK
    <2> QED
      BY <1>5, <2>1, <2>2
  <1>9. ASSUME Reordering PROVE DispatchInv'
    <2>1. PICK T : Reorder(T) /\ \A k \in Keys : T[k].state = tasks[k].state
      <3>1. ASSUME NEW ks, Front(ks)
            PROVE  \E T : Reorder(T) /\ \A k \in Keys : T[k].state = tasks[k].state
        <4> DEFINE place(k) == Cardinality({j \in ks : Before(tasks[j], tasks[k])})
                   rank(k) == front - Cardinality(ks) + place(k)
                   T == [k \in Keys |-> IF k \in ks THEN [tasks[k] EXCEPT !.rank = rank(k)]
                                                    ELSE tasks[k]]
        <4>1. Reorder(T)
          BY <3>1 DEF Front
        <4> HIDE DEF rank
        <4>2. \A k \in Keys : T[k].state = tasks[k].state
          BY DEF DispatchInv, TypeOK, Task
        <4> HIDE DEF T
        <4> QED
          BY <4>1, <4>2
      <3>2. Restore => \E T : Reorder(T) /\ \A k \in Keys : T[k].state = tasks[k].state
        BY DEF Restore, DispatchInv, TypeOK, Task
      <3> QED
        BY <1>9, <3>1, <3>2 DEF Reordering, MoveTop, Hurry
    <2>2. /\ tasks' = T
          /\ UNCHANGED <<indexed, parked, activePaths, reserved, selection, command>>
      BY <2>1 DEF Reorder, Refresh, Index
    <2> QED
      BY <2>1, <2>2, ShapeKept
  <1>10. ASSUME Holding \/ Close \/ Halt PROVE DispatchInv'
    BY <1>10, ShapeKept DEF Holding, SetPaused, EnterHold, Close, Halt
  <1> QED
    BY <1>1, <1>2, <1>3, <1>4, <1>6, <1>7, <1>8, <1>9, <1>10 DEF Abandoning, Ending

\* Every step keeps the inductive invariant.
LEMMA DispatchKept == DispatchInv /\ [Next]_vars => DispatchInv'
  <1> SUFFICES ASSUME DispatchInv, [Next]_vars PROVE DispatchInv'
    OBVIOUS
  <1>1. TypeOK'
    BY TypesKept DEF DispatchInv
  <1>2. CASE UNCHANGED vars
    BY <1>1, <1>2, ShapeKept DEF vars, index, workers, pauses
  <1>3. CASE Admitting
    BY <1>1, <1>3, SubmitDispatch, ContinueDispatch, CompleteDispatch DEF Admitting, Decide
  <1>4. CASE Working
    BY <1>1, <1>4, ClaimDispatch, ClaimNothingDispatch, FinishDispatch, ControlDispatch
    DEF Working, Dispatch
  <1>5. CASE Pausing
    BY <1>1, <1>5, ReserveDispatch, ReleaseDispatch, ControlDispatch DEF Pausing
  <1>6. CASE Producing \/ Abandoning \/ Reordering \/ Holding \/ Ending
    BY <1>1, <1>6, ControlDispatch
  <1> QED
    BY <1>2, <1>3, <1>4, <1>5, <1>6 DEF Next

\* The inductive invariant holds in every reachable state.
THEOREM DispatchHolds == Spec => []DispatchInv
  <1>1. Init => DispatchInv
    BY InitDispatch
  <1>2. DispatchInv /\ [Next]_vars => DispatchInv'
    BY DispatchKept
  <1> QED
    BY <1>1, <1>2, PTL DEF Spec

\* Two workers never hold one file, for any number of runs, files and workers:
\* what _claim promises the rewrites it starts.
THEOREM WorkersNeverShare == Spec => []OneWorkerPerFile
  <1>1. DispatchInv => OneWorkerPerFile
    BY DEF DispatchInv
  <1> QED
    BY <1>1, DispatchHolds, PTL

\* No waiting file is ever lost between the heaps and the parking lot: what
\* parks it is still there, and _wake_path will find it.
THEOREM WaitersStayReachable == Spec => []EveryWaiterIsReachable
  <1>1. DispatchInv => EveryWaiterIsReachable
    BY DEF DispatchInv
  <1> QED
    BY <1>1, DispatchHolds, PTL

\* A file whose pause is being written waits, for one command only, however
\* many pause commands run at once.
THEOREM ReservationsHold == Spec => []ReservedFilesWait
  <1>1. DispatchInv => ReservedFilesWait
    BY DEF DispatchInv
  <1> QED
    BY <1>1, DispatchHolds, PTL


-----------------------------------------------------------------------------
(***************************************************************************)
(* Heaps and counters.  A stale heap entry would come from a stop forgotten  *)
(* while a file of its run waits; a run is forgotten when its count of live  *)
(* admissions is zero; so entries and counters are only right together.     *)
(***************************************************************************)

\* The keys a lane's counter and a control's counter count.
WorkersIn(l) == {k \in InState("active") : tasks[k].lane = l}
LiveOf(r) == {k \in Live : Run(k) = r}

AgreeInv == DispatchInv /\ IndexesAgree

\* How the count of a set of keys moves with one key.
LEMMA CountByOne ==
  ASSUME NEW S \in SUBSET Keys, NEW k
  PROVE  /\ Cardinality(S) \in Nat
         /\ k \notin S => Cardinality(S \cup {k}) = Cardinality(S) + 1
         /\ k \in S => Cardinality(S \ {k}) = Cardinality(S) - 1
  <1>1. IsFiniteSet(S) /\ Cardinality(S) \in Nat
    BY SchedulerAssumption, SelectionCounts, FS_Subset
  <1>2. k \notin S => Cardinality(S \cup {k}) = Cardinality(S) + 1
    BY <1>1, FS_AddElement
  <1>3. k \in S => Cardinality(S \ {k}) = Cardinality(S) - 1
    BY <1>1, FS_RemoveElement
  <1> QED
    BY <1>1, <1>2, <1>3

\* A key that its set counts alone is alone in it.
LEMMA CountAlone ==
  \A S \in SUBSET Keys : \A k \in S : Cardinality(S) - 1 = 0 => S = {k}
  <1> SUFFICES ASSUME NEW S \in SUBSET Keys, NEW k \in S, Cardinality(S) - 1 = 0
               PROVE  S = {k}
    OBVIOUS
  <1>1. IsFiniteSet(S)
    BY SchedulerAssumption, FS_Subset
  <1>2. IsFiniteSet(S \ {k}) /\ Cardinality(S \ {k}) = 0
    BY <1>1, FS_RemoveElement
  <1>3. S \ {k} = {}
    BY <1>2, FS_EmptySet
  <1> QED
    BY <1>3

\* A set of keys that counts none is empty.
LEMMA CountNone == \A S \in SUBSET Keys : Cardinality(S) = 0 => S = {}
  BY SchedulerAssumption, FS_Subset, FS_EmptySet

\* The heaps stay fresh if what is pushed is, and what is left is not outdated.
LEMMA FreshKept ==
  ASSUME IndexIsFresh, NEW ks \in SUBSET Keys,
         indexed' = indexed \cup ks,
         \A k \in ks : entries'[k] = EntryOf(k, tasks', stopping'),
         \A k \in Keys \ ks : entries'[k] = entries[k],
         \A k \in (Keys \cap indexed) \ ks :
            EntryOf(k, tasks', stopping') = EntryOf(k, tasks, stopping)
  PROVE  IndexIsFresh'
  <1> HIDE DEF EntryOf
  <1> SUFFICES ASSUME NEW k \in Keys
               PROVE  entries'[k] = IF k \in indexed' THEN EntryOf(k, tasks', stopping')
                                                      ELSE NoEntry
    BY DEF IndexIsFresh, EntryOf, Abandoned
  <1>1. entries[k] = IF k \in indexed THEN EntryOf(k, tasks, stopping) ELSE NoEntry
    BY DEF IndexIsFresh
  <1> QED
    BY <1>1

\* A step that leaves every state, lane and skip alone keeps the counters right.
LEMMA CountersKept ==
  ASSUME CountersAgree, UNCHANGED <<occupied, live, skipIndex>>,
         \A k \in Keys : /\ tasks'[k].state = tasks[k].state
                         /\ tasks'[k].lane = tasks[k].lane
                         /\ tasks'[k].skipped = tasks[k].skipped
  PROVE  CountersAgree'
  <1>1. InState("active")' = InState("active") /\ Live' = Live
    BY DEF InState, Live
  <1>2. \A l : WorkersIn(l)' = WorkersIn(l)
    BY <1>1 DEF WorkersIn, InState
  <1>3. \A r : LiveOf(r)' = LiveOf(r)
    BY <1>1 DEF LiveOf
  <1>4. {k \in Live : tasks[k].skipped}' = {k \in Live : tasks[k].skipped}
    BY <1>1 DEF Live
  <1> QED
    BY <1>2, <1>3, <1>4 DEF CountersAgree, WorkersIn, LiveOf

\* A step that moves no task, entry, stop or counter keeps both.
LEMMA AgreementKept ==
  ASSUME IndexesAgree, UNCHANGED <<tasks, index, stopping, occupied, live, skipIndex>>
  PROVE  IndexesAgree'
  <1>1. IndexIsFresh'
    BY DEF IndexesAgree, IndexIsFresh, EntryOf, Abandoned, index
  <1>2. CountersAgree'
    BY CountersKept DEF IndexesAgree
  <1> QED
    BY <1>1, <1>2 DEF IndexesAgree

\* What is in a heap is live.
LEMMA IndexedIsLive == DispatchInv => indexed \subseteq InState("pending") /\ indexed \subseteq Live
  BY DEF DispatchInv, EveryWaiterIsReachable, InState, Live

\* Initially there is nothing to agree on.
LEMMA InitAgrees == Init => AgreeInv
  <1> SUFFICES ASSUME Init PROVE AgreeInv
    OBVIOUS
  <1>1. DispatchInv
    BY InitDispatch
  <1>2. \A k \in Keys : tasks[k].state = "absent"
    BY DEF Init, NoTask
  <1>3. InState("active") = {} /\ Live = {}
    BY <1>2 DEF InState, Live
  <1>4. IndexIsFresh
    BY DEF Init, IndexIsFresh
  <1>5. CountersAgree
    <2>1. \A l \in Lanes : {k \in InState("active") : tasks[k].lane = l} = {}
      BY <1>3
    <2>2. \A r \in Runs : {k \in Live : Run(k) = r} = {}
      BY <1>3
    <2>3. {k \in Live : tasks[k].skipped} = {}
      BY <1>3
    <2>4. \A l \in Lanes : occupied[l] = 0 /\ 0 <= Limit[l]
      BY SchedulerAssumption DEF Init
    <2>5. (\A r \in Runs : live[r] = 0) /\ skipIndex = {}
      BY DEF Init
    <2> QED
      BY <2>1, <2>2, <2>3, <2>4, <2>5, FS_EmptySet DEF CountersAgree
  <1> QED
    BY <1>1, <1>4, <1>5 DEF AgreeInv, IndexesAgree

\* Retiring a run without live files changes no waiting file's stop.
LEMMA RetireSpares ==
  ASSUME AgreeInv, NEW r \in Runs, NEW closes, NEW fills, NEW owes,
         Retire(r, closes, fills, live[r], owes)
  PROVE  \A k \in Live : Run(k) \in stopping' <=> Run(k) \in stopping
  <1>1. LiveOf(r) \in SUBSET Keys
    BY DEF LiveOf, Live
  <1>2. live[r] = Cardinality(LiveOf(r))
    BY DEF AgreeInv, IndexesAgree, CountersAgree, LiveOf
  <1>3. live[r] = 0 => LiveOf(r) = {}
    BY <1>1, <1>2, CountNone
  <1>4. stopping' = stopping \/ (live[r] = 0 /\ stopping' = stopping \ {r})
    BY DEF Retire, Retires
  <1> QED
    BY <1>3, <1>4 DEF LiveOf

\* A step that may retire a run without live files keeps heaps and counters right.
LEMMA RetireAgrees ==
  ASSUME AgreeInv, NEW r \in Runs, NEW closes, NEW fills, NEW owes,
         Retire(r, closes, fills, live[r], owes),
         UNCHANGED <<tasks, index, occupied, live, skipIndex>>
  PROVE  IndexesAgree'
  <1>1. \A k \in Live : Run(k) \in stopping' <=> Run(k) \in stopping
    BY RetireSpares
  <1>2. \A k \in indexed : EntryOf(k, tasks', stopping') = EntryOf(k, tasks, stopping)
    BY <1>1, IndexedIsLive DEF AgreeInv, EntryOf, Abandoned
  <1>3. IndexIsFresh'
    <2>1. {} \in SUBSET Keys /\ indexed' = indexed \cup {} /\ entries' = entries
      BY DEF index
    <2> QED
      BY <1>2, <2>1, FreshKept DEF AgreeInv, IndexesAgree
  <1>4. CountersAgree'
    BY CountersKept DEF AgreeInv, IndexesAgree
  <1> QED
    BY <1>3, <1>4 DEF IndexesAgree

\* A run's opening, sealing and closing.
LEMMA ProducingAgrees == AgreeInv /\ Producing => IndexesAgree'
  <1> SUFFICES ASSUME AgreeInv, Producing PROVE IndexesAgree'
    OBVIOUS
  <1> USE DEF workers
  <1>1. ASSUME NEW r \in Runs, NEW fills \in BOOLEAN, OpenRun(r, fills) PROVE IndexesAgree'
    BY <1>1, AgreementKept DEF OpenRun, AgreeInv
  <1>2. ASSUME NEW r \in Runs, Seal(r) PROVE IndexesAgree'
    <2>1. Retire(r, closing, filling \ {r}, live[r], owed[r])
          /\ UNCHANGED <<tasks, index, occupied, live, skipIndex>>
      BY <1>2 DEF Seal
    <2> QED
      BY <2>1, RetireAgrees
  <1>3. ASSUME NEW r \in Runs, CloseRun(r) PROVE IndexesAgree'
    <2>1. Retire(r, closing \cup {r}, filling, live[r], owed[r])
          /\ UNCHANGED <<tasks, index, occupied, live, skipIndex>>
      BY <1>3 DEF CloseRun
    <2> QED
      BY <2>1, RetireAgrees
  <1>4. ASSUME NEW r \in Runs, CloseGroup(r) \/ DrainGroup(r) PROVE IndexesAgree'
    BY <1>4, AgreementKept DEF CloseGroup, DrainGroup, controls, AgreeInv
  <1> QED
    BY <1>1, <1>2, <1>3, <1>4 DEF Producing

\* A control's count follows the one file that enters or leaves its run.
LEMMA LiveCounts ==
  ASSUME CountersAgree, TypeOK, NEW k \in Keys,
         \A j \in Keys \ {k} : tasks'[j] = tasks[j],
         live' = [live EXCEPT ![Run(k)] =
                    IF (tasks[k].state = "absent") = (tasks'[k].state = "absent") THEN @
                    ELSE IF tasks'[k].state = "absent" THEN @ - 1 ELSE @ + 1]
  PROVE  \A r \in Runs : live'[r] = Cardinality(LiveOf(r)')
  <1>1. Live' = IF tasks'[k].state = "absent" THEN Live \ {k} ELSE Live \cup {k}
    BY DEF Live, InState
  <1> SUFFICES ASSUME NEW r \in Runs PROVE live'[r] = Cardinality(LiveOf(r)')
    OBVIOUS
  <1>2. live[r] = Cardinality(LiveOf(r)) /\ LiveOf(r) \in SUBSET Keys
    BY DEF CountersAgree, LiveOf, Live
  <1>3. CASE r # Run(k)
    BY <1>1, <1>2, <1>3 DEF LiveOf, TypeOK
  <1>4. CASE r = Run(k)
    <2>1. k \in LiveOf(r) <=> tasks[k].state # "absent"
      BY <1>4 DEF LiveOf, Live, InState
    <2>2. LiveOf(r)' = IF tasks'[k].state = "absent" THEN LiveOf(r) \ {k}
                                                    ELSE LiveOf(r) \cup {k}
      BY <1>1, <1>4 DEF LiveOf
    <2>3. live'[r] = IF (tasks[k].state = "absent") = (tasks'[k].state = "absent")
                     THEN live[r]
                     ELSE IF tasks'[k].state = "absent" THEN live[r] - 1 ELSE live[r] + 1
      BY <1>4 DEF TypeOK
    <2>4. /\ k \notin LiveOf(r) =>
               Cardinality(LiveOf(r) \cup {k}) = Cardinality(LiveOf(r)) + 1
          /\ k \in LiveOf(r) => Cardinality(LiveOf(r) \ {k}) = Cardinality(LiveOf(r)) - 1
      BY <1>2, CountByOne
    <2>5. /\ k \in LiveOf(r) => LiveOf(r) \cup {k} = LiveOf(r)
          /\ k \notin LiveOf(r) => LiveOf(r) \ {k} = LiveOf(r)
      OBVIOUS
    <2> QED
      BY <1>2, <2>1, <2>2, <2>3, <2>4, <2>5
  <1> QED
    BY <1>3, <1>4

\* The lanes' counts follow the one file that is claimed or let go.
LEMMA LanesCount ==
  ASSUME CountersAgree, TypeOK, NEW k \in Keys,
         \A j \in Keys \ {k} : tasks'[j] = tasks[j],
         \/ /\ tasks[k].state # "active" /\ tasks'[k].state # "active"
            /\ UNCHANGED occupied
         \/ /\ tasks[k].state # "active" /\ tasks'[k].state = "active"
            /\ tasks'[k].lane = tasks[k].lane
            /\ occupied[tasks[k].lane] < Limit[tasks[k].lane]
            /\ occupied' = [occupied EXCEPT ![tasks[k].lane] = @ + 1]
         \/ /\ tasks[k].state = "active" /\ tasks'[k].state # "active"
            /\ occupied' = [occupied EXCEPT ![tasks[k].lane] = @ - 1]
  PROVE  \A l \in Lanes : occupied'[l] = Cardinality(WorkersIn(l)') /\ occupied'[l] <= Limit[l]
  <1>1. InState("active")' = IF tasks'[k].state = "active" THEN InState("active") \cup {k}
                                                          ELSE InState("active") \ {k}
    BY DEF InState
  <1> SUFFICES ASSUME NEW l \in Lanes
               PROVE  occupied'[l] = Cardinality(WorkersIn(l)') /\ occupied'[l] <= Limit[l]
    OBVIOUS
  <1>2. /\ occupied[l] = Cardinality(WorkersIn(l)) /\ occupied[l] <= Limit[l]
        /\ WorkersIn(l) \in SUBSET Keys /\ Limit[l] \in Nat /\ occupied[l] \in Int
    BY SchedulerAssumption DEF CountersAgree, WorkersIn, InState, TypeOK
  <1>3. /\ k \notin WorkersIn(l) =>
             Cardinality(WorkersIn(l) \cup {k}) = Cardinality(WorkersIn(l)) + 1
        /\ k \in WorkersIn(l) =>
             Cardinality(WorkersIn(l) \ {k}) = Cardinality(WorkersIn(l)) - 1
    BY <1>2, CountByOne
  <1>4. k \in WorkersIn(l) <=> tasks[k].state = "active" /\ tasks[k].lane = l
    BY DEF WorkersIn, InState
  <1>5. CASE tasks[k].state # "active" /\ tasks'[k].state # "active"
    <2>1. WorkersIn(l)' = WorkersIn(l) /\ occupied' = occupied
      BY <1>1, <1>5 DEF WorkersIn, InState
    <2> QED
      BY <1>2, <2>1
  <1>6. CASE tasks[k].state # "active" /\ tasks'[k].state = "active"
    <2>1. WorkersIn(l)' = IF tasks[k].lane = l THEN WorkersIn(l) \cup {k} ELSE WorkersIn(l)
      BY <1>1, <1>6 DEF WorkersIn, InState
    <2>2. occupied'[l] = IF tasks[k].lane = l THEN occupied[l] + 1 ELSE occupied[l]
      BY <1>6 DEF TypeOK
    <2> QED
      BY <1>2, <1>3, <1>4, <1>6, <2>1, <2>2
  <1>7. CASE tasks[k].state = "active" /\ tasks'[k].state # "active"
    <2>1. WorkersIn(l)' = IF tasks[k].lane = l THEN WorkersIn(l) \ {k} ELSE WorkersIn(l)
      BY <1>1, <1>7 DEF WorkersIn, InState
    <2>2. occupied'[l] = IF tasks[k].lane = l THEN occupied[l] - 1 ELSE occupied[l]
      BY <1>7 DEF TypeOK
    <2> QED
      BY <1>2, <1>3, <1>4, <1>7, <2>1, <2>2
  <1> QED
    BY <1>5, <1>6, <1>7

\* The counters after one file moved.
LEMMA CountersMove ==
  ASSUME \A l \in Lanes :
            occupied'[l] = Cardinality(WorkersIn(l)') /\ occupied'[l] <= Limit[l],
         \A r \in Runs : live'[r] = Cardinality(LiveOf(r)'),
         skipIndex' = {j \in Keys : tasks'[j].state # "absent" /\ tasks'[j].skipped}
  PROVE  CountersAgree'
  <1>1. skipIndex' = {j \in Live : tasks[j].skipped}'
    BY DEF Live, InState
  <1> QED
    BY <1>1 DEF CountersAgree, WorkersIn, LiveOf

\* An admission.
LEMMA SubmitAgrees ==
  ASSUME AgreeInv, NEW k \in Keys, NEW urgent \in BOOLEAN, Submit(k, urgent)
  PROVE  IndexesAgree'
  <1>1. tasks[k].state = "absent" /\ k \notin Live
    BY DEF Submit, Admits, Live, InState
  <1>2. /\ tasks'[k].state = "pending" /\ ~tasks'[k].skipped
        /\ \A j \in Keys \ {k} : tasks'[j] = tasks[j]
    BY DEF Submit, AgreeInv, DispatchInv, TypeOK
  <1>3. IndexIsFresh'
    <2>1. Index({k}, tasks', stopping) /\ stopping' = stopping
      BY DEF Submit
    <2>2. \A j \in indexed \ {k} : EntryOf(j, tasks', stopping') = EntryOf(j, tasks, stopping)
      BY <1>2, <2>1, IndexedIsLive DEF AgreeInv, EntryOf, Abandoned, Live
    <2>3. /\ {k} \in SUBSET Keys /\ indexed' = indexed \cup {k}
          /\ entries'[k] = EntryOf(k, tasks', stopping')
          /\ \A j \in Keys \ {k} : entries'[j] = entries[j]
      BY <2>1 DEF Index
    <2> QED
      BY <2>2, <2>3, FreshKept DEF AgreeInv, IndexesAgree
  <1>4. CountersAgree'
    <2>1. live' = [live EXCEPT ![Run(k)] = @ + 1] /\ UNCHANGED <<occupied, skipIndex>>
      BY DEF Submit, workers
    <2>2. skipIndex' = {j \in Keys : tasks'[j].state # "absent" /\ tasks'[j].skipped}
      BY <1>1, <1>2, <2>1 DEF AgreeInv, IndexesAgree, CountersAgree, Live, InState
    <2>3. \A r \in Runs : live'[r] = Cardinality(LiveOf(r)')
      BY <1>1, <1>2, <2>1, LiveCounts DEF AgreeInv, IndexesAgree, DispatchInv
    <2>4. \A l \in Lanes :
             occupied'[l] = Cardinality(WorkersIn(l)') /\ occupied'[l] <= Limit[l]
      BY <1>1, <1>2, <2>1, LanesCount DEF AgreeInv, IndexesAgree, DispatchInv
    <2> QED
      BY <2>2, <2>3, <2>4, CountersMove
  <1> QED
    BY <1>3, <1>4 DEF IndexesAgree

\* A file handed on to its rewrite.
LEMMA ContinueAgrees ==
  ASSUME AgreeInv, NEW k \in Keys, NEW h, ContinueFile(k, h)
  PROVE  IndexesAgree'
  <1>1. tasks[k].state = "awaiting"
    BY DEF ContinueFile, Decides
  <1>2. /\ tasks'[k].state = "pending" /\ tasks'[k].skipped = tasks[k].skipped
        /\ \A j \in Keys \ {k} : tasks'[j] = tasks[j]
    BY DEF ContinueFile, AgreeInv, DispatchInv, TypeOK, Task
  <1>3. IndexIsFresh'
    <2>1. Index({k}, tasks', stopping) /\ stopping' = stopping
      BY DEF ContinueFile, controls
    <2>2. \A j \in indexed \ {k} : EntryOf(j, tasks', stopping') = EntryOf(j, tasks, stopping)
      BY <1>2, <2>1, IndexedIsLive DEF AgreeInv, EntryOf, Abandoned, Live
    <2>3. /\ {k} \in SUBSET Keys /\ indexed' = indexed \cup {k}
          /\ entries'[k] = EntryOf(k, tasks', stopping')
          /\ \A j \in Keys \ {k} : entries'[j] = entries[j]
      BY <2>1 DEF Index
    <2> QED
      BY <2>2, <2>3, FreshKept DEF AgreeInv, IndexesAgree
  <1>4. CountersAgree'
    <2>1. UNCHANGED <<live, occupied, skipIndex>>
      BY DEF ContinueFile, workers, controls
    <2>2. skipIndex' = {j \in Keys : tasks'[j].state # "absent" /\ tasks'[j].skipped}
      BY <1>1, <1>2, <2>1 DEF AgreeInv, IndexesAgree, CountersAgree, Live, InState
    <2>3. \A r \in Runs : live'[r] = Cardinality(LiveOf(r)')
      <3>1. live' = [live EXCEPT ![Run(k)] = @]
        BY <2>1 DEF AgreeInv, DispatchInv, TypeOK
      <3> QED
        BY <1>1, <1>2, <3>1, LiveCounts DEF AgreeInv, IndexesAgree, DispatchInv
    <2>4. \A l \in Lanes :
             occupied'[l] = Cardinality(WorkersIn(l)') /\ occupied'[l] <= Limit[l]
      BY <1>1, <1>2, <2>1, LanesCount DEF AgreeInv, IndexesAgree, DispatchInv
    <2> QED
      BY <2>2, <2>3, <2>4, CountersMove
  <1> QED
    BY <1>3, <1>4 DEF IndexesAgree

\* What _terminal leaves of its run: no stop is forgotten under a waiting file.
LEMMA TerminalSpares ==
  ASSUME AgreeInv, NEW k \in Live \ indexed, Terminal(k)
  PROVE  \A j \in Live \ {k} : Run(j) \in stopping' <=> Run(j) \in stopping
  <1>1. live[Run(k)] = Cardinality(LiveOf(Run(k))) /\ k \in LiveOf(Run(k))
        /\ LiveOf(Run(k)) \in SUBSET Keys
    BY KeyParts DEF AgreeInv, IndexesAgree, CountersAgree, LiveOf, Live
  <1>2. live[Run(k)] - 1 = 0 => LiveOf(Run(k)) = {k}
    BY <1>1, CountAlone
  <1>3. stopping' = stopping
        \/ (live[Run(k)] - 1 = 0 /\ stopping' = stopping \ {Run(k)})
    BY DEF Terminal, Retire, Retires
  <1> QED
    BY <1>2, <1>3 DEF LiveOf

\* The counters after _terminal; its caller sees to the lane.
LEMMA TerminalCounts ==
  ASSUME AgreeInv, NEW k \in Live, Terminal(k),
         \/ tasks[k].state # "active" /\ UNCHANGED occupied
         \/ /\ tasks[k].state = "active"
            /\ occupied' = [occupied EXCEPT ![tasks[k].lane] = @ - 1]
  PROVE  CountersAgree'
  <1>1. /\ k \in Keys /\ tasks[k].state # "absent" /\ tasks'[k].state = "absent"
        /\ \A j \in Keys \ {k} : tasks'[j] = tasks[j]
    BY DEF Terminal, AgreeInv, DispatchInv, TypeOK, NoTask, Live, InState
  <1>2. live' = [live EXCEPT ![Run(k)] = @ - 1] /\ skipIndex' = skipIndex \ {k}
    BY DEF Terminal
  <1>3. skipIndex' = {j \in Keys : tasks'[j].state # "absent" /\ tasks'[j].skipped}
    BY <1>1, <1>2 DEF AgreeInv, IndexesAgree, CountersAgree, Live, InState
  <1>4. \A r \in Runs : live'[r] = Cardinality(LiveOf(r)')
    BY <1>1, <1>2, LiveCounts DEF AgreeInv, IndexesAgree, DispatchInv
  <1>5. \A l \in Lanes :
           occupied'[l] = Cardinality(WorkersIn(l)') /\ occupied'[l] <= Limit[l]
    BY <1>1, LanesCount DEF AgreeInv, IndexesAgree, DispatchInv
  <1> QED
    BY <1>3, <1>4, <1>5, CountersMove

\* A file completed without a rewrite.
LEMMA CompleteAgrees ==
  ASSUME AgreeInv, NEW k \in Keys, NEW h, CompleteFile(k, h)
  PROVE  IndexesAgree'
  <1>1. k \in Live \ indexed /\ tasks[k].state # "active" /\ Terminal(k)
    BY IndexedIsLive DEF CompleteFile, Decides, Live, InState, AgreeInv
  <1>2. \A j \in Keys \ {k} : tasks'[j] = tasks[j]
    BY <1>1 DEF Terminal, AgreeInv, DispatchInv, TypeOK
  <1>3. UNCHANGED <<indexed, entries, occupied>>
    BY DEF CompleteFile, index
  <1>4. IndexIsFresh'
    <2>1. \A j \in indexed : EntryOf(j, tasks', stopping') = EntryOf(j, tasks, stopping)
      BY <1>1, <1>2, TerminalSpares, IndexedIsLive DEF AgreeInv, EntryOf, Abandoned, Live
    <2>2. {} \in SUBSET Keys /\ indexed' = indexed \cup {}
      BY <1>3
    <2> QED
      BY <1>3, <2>1, <2>2, FreshKept DEF AgreeInv, IndexesAgree
  <1>5. CountersAgree'
    BY <1>1, <1>3, TerminalCounts
  <1> QED
    BY <1>4, <1>5 DEF IndexesAgree

\* What a claim drops from the heaps leaves the rest fresh.
LEMMA DropFresh ==
  ASSUME IndexIsFresh, NEW ks \in SUBSET Keys, Drop(ks), stopping' = stopping,
         \A k \in (Keys \cap indexed) \ ks :
            EntryOf(k, tasks', stopping) = EntryOf(k, tasks, stopping)
  PROVE  IndexIsFresh'
  <1> SUFFICES ASSUME NEW k \in Keys
               PROVE  entries'[k] = IF k \in indexed' THEN EntryOf(k, tasks', stopping')
                                                      ELSE NoEntry
    BY DEF IndexIsFresh, EntryOf, Abandoned
  <1>1. entries[k] = IF k \in indexed THEN EntryOf(k, tasks, stopping) ELSE NoEntry
    BY DEF IndexIsFresh
  <1>2. entries'[k] = IF k \in ks THEN NoEntry ELSE entries[k]
    BY DEF Drop
  <1>3. k \in indexed' <=> k \in indexed /\ k \notin ks
    BY DEF Drop
  <1> QED
    BY <1>1, <1>2, <1>3

\* A claim takes one file out of its heap and into its lane, which had room.
LEMMA ClaimAgrees ==
  ASSUME AgreeInv, NEW k \in Keys, Claim(k)
  PROVE  IndexesAgree'
  <1>1. k \in indexed /\ Looked(k) /\ SetAside \subseteq Keys
    BY DEF Claim, Heads, SetAside, AgreeInv, DispatchInv, TypeOK
  <1>2. tasks[k].state = "pending"
    BY <1>1, IndexedIsLive DEF AgreeInv, InState
  <1>3. /\ tasks'[k].state = "active" /\ tasks'[k].lane = tasks[k].lane
        /\ tasks'[k].skipped = tasks[k].skipped
        /\ \A j \in Keys \ {k} : tasks'[j] = tasks[j]
    BY DEF Claim, AgreeInv, DispatchInv, TypeOK, Task
  <1>4. UNCHANGED <<live, skipIndex, stopping>> /\ Drop(SetAside \cup {k})
        /\ occupied' = [occupied EXCEPT ![tasks[k].lane] = @ + 1]
    BY DEF Claim, controls
  <1>5. IndexIsFresh'
    <2>1. SetAside \cup {k} \in SUBSET Keys
      BY <1>1
    <2>2. \A j \in (Keys \cap indexed) \ (SetAside \cup {k}) :
             EntryOf(j, tasks', stopping) = EntryOf(j, tasks, stopping)
      BY <1>3 DEF EntryOf, Abandoned
    <2> QED
      BY <1>4, <2>1, <2>2, DropFresh DEF AgreeInv, IndexesAgree
  <1>6. CountersAgree'
    <2>1. skipIndex' = {j \in Keys : tasks'[j].state # "absent" /\ tasks'[j].skipped}
      BY <1>2, <1>3, <1>4 DEF AgreeInv, IndexesAgree, CountersAgree, Live, InState
    <2>2. \A r \in Runs : live'[r] = Cardinality(LiveOf(r)')
      <3>1. live' = [live EXCEPT ![Run(k)] = @]
        BY <1>4 DEF AgreeInv, DispatchInv, TypeOK
      <3> QED
        BY <1>2, <1>3, <3>1, LiveCounts DEF AgreeInv, IndexesAgree, DispatchInv
    <2>3. \A l \in Lanes :
             occupied'[l] = Cardinality(WorkersIn(l)') /\ occupied'[l] <= Limit[l]
      BY <1>1, <1>2, <1>3, <1>4, LanesCount DEF AgreeInv, IndexesAgree, DispatchInv, Looked
    <2> QED
      BY <2>1, <2>2, <2>3, CountersMove
  <1> QED
    BY <1>5, <1>6 DEF IndexesAgree

\* A claim that finds nothing only drops what it met.
LEMMA ClaimNothingAgrees == AgreeInv /\ ClaimNothing => IndexesAgree'
  <1> SUFFICES ASSUME AgreeInv, ClaimNothing PROVE IndexesAgree'
    OBVIOUS
  <1>1. SetAside \in SUBSET Keys
    BY DEF SetAside, AgreeInv, DispatchInv, TypeOK
  <1>2. Drop(SetAside) /\ UNCHANGED <<tasks, stopping, occupied, live, skipIndex>>
    BY DEF ClaimNothing, workers, controls
  <1>3. IndexIsFresh'
    BY <1>1, <1>2, DropFresh DEF AgreeInv, IndexesAgree, EntryOf, Abandoned
  <1>4. CountersAgree'
    BY <1>2, CountersKept DEF AgreeInv, IndexesAgree
  <1> QED
    BY <1>3, <1>4 DEF IndexesAgree

\* A worker that lets its file go: what it wakes is pushed as it then stands.
LEMMA FinishAgrees ==
  ASSUME AgreeInv, NEW k \in Keys, NEW failed \in BOOLEAN, Finish(k, failed)
  PROVE  IndexesAgree'
  <1> DEFINE woken == {j \in parked : Path(j) \in {Path(k)}}
  <1>1. tasks[k].state = "active" /\ k \in Live \ indexed
    BY IndexedIsLive DEF Finish, Live, InState, AgreeInv
  <1>2. occupied' = [occupied EXCEPT ![tasks[k].lane] = @ - 1]
    BY DEF Finish
  <1>3. Index(woken, tasks, stopping)
    BY DEF Finish, Wake
  <1>4. /\ \A j \in Keys \ {k} : tasks'[j] = tasks[j]
        /\ \A j \in Live \ {k} : Run(j) \in stopping' <=> Run(j) \in stopping
        /\ CountersAgree'
    <2>1. CASE Ends(tasks[k], failed)
      <3>1. Terminal(k)
        BY <2>1 DEF Finish
      <3>2. \A j \in Keys \ {k} : tasks'[j] = tasks[j]
        BY <3>1 DEF Terminal, AgreeInv, DispatchInv, TypeOK
      <3>3. CountersAgree'
        BY <1>1, <1>2, <3>1, TerminalCounts
      <3> QED
        BY <1>1, <3>1, <3>2, <3>3, TerminalSpares
    <2>2. CASE ~Ends(tasks[k], failed)
      <3>1. tasks' = [tasks EXCEPT ![k].state = "awaiting"]
            /\ UNCHANGED <<live, skipIndex, stopping>>
        BY <2>2 DEF Finish, controls
      <3>2. /\ tasks'[k].state = "awaiting" /\ tasks'[k].skipped = tasks[k].skipped
            /\ \A j \in Keys \ {k} : tasks'[j] = tasks[j]
        BY <3>1 DEF AgreeInv, DispatchInv, TypeOK, Task
      <3>3. skipIndex' = {j \in Keys : tasks'[j].state # "absent" /\ tasks'[j].skipped}
        BY <1>1, <3>1, <3>2 DEF AgreeInv, IndexesAgree, CountersAgree, Live, InState
      <3>4. \A r \in Runs : live'[r] = Cardinality(LiveOf(r)')
        <4>1. live' = [live EXCEPT ![Run(k)] = @]
          BY <3>1 DEF AgreeInv, DispatchInv, TypeOK
        <4> QED
          BY <1>1, <3>2, <4>1, LiveCounts DEF AgreeInv, IndexesAgree, DispatchInv
      <3>5. \A l \in Lanes :
               occupied'[l] = Cardinality(WorkersIn(l)') /\ occupied'[l] <= Limit[l]
        BY <1>1, <1>2, <3>2, LanesCount DEF AgreeInv, IndexesAgree, DispatchInv
      <3> QED
        BY <3>1, <3>2, <3>3, <3>4, <3>5, CountersMove
    <2> QED
      BY <2>1, <2>2
  <1>5. IndexIsFresh'
    <2>1. woken \in SUBSET Keys /\ woken \subseteq Live \ {k}
      BY <1>1 DEF AgreeInv, DispatchInv, EveryWaiterIsReachable, InState, Live
    <2>2. /\ indexed' = indexed \cup woken
          /\ \A j \in woken : entries'[j] = EntryOf(j, tasks, stopping)
          /\ \A j \in Keys \ woken : entries'[j] = entries[j]
      BY <1>3, <2>1 DEF Index
    <2>3. \A j \in Live \ {k} : EntryOf(j, tasks', stopping') = EntryOf(j, tasks, stopping)
      BY <1>4 DEF EntryOf, Abandoned, Live
    <2> HIDE DEF woken
    <2>4. \A j \in indexed : j \in Live \ {k}
      BY <1>1, IndexedIsLive DEF AgreeInv
    <2>5. /\ \A j \in woken : entries'[j] = EntryOf(j, tasks', stopping')
          /\ \A j \in (Keys \cap indexed) \ woken :
                EntryOf(j, tasks', stopping') = EntryOf(j, tasks, stopping)
      BY <2>1, <2>2, <2>3, <2>4
    <2> QED
      BY <2>1, <2>2, <2>5, FreshKept DEF AgreeInv, IndexesAgree
  <1> QED
    BY <1>4, <1>5 DEF IndexesAgree

\* Callbacks and settlements.
LEMMA TailAgrees ==
  ASSUME AgreeInv, NEW t \in tails, Callbacks(t) \/ Settle(t)
  PROVE  IndexesAgree'
  <1>1. Run(t.key) \in Runs
    BY KeyParts DEF AgreeInv, DispatchInv, TypeOK, Tail
  <1>2. UNCHANGED <<tasks, index, occupied, live, skipIndex>>
    BY DEF Callbacks, Settle, controls
  <1>3. CASE stopping' = stopping
    BY <1>2, <1>3, AgreementKept DEF AgreeInv
  <1>4. CASE stopping' # stopping
    <2>1. PICK owes : Retire(Run(t.key), closing, filling, live[Run(t.key)], owes)
      BY <1>4 DEF Callbacks, Settle, controls
    <2> QED
      BY <1>1, <1>2, <2>1, RetireAgrees
  <1> QED
    BY <1>3, <1>4

\* A refresh leaves the heaps fresh if it covers what its command changed.
LEMMA RefreshFresh ==
  ASSUME AgreeInv, NEW ks, Refresh(ks, tasks', stopping'),
         \A k \in indexed \ ks :
            EntryOf(k, tasks', stopping') = EntryOf(k, tasks, stopping)
  PROVE  IndexIsFresh'
  <1>1. ks \cap indexed \in SUBSET Keys
    BY DEF AgreeInv, DispatchInv, TypeOK
  <1>2. /\ indexed' = indexed \cup (ks \cap indexed)
        /\ \A k \in ks \cap indexed : entries'[k] = EntryOf(k, tasks', stopping')
        /\ \A k \in Keys \ (ks \cap indexed) : entries'[k] = entries[k]
    BY <1>1 DEF Refresh, Index
  <1> QED
    BY <1>1, <1>2, FreshKept DEF AgreeInv, IndexesAgree

\* A stop moves every waiting file of the run to the heap of abandoned work.
LEMMA StopAgrees ==
  ASSUME AgreeInv, (\E r \in Runs : Stop(r)) \/ StopAll
  PROVE  IndexesAgree'
  <1>1. PICK rs : /\ stopping' = stopping \cup rs
                  /\ Refresh({k \in InState("pending") : Run(k) \in rs}, tasks, stopping')
                  /\ UNCHANGED <<tasks, occupied, live, skipIndex>>
    <2>1. ASSUME NEW r \in Runs, Stop(r)
          PROVE  \E rs : /\ stopping' = stopping \cup rs
                         /\ Refresh({k \in InState("pending") : Run(k) \in rs}, tasks, stopping')
                         /\ UNCHANGED <<tasks, occupied, live, skipIndex>>
      <3>1. {k \in InState("pending") : Run(k) = r} = {k \in InState("pending") : Run(k) \in {r}}
        OBVIOUS
      <3>2. /\ stopping' = stopping \cup {r}
            /\ Refresh({k \in InState("pending") : Run(k) \in {r}}, tasks, stopping')
            /\ UNCHANGED <<tasks, occupied, live, skipIndex>>
        BY <2>1, <3>1 DEF Stop, workers
      <3> QED
        BY <3>2
    <2>2. ASSUME StopAll
          PROVE  \E rs : /\ stopping' = stopping \cup rs
                         /\ Refresh({k \in InState("pending") : Run(k) \in rs}, tasks, stopping')
                         /\ UNCHANGED <<tasks, occupied, live, skipIndex>>
      <3>1. stopping' = stopping \cup (open \ stopping)
        BY <2>2 DEF StopAll, AgreeInv, DispatchInv, TypeOK
      <3>2. /\ Refresh({k \in InState("pending") : Run(k) \in open \ stopping},
                       tasks, stopping')
            /\ UNCHANGED <<tasks, occupied, live, skipIndex>>
        BY <2>2 DEF StopAll, workers
      <3> QED
        BY <3>1, <3>2
    <2> QED
      BY <2>1, <2>2
  <1>2. \A k \in indexed \ {j \in InState("pending") : Run(j) \in rs} :
           EntryOf(k, tasks', stopping') = EntryOf(k, tasks, stopping)
    BY <1>1, IndexedIsLive DEF AgreeInv, EntryOf, Abandoned
  <1>3. IndexIsFresh'
    BY <1>1, <1>2, RefreshFresh
  <1>4. CountersAgree'
    BY <1>1, CountersKept DEF AgreeInv, IndexesAgree
  <1> QED
    BY <1>3, <1>4 DEF IndexesAgree

\* A skip does, and enters the run's report.
LEMMA MarkAgrees ==
  ASSUME AgreeInv, NEW ks \in SUBSET Live, MarkSkipped(ks)
  PROVE  IndexesAgree'
  <1>1. /\ \A k \in ks : tasks'[k] = [tasks[k] EXCEPT !.skipped = TRUE]
        /\ \A k \in Keys \ ks : tasks'[k] = tasks[k]
    BY DEF MarkSkipped, Live
  <1>2. \A k \in Keys : tasks[k] \in Task
    BY DEF AgreeInv, DispatchInv, TypeOK
  <1>6. \A k \in Keys : tasks'[k].state = tasks[k].state /\ tasks'[k].lane = tasks[k].lane
    BY <1>1, <1>2 DEF Task
  <1>7. \A k \in ks : k \in Keys /\ tasks'[k].skipped
    BY <1>1, <1>2 DEF Task, Live
  <1>3. /\ Refresh(ks, tasks', stopping) /\ skipIndex' = skipIndex \cup ks
        /\ UNCHANGED <<stopping, occupied, live>>
    BY DEF MarkSkipped, workers
  <1>4. IndexIsFresh'
    <2>1. \A k \in indexed \ ks : EntryOf(k, tasks', stopping') = EntryOf(k, tasks, stopping)
      BY <1>1, <1>3, IndexedIsLive DEF AgreeInv, EntryOf, Abandoned, Live
    <2> QED
      BY <1>3, <2>1, RefreshFresh
  <1>5. CountersAgree'
    <2>1. InState("active")' = InState("active") /\ Live' = Live
      BY <1>6 DEF InState, Live
    <2>2. \A l : {k \in InState("active") : tasks[k].lane = l}'
                  = {k \in InState("active") : tasks[k].lane = l}
      BY <1>6, <2>1 DEF InState
    <2>3. \A r : {k \in Live : Run(k) = r}' = {k \in Live : Run(k) = r}
      BY <2>1
    <2>4. skipIndex' = {k \in Live : tasks[k].skipped}'
      BY <1>1, <1>3, <1>7, <2>1 DEF AgreeInv, IndexesAgree, CountersAgree, Live
    <2> QED
      BY <1>3, <2>2, <2>3, <2>4 DEF AgreeInv, IndexesAgree, CountersAgree
  <1> QED
    BY <1>4, <1>5 DEF IndexesAgree

\* What an operator skips is live.
LEMMA AbandoningAgrees == AgreeInv /\ Abandoning => IndexesAgree'
  <1> SUFFICES ASSUME AgreeInv, Abandoning PROVE IndexesAgree'
    OBVIOUS
  <1>1. ASSUME NEW S \in SUBSET Keys, Skip(S) PROVE IndexesAgree'
    <2>1. Selected(S) \in SUBSET Live
      BY SelectedWaits DEF Live, InState
    <2> QED
      BY <1>1, <2>1, MarkAgrees DEF Skip
  <1>2. ASSUME NEW k \in Keys, SkipFile(k) PROVE IndexesAgree'
    <2>1. {k} \in SUBSET Live
      BY <1>2 DEF SkipFile
    <2> QED
      BY <1>2, <2>1, MarkAgrees DEF SkipFile
  <1> QED
    BY <1>1, <1>2, StopAgrees DEF Abandoning

\* Pause commands: a reservation moves nothing, its release wakes.
LEMMA PausingAgrees == AgreeInv /\ Pausing => IndexesAgree'
  <1> SUFFICES ASSUME AgreeInv, Pausing PROVE IndexesAgree'
    OBVIOUS
  <1>1. ASSUME NEW c \in Commands, NEW S, Reserve(c, S) PROVE IndexesAgree'
    BY <1>1, AgreementKept DEF Reserve, workers, controls, AgreeInv
  <1>2. ASSUME NEW c \in Commands, Commit(c) PROVE IndexesAgree'
    <2>1. selection[c] \in SUBSET Live
      BY DEF AgreeInv, DispatchInv, ReservedFilesWait, Live, InState
    <2> QED
      BY <1>2, <2>1, MarkAgrees DEF Commit
  <1>3. ASSUME NEW c \in Commands, Release(c) PROVE IndexesAgree'
    <2> DEFINE woken == {j \in parked : Path(j) \in {Path(k) : k \in selection[c]}}
    <2>1. Index(woken, tasks, stopping)
          /\ UNCHANGED <<tasks, stopping, occupied, live, skipIndex>>
      BY <1>3 DEF Release, Wake, workers, controls
    <2>2. woken \in SUBSET Keys
      BY DEF AgreeInv, DispatchInv, TypeOK
    <2> HIDE DEF woken
    <2>3. /\ indexed' = indexed \cup woken
          /\ \A j \in woken : entries'[j] = EntryOf(j, tasks', stopping')
          /\ \A j \in Keys \ woken : entries'[j] = entries[j]
      BY <2>1, <2>2 DEF Index
    <2>4. \A j \in (Keys \cap indexed) \ woken :
             EntryOf(j, tasks', stopping') = EntryOf(j, tasks, stopping)
      BY <2>1
    <2>5. IndexIsFresh'
      BY <2>2, <2>3, <2>4, FreshKept DEF AgreeInv, IndexesAgree
    <2>6. CountersAgree'
      BY <2>1, CountersKept DEF AgreeInv, IndexesAgree
    <2> QED
      BY <2>5, <2>6 DEF IndexesAgree
  <1> QED
    BY <1>1, <1>2, <1>3 DEF Pausing

\* What a reorder does: only ranks move.
LEMMA ReorderMoves ==
  ASSUME TypeOK, Reordering
  PROVE  /\ Reorder(tasks')
         /\ \A k \in Keys : \E r : tasks'[k] = [tasks[k] EXCEPT !.rank = r]
  <1>0. \A k \in Keys : tasks[k] = [tasks[k] EXCEPT !.rank = tasks[k].rank]
    BY DEF TypeOK, Task
  <1>1. ASSUME NEW ks, Front(ks)
        PROVE  Reorder(tasks') /\ \A k \in Keys : \E r : tasks'[k] = [tasks[k] EXCEPT !.rank = r]
    <2> DEFINE place(k) == Cardinality({j \in ks : Before(tasks[j], tasks[k])})
               rank(k) == front - Cardinality(ks) + place(k)
               T == [k \in Keys |-> IF k \in ks THEN [tasks[k] EXCEPT !.rank = rank(k)]
                                                ELSE tasks[k]]
    <2>1. Reorder(T) /\ tasks' = T
      BY <1>1 DEF Front, Reorder
    <2> HIDE DEF rank
    <2>2. \A k \in Keys : \E r : T[k] = [tasks[k] EXCEPT !.rank = r]
      BY <1>0
    <2> HIDE DEF T
    <2> QED
      BY <2>1, <2>2
  <1>2. ASSUME Restore
        PROVE  Reorder(tasks') /\ \A k \in Keys : \E r : tasks'[k] = [tasks[k] EXCEPT !.rank = r]
    <2> DEFINE kept == {k \in Live : tasks[k].handle \in DOMAIN undo}
               T == [k \in Keys |-> IF k \in kept
                                      THEN [tasks[k] EXCEPT !.rank = undo[tasks[k].handle]]
                                      ELSE tasks[k]]
    <2>1. Reorder(T) /\ tasks' = T
      BY <1>2 DEF Restore, Reorder
    <2> HIDE DEF kept
    <2>2. \A k \in Keys : \E r : T[k] = [tasks[k] EXCEPT !.rank = r]
      BY <1>0
    <2> HIDE DEF T
    <2> QED
      BY <2>1, <2>2
  <1> QED
    BY <1>1, <1>2 DEF Reordering, MoveTop, Hurry

\* A reorder rebuilds every entry.
LEMMA ReorderingAgrees == AgreeInv /\ Reordering => IndexesAgree'
  <1> SUFFICES ASSUME AgreeInv, Reordering PROVE IndexesAgree'
    OBVIOUS
  <1>1. /\ Reorder(tasks')
        /\ \A k \in Keys : /\ tasks'[k].state = tasks[k].state
                           /\ tasks'[k].lane = tasks[k].lane
                           /\ tasks'[k].skipped = tasks[k].skipped
    <2>1. /\ Reorder(tasks')
          /\ \A k \in Keys : \E r : tasks'[k] = [tasks[k] EXCEPT !.rank = r]
      BY ReorderMoves DEF AgreeInv, DispatchInv
    <2> SUFFICES ASSUME NEW k \in Keys
                 PROVE  /\ tasks'[k].state = tasks[k].state
                        /\ tasks'[k].lane = tasks[k].lane
                        /\ tasks'[k].skipped = tasks[k].skipped
      BY <2>1
    <2>2. tasks[k] \in Task
      BY DEF AgreeInv, DispatchInv, TypeOK
    <2>3. PICK r : tasks'[k] = [tasks[k] EXCEPT !.rank = r]
      BY <2>1
    <2> QED
      BY <2>2, <2>3 DEF Task
  <1>2. Refresh(Keys, tasks', stopping') /\ UNCHANGED <<occupied, live, skipIndex>>
    BY <1>1 DEF Reorder, workers, controls
  <1>3. IndexIsFresh'
    BY <1>2, RefreshFresh DEF AgreeInv, DispatchInv, TypeOK
  <1>4. CountersAgree'
    BY <1>1, <1>2, CountersKept DEF AgreeInv, IndexesAgree
  <1> QED
    BY <1>3, <1>4 DEF IndexesAgree

\* Every step keeps heaps and counters in agreement with the tasks.
LEMMA AgreeKept == AgreeInv /\ [Next]_vars => AgreeInv'
  <1> SUFFICES ASSUME AgreeInv, [Next]_vars PROVE AgreeInv'
    OBVIOUS
  <1>1. DispatchInv'
    BY DispatchKept DEF AgreeInv
  <1>2. CASE UNCHANGED vars
    BY <1>1, <1>2, AgreementKept DEF AgreeInv, vars, workers, controls
  <1>3. CASE Admitting
    BY <1>1, <1>3, SubmitAgrees, ContinueAgrees, CompleteAgrees DEF Admitting, Decide, AgreeInv
  <1>4. CASE Working
    BY <1>1, <1>4, ClaimAgrees, ClaimNothingAgrees, FinishAgrees, TailAgrees
    DEF Working, Dispatch, TailStep, AgreeInv
  <1>5. CASE Holding \/ Close \/ Halt
    BY <1>1, <1>5, AgreementKept
    DEF Holding, SetPaused, EnterHold, Close, Halt, AgreeInv, workers, controls
  <1>6. CASE Producing \/ Abandoning \/ StopAll \/ Pausing \/ Reordering
    BY <1>1, <1>6, ProducingAgrees, AbandoningAgrees, StopAgrees, PausingAgrees,
       ReorderingAgrees
    DEF AgreeInv
  <1> QED
    BY <1>2, <1>3, <1>4, <1>5, <1>6 DEF Next, Ending

\* Heaps, counters and the report of skips say what the tasks say, however
\* stops, skips, pauses and reorders interleave with claims: a file abandoned
\* while it waits is always in the heap a pause does not hold, and a lane is
\* never believed full or free when it is not.
THEOREM IndexesAlwaysAgree == Spec => []IndexesAgree
  <1>1. Init => AgreeInv
    BY InitAgrees
  <1>2. AgreeInv /\ [Next]_vars => AgreeInv'
    BY AgreeKept
  <1>3. AgreeInv => IndexesAgree
    BY DEF AgreeInv
  <1> QED
    BY <1>1, <1>2, <1>3, PTL DEF Spec

-----------------------------------------------------------------------------
(***************************************************************************)
(* How an admission ends.  A handle's history is spread over the task, the   *)
(* tails its phases left and the callbacks that ran: that each admission is  *)
(* in exactly one place, that the settlement counter covers what is under    *)
(* way, and that an import's record still expects what has not been booked   *)
(* are kept together.                                                      *)
(***************************************************************************)

\* Two admissions never share a handle, and a file still in discovery has no
\* phase of its admission behind it.
HandlesApart ==
  /\ \A k \in Live : tasks[k].handle \in 1..sequence
  /\ \A j, k \in Live : tasks[j].handle = tasks[k].handle => j = k
  /\ \A k \in InState("pending") \cup InState("active") : tasks[k].lane = "probe"
        => \A t \in tails : t.handle # tasks[k].handle

\* An admission leaves at most one tail per lane and one final one; a final tail
\* is what is left of it, and is past its callback when it only has to settle.
TailsApart ==
  /\ IsFiniteSet(tails)
  /\ \A t \in tails : t.handle \in 1..sequence
  /\ \A t, u \in tails : t.handle = u.handle /\ t.lane = u.lane => t = u
  /\ \A t, u \in tails : t.handle = u.handle /\ t.final /\ u.final => t = u
  /\ \A t \in tails : t.lane # "probe" => t.final
  /\ \A t \in tails : t.final => \A k \in Live : tasks[k].handle # t.handle
  /\ \A t \in tails : t.final => (t.handle \in concluded <=> t.stage = "settle")

\* The final tails of a run whose terminal callbacks are still to run.
EndingOf(r) == {t \in FinalTails : Run(t.key) = r}

\* What an import's record still expects is its live files and those ending;
\* only a sweep's run is closed, and only a sweep has a task group.
ImportsAreBooked ==
  /\ \A r \in Imports : owed[r] = live[r] + Cardinality(EndingOf(r))
  /\ closing \cap Imports = {}
  /\ \A r \in Imports : group[r] = "none"

LifeInv ==
  /\ AgreeInv
  /\ HandlesApart /\ TailsApart
  /\ EveryAdmissionConcludesOnce /\ DrainCoversCallbacks
  /\ ImportsAreBooked /\ RunsOutliveTheirFiles
  /\ DrainedGroupIsEmpty

\* Where an admission can be: concluded, ending, or live.
Booked(h) ==
  \/ h \in concluded
  \/ \E t \in FinalTails : t.handle = h
  \/ \E k \in Live : tasks[k].handle = h

\* The books of admissions, kept handle by handle.
LEMMA AdmissionsBooked ==
  ASSUME TailsApart', \A k \in Live' : tasks'[k].handle \notin concluded',
         \A h : h \in 1..sequence' <=> Booked(h)'
  PROVE  EveryAdmissionConcludesOnce'
  <1>1. \A t, u \in FinalTails' : t.handle = u.handle => t = u
    BY DEF TailsApart, FinalTails
  <1>2. \A t \in FinalTails' : t.handle \notin concluded'
    BY DEF TailsApart, FinalTails
  <1>3. {tasks'[k].handle : k \in Live'} \cap
          (concluded' \cup {t.handle : t \in FinalTails'}) = {}
    BY DEF TailsApart, FinalTails
  <1> DEFINE ending == {t.handle : t \in FinalTails'}
             alive == {tasks'[k].handle : k \in Live'}
  <1>4. 1..sequence' = concluded' \cup ending \cup alive
    <2>1. \A h : h \in ending <=> \E t \in FinalTails' : t.handle = h
      OBVIOUS
    <2>2. \A h : h \in alive <=> \E k \in Live' : tasks'[k].handle = h
      OBVIOUS
    <2> HIDE DEF ending, alive
    <2>3. \A h : h \in 1..sequence' <=> h \in concluded' \cup ending \cup alive
      BY <2>1, <2>2 DEF Booked
    <2> QED
      BY <2>3
  <1> QED
    BY <1>1, <1>2, <1>3, <1>4 DEF EveryAdmissionConcludesOnce

\* The same, taken apart.
LEMMA AdmissionsKnown ==
  ASSUME EveryAdmissionConcludesOnce
  PROVE  /\ \A k \in Live : tasks[k].handle \notin concluded
         /\ \A h : h \in 1..sequence <=> Booked(h)
  <1>1. \A k \in Live : tasks[k].handle \notin concluded
    BY DEF EveryAdmissionConcludesOnce
  <1> DEFINE ending == {t.handle : t \in FinalTails}
             alive == {tasks[k].handle : k \in Live}
  <1>2. \A h : h \in ending <=> \E t \in FinalTails : t.handle = h
    OBVIOUS
  <1>3. \A h : h \in alive <=> \E k \in Live : tasks[k].handle = h
    OBVIOUS
  <1>4. 1..sequence = concluded \cup ending \cup alive
    BY DEF EveryAdmissionConcludesOnce
  <1> HIDE DEF ending, alive
  <1>5. \A h : h \in 1..sequence <=> Booked(h)
    BY <1>2, <1>3, <1>4 DEF Booked
  <1> QED
    BY <1>1, <1>5

\* A step that moves no file, admission or tail, and retires no run they need.
LEMMA LifeStands ==
  ASSUME LifeInv, AgreeInv',
         \A k \in Keys : /\ tasks'[k].state = tasks[k].state
                         /\ tasks'[k].lane = tasks[k].lane
                         /\ tasks'[k].handle = tasks[k].handle,
         UNCHANGED <<tails, settling, sequence, concluded, live, owed>>,
         closing' \cap Imports = {}, \A r \in Imports : group'[r] = "none",
         \A k \in Live : Run(k) \in open' /\ group'[Run(k)] # "drained",
         \A t \in FinalTails : Run(t.key) \in Imports => Run(t.key) \in open'
  PROVE  LifeInv'
  <1>1. /\ InState("active")' = InState("active") /\ InState("pending")' = InState("pending")
        /\ Live' = Live /\ FinalTails' = FinalTails
    BY DEF InState, Live, FinalTails
  <1>2. Live \subseteq Keys /\ InState("active") \subseteq Keys /\ InState("pending") \subseteq Keys
    BY DEF Live, InState
  <1>3. HandlesApart'
    BY <1>1, <1>2 DEF LifeInv, HandlesApart
  <1>4. TailsApart'
    BY <1>1, <1>2 DEF LifeInv, TailsApart
  <1>5. EveryAdmissionConcludesOnce'
    <2>1. {tasks[k].handle : k \in Live}' = {tasks[k].handle : k \in Live}
      BY <1>1, <1>2
    <2> QED
      BY <1>1, <2>1 DEF LifeInv, EveryAdmissionConcludesOnce
  <1>6. DrainCoversCallbacks'
    BY <1>1 DEF LifeInv, DrainCoversCallbacks
  <1>7. ImportsAreBooked'
    BY <1>1 DEF LifeInv, ImportsAreBooked, EndingOf
  <1>8. RunsOutliveTheirFiles' /\ DrainedGroupIsEmpty'
    BY <1>1 DEF RunsOutliveTheirFiles, DrainedGroupIsEmpty
  <1> QED
    BY <1>3, <1>4, <1>5, <1>6, <1>7, <1>8 DEF LifeInv

\* The shape of what LifeInv talks about.
LEMMA LifeTypes ==
  ASSUME TypeOK
  PROVE  /\ \A k \in Keys : tasks[k] \in Task /\ tasks[k].handle \in Nat
         /\ \A t \in tails : t \in Tail /\ t.key \in Keys /\ t.handle \in Nat
         /\ sequence \in Nat /\ settling \in Int
         /\ FinalTails \subseteq tails /\ Live \subseteq Keys
  <1>1. \A k \in Keys : tasks[k] \in Task
    BY DEF TypeOK
  <1>2. \A t \in tails : t \in Tail
    BY DEF TypeOK
  <1> QED
    BY <1>1, <1>2 DEF TypeOK, Task, Tail, FinalTails, Live

\* A new admission has a new handle.
LEMMA SubmitLives ==
  ASSUME LifeInv, AgreeInv', NEW k \in Keys, NEW urgent \in BOOLEAN, Submit(k, urgent)
  PROVE  LifeInv'
  <1>1. TypeOK
    BY DEF LifeInv, AgreeInv, DispatchInv
  <1>2. tasks[k].state = "absent" /\ Run(k) \in open \ closing
        /\ (Run(k) \in Imports \/ group[Run(k)] = "open")
    BY DEF Submit, Admits
  <1>3. /\ tasks'[k].state = "pending" /\ tasks'[k].handle = sequence + 1
        /\ \A j \in Keys \ {k} : tasks'[j] = tasks[j]
    BY <1>1 DEF Submit, TypeOK
  <1>4. /\ Live' = Live \cup {k} /\ k \notin Live
        /\ InState("active")' = InState("active")
        /\ InState("pending")' = InState("pending") \cup {k}
    BY <1>2, <1>3 DEF Live, InState
  <1>5. /\ UNCHANGED <<tails, settling, concluded, open, closing, group>>
        /\ FinalTails' = FinalTails /\ sequence' = sequence + 1
    BY DEF Submit, workers, answers, FinalTails
  <1>6. sequence \in Nat /\ sequence + 1 \notin 1..sequence
        /\ 1..(sequence + 1) = (1..sequence) \cup {sequence + 1}
    BY <1>1 DEF TypeOK
  <1>7. \A j \in Live : j \in Keys \ {k} /\ tasks'[j] = tasks[j]
    BY <1>3, <1>4 DEF Live
  <1>8. HandlesApart'
    <2>1. \A j \in Live' : tasks'[j].handle \in 1..sequence'
      BY <1>3, <1>4, <1>5, <1>6, <1>7 DEF LifeInv, HandlesApart
    <2>2. \A i, j \in Live' : tasks'[i].handle = tasks'[j].handle => i = j
      BY <1>3, <1>4, <1>6, <1>7 DEF LifeInv, HandlesApart
    <2>3. \A j \in InState("pending")' \cup InState("active")' : tasks'[j].lane = "probe"
            => \A t \in tails' : t.handle # tasks'[j].handle
      <3>1. \A j \in InState("pending") \cup InState("active") : j \in Live
        BY DEF InState, Live
      <3> QED
        BY <1>3, <1>4, <1>5, <1>6, <1>7, <3>1 DEF LifeInv, HandlesApart, TailsApart
    <2> QED
      BY <2>1, <2>2, <2>3 DEF HandlesApart
  <1>9. TailsApart'
    BY <1>3, <1>4, <1>5, <1>6, <1>7 DEF LifeInv, TailsApart
  <1>10. EveryAdmissionConcludesOnce'
    <2>1. /\ \A j \in Live : tasks[j].handle \notin concluded
          /\ \A h : h \in 1..sequence <=> Booked(h)
      BY AdmissionsKnown DEF LifeInv
    <2>2. \A h : Booked(h)' <=> Booked(h) \/ h = sequence + 1
      BY <1>3, <1>4, <1>5, <1>7 DEF Booked
    <2>3. \A j \in Live' : tasks'[j].handle \notin concluded'
      BY <1>3, <1>4, <1>5, <1>6, <1>7, <2>1 DEF Booked
    <2>4. \A h : h \in 1..sequence' <=> Booked(h)'
      BY <1>5, <1>6, <2>1, <2>2
    <2> QED
      BY <1>9, <2>3, <2>4, AdmissionsBooked
  <1>11. DrainCoversCallbacks'
    BY <1>4, <1>5 DEF LifeInv, DrainCoversCallbacks
  <1>12. ImportsAreBooked'
    <2>1. \A r \in Imports : owed'[r] = IF r = Run(k) THEN owed[r] + 1 ELSE owed[r]
      BY <1>1, SchedulerAssumption DEF Submit, TypeOK
    <2>2. \A r \in Imports : live'[r] = IF r = Run(k) THEN live[r] + 1 ELSE live[r]
      BY <1>1, SchedulerAssumption DEF Submit, TypeOK
    <2>3. \A r \in Imports : /\ owed[r] = live[r] + Cardinality(EndingOf(r))
                             /\ owed[r] \in Int /\ live[r] \in Int
      BY <1>1, SchedulerAssumption DEF LifeInv, ImportsAreBooked, TypeOK
    <2>4. \A r : EndingOf(r)' = EndingOf(r)
      BY <1>5 DEF EndingOf
    <2>5. \A r \in Imports : Cardinality(EndingOf(r)) \in Int
      <3>1. \A r : EndingOf(r) \in SUBSET tails
        BY DEF EndingOf, FinalTails
      <3> QED
        BY <3>1, FS_Subset, FS_CardinalityType DEF LifeInv, TailsApart
    <2>6. \A r \in Imports : owed'[r] = live'[r] + Cardinality(EndingOf(r)')
      BY <2>1, <2>2, <2>3, <2>4, <2>5
    <2> QED
      BY <1>5, <2>6 DEF LifeInv, ImportsAreBooked
  <1>13. RunsOutliveTheirFiles' /\ DrainedGroupIsEmpty'
    BY <1>2, <1>4, <1>5 DEF LifeInv, RunsOutliveTheirFiles, DrainedGroupIsEmpty, ImportsAreBooked
  <1> QED
    BY <1>8, <1>9, <1>10, <1>11, <1>12, <1>13 DEF LifeInv

\* A file that stays live, under its handle, keeps the books.
LEMMA BooksStand ==
  ASSUME LifeInv, AgreeInv', TailsApart', Live' = Live,
         \A k \in Live : tasks'[k].handle = tasks[k].handle,
         FinalTails' = FinalTails,
         UNCHANGED <<sequence, concluded, live, owed, open, closing, group>>
  PROVE  /\ EveryAdmissionConcludesOnce' /\ ImportsAreBooked'
         /\ RunsOutliveTheirFiles' /\ DrainedGroupIsEmpty'
  <1>1. /\ \A k \in Live : tasks[k].handle \notin concluded
        /\ \A h : h \in 1..sequence <=> Booked(h)
    BY AdmissionsKnown DEF LifeInv
  <1>2. \A h : Booked(h)' <=> Booked(h)
    BY DEF Booked
  <1>3. EveryAdmissionConcludesOnce'
    BY <1>1, <1>2, AdmissionsBooked
  <1>4. ImportsAreBooked'
    BY DEF LifeInv, ImportsAreBooked, EndingOf
  <1> QED
    BY <1>3, <1>4 DEF LifeInv, RunsOutliveTheirFiles, DrainedGroupIsEmpty

\* A discovered file goes on under the same handle.
LEMMA ContinueLives ==
  ASSUME LifeInv, AgreeInv', NEW k \in Keys, NEW h, ContinueFile(k, h)
  PROVE  LifeInv'
  <1>1. TypeOK
    BY DEF LifeInv, AgreeInv, DispatchInv
  <1>2. tasks[k].state = "awaiting"
    BY DEF ContinueFile, Decides
  <1>3. /\ tasks'[k].state = "pending" /\ tasks'[k].handle = tasks[k].handle
        /\ tasks'[k].lane = "work"
        /\ \A j \in Keys \ {k} : tasks'[j] = tasks[j]
    BY <1>1, LifeTypes DEF ContinueFile, TypeOK, Task
  <1>4. /\ Live' = Live /\ k \in Live
        /\ InState("active")' = InState("active")
        /\ InState("pending")' = InState("pending") \cup {k}
    BY <1>2, <1>3 DEF Live, InState
  <1>5. /\ UNCHANGED <<tails, settling, concluded, sequence, live, owed, open, closing, group>>
        /\ FinalTails' = FinalTails
    BY DEF ContinueFile, workers, answers, controls, registry, FinalTails
  <1>6. \A j \in Live : tasks'[j].handle = tasks[j].handle
    BY <1>3, LifeTypes, <1>1
  <1>7. HandlesApart'
    <2>1. \A j \in InState("pending") \cup InState("active") : j \in Keys
      BY DEF InState
    <2> QED
      BY <1>3, <1>4, <1>5, <1>6, <2>1 DEF LifeInv, HandlesApart
  <1>8. TailsApart'
    BY <1>4, <1>5, <1>6 DEF LifeInv, TailsApart
  <1>9. DrainCoversCallbacks'
    BY <1>4, <1>5 DEF LifeInv, DrainCoversCallbacks
  <1> QED
    BY <1>4, <1>5, <1>6, <1>7, <1>8, <1>9, BooksStand DEF LifeInv

\* A claim registers the call it starts with the settlement counter.
LEMMA ClaimLives ==
  ASSUME LifeInv, AgreeInv', NEW k \in Keys, Claim(k)
  PROVE  LifeInv'
  <1>1. TypeOK
    BY DEF LifeInv, AgreeInv, DispatchInv
  <1>2. k \in InState("pending")
    BY IndexedIsLive DEF Claim, Heads, LifeInv, AgreeInv
  <1>3. /\ tasks'[k].state = "active" /\ tasks'[k].handle = tasks[k].handle
        /\ tasks'[k].lane = tasks[k].lane
        /\ \A j \in Keys \ {k} : tasks'[j] = tasks[j]
    BY <1>1, LifeTypes DEF Claim, TypeOK, Task
  <1>4. /\ Live' = Live /\ k \in Live /\ k \notin InState("active")
        /\ InState("active")' = InState("active") \cup {k}
        /\ InState("pending")' = InState("pending") \ {k}
    BY <1>2, <1>3 DEF Live, InState
  <1>5. /\ UNCHANGED <<tails, concluded, sequence, live, owed, open, closing, group>>
        /\ FinalTails' = FinalTails /\ settling' = settling + 1
    BY DEF Claim, answers, controls, registry, ranks, FinalTails
  <1>6. \A j \in Live : tasks'[j].handle = tasks[j].handle
    BY <1>3, LifeTypes, <1>1
  <1>7. HandlesApart'
    <2>1. \A j \in InState("pending") \cup InState("active") : j \in Keys
      BY DEF InState
    <2> QED
      BY <1>2, <1>3, <1>4, <1>5, <1>6, <2>1 DEF LifeInv, HandlesApart
  <1>8. TailsApart'
    BY <1>4, <1>5, <1>6 DEF LifeInv, TailsApart
  <1>9. DrainCoversCallbacks'
    <2>1. InState("active") \in SUBSET Keys
      BY DEF InState
    <2>2. /\ Cardinality(InState("active")) \in Nat
          /\ Cardinality(InState("active") \cup {k}) = Cardinality(InState("active")) + 1
      BY <1>4, <2>1, CountByOne
    <2>3. Cardinality(tails) \in Nat
      BY FS_CardinalityType DEF LifeInv, TailsApart
    <2>4. settling = Cardinality(InState("active")) + Cardinality(tails)
      BY DEF LifeInv, DrainCoversCallbacks
    <2>5. Cardinality(InState("active")') = Cardinality(InState("active")) + 1
      BY <1>4, <2>2
    <2>6. settling' = settling + 1 /\ tails' = tails
      BY <1>5
    <2>7. settling' = Cardinality(InState("active")') + Cardinality(tails')
      BY <2>2, <2>3, <2>4, <2>5, <2>6
    <2> QED
      BY <2>7 DEF DrainCoversCallbacks
  <1> QED
    BY <1>4, <1>5, <1>6, <1>7, <1>8, <1>9, BooksStand DEF LifeInv

\* How the count of tails moves with one tail.
LEMMA TailsCount ==
  ASSUME IsFiniteSet(tails), NEW t
  PROVE  /\ Cardinality(tails) \in Nat
         /\ IsFiniteSet(tails \cup {t}) /\ IsFiniteSet(tails \ {t})
         /\ t \notin tails => Cardinality(tails \cup {t}) = Cardinality(tails) + 1
         /\ t \in tails => Cardinality(tails \ {t}) = Cardinality(tails) - 1
  BY FS_CardinalityType, FS_AddElement, FS_RemoveElement

\* A settled phase leaves the counter with its tail.
LEMMA SettleLives ==
  ASSUME LifeInv, AgreeInv', NEW t \in tails, Settle(t)
  PROVE  LifeInv'
  <1>1. TypeOK
    BY DEF LifeInv, AgreeInv, DispatchInv
  <1>2. /\ tails' = tails \ {t} /\ settling' = settling - 1 /\ t.stage = "settle"
        /\ UNCHANGED <<tasks, concluded, sequence, live, owed, open, closing, group>>
    BY DEF Settle, answers, controls, registry, ranks
  <1>3. /\ Live' = Live /\ InState("active")' = InState("active")
        /\ InState("pending")' = InState("pending") /\ FinalTails' = FinalTails
    BY <1>2 DEF Live, InState, FinalTails
  <1>4. HandlesApart'
    BY <1>2, <1>3 DEF LifeInv, HandlesApart
  <1>5. TailsApart'
    <2>1. IsFiniteSet(tails')
      BY <1>2, TailsCount DEF LifeInv, TailsApart
    <2> QED
      BY <1>2, <1>3, <2>1 DEF LifeInv, TailsApart
  <1>6. DrainCoversCallbacks'
    <2>1. /\ Cardinality(tails') = Cardinality(tails) - 1 /\ Cardinality(tails) \in Nat
          /\ Cardinality(InState("active")) \in Nat
      <3>1. InState("active") \in SUBSET Keys
        BY DEF InState
      <3> QED
        BY <1>2, <3>1, TailsCount, SelectionCounts DEF LifeInv, TailsApart
    <2> QED
      BY <1>2, <1>3, <2>1 DEF LifeInv, DrainCoversCallbacks
  <1> QED
    BY <1>2, <1>3, <1>4, <1>5, <1>6, BooksStand DEF LifeInv

\* A run that retires has no live file left, and an import none unbooked.
LEMMA RetireOutlived ==
  ASSUME NEW r, NEW closes, NEW fills, NEW n, NEW owes, Retire(r, closes, fills, n, owes),
         closes \cap Imports = {}, n = 0 => LiveOf(r)' = {},
         r \in Imports /\ n = 0 /\ owes = 0 => EndingOf(r)' = {},
         \A k \in Live' : Run(k) \in open,
         \A t \in FinalTails' : Run(t.key) \in Imports => Run(t.key) \in open
  PROVE  RunsOutliveTheirFiles' /\ closing' \cap Imports = {}
  <1>1. open' = open \/ (n = 0 /\ open' = open \ {r} /\ (r \in Imports => owes = 0))
    BY DEF Retire, Retires
  <1>2. \A k \in Live' : Run(k) \in open'
    BY <1>1 DEF LiveOf
  <1>3. \A t \in FinalTails' : Run(t.key) \in Imports => Run(t.key) \in open'
    BY <1>1 DEF EndingOf
  <1>4. closing' \cap Imports = {}
    BY DEF Retire
  <1> QED
    BY <1>2, <1>3, <1>4 DEF RunsOutliveTheirFiles

\* The tails an import still has to book are finitely many.
LEMMA EndingCount ==
  ASSUME LifeInv, NEW r, NEW t
  PROVE  /\ Cardinality(EndingOf(r)) \in Nat /\ IsFiniteSet(EndingOf(r))
         /\ Cardinality(EndingOf(r)) = 0 => EndingOf(r) = {}
         /\ t \notin EndingOf(r) =>
              Cardinality(EndingOf(r) \cup {t}) = Cardinality(EndingOf(r)) + 1
         /\ t \in EndingOf(r) =>
              Cardinality(EndingOf(r) \ {t}) = Cardinality(EndingOf(r)) - 1
  <1>1. EndingOf(r) \in SUBSET tails
    BY DEF EndingOf, FinalTails
  <1>2. IsFiniteSet(EndingOf(r))
    BY <1>1, FS_Subset DEF LifeInv, TailsApart
  <1> QED
    BY <1>2, FS_CardinalityType, FS_EmptySet, FS_AddElement, FS_RemoveElement

\* What an import's books say of its counts.
LEMMA OwedCounts ==
  ASSUME LifeInv, NEW r \in Imports
  PROVE  /\ owed[r] = live[r] + Cardinality(EndingOf(r))
         /\ live[r] = Cardinality(LiveOf(r))
         /\ live[r] \in Nat /\ Cardinality(EndingOf(r)) \in Nat
  <1>1. r \in Runs
    BY SchedulerAssumption
  <1>2. live[r] = Cardinality(LiveOf(r)) /\ LiveOf(r) \in SUBSET Keys
    BY <1>1 DEF LifeInv, AgreeInv, IndexesAgree, CountersAgree, LiveOf, Live
  <1>3. live[r] \in Nat
    BY <1>2, SelectionCounts
  <1> QED
    BY <1>2, <1>3, EndingCount DEF LifeInv, ImportsAreBooked

\* A terminal callback concludes its admission and books an import's file.
LEMMA CallbacksLives ==
  ASSUME LifeInv, AgreeInv', NEW t \in tails, Callbacks(t)
  PROVE  LifeInv'
  <1> DEFINE s == [t EXCEPT !.stage = "settle"]
             r == Run(t.key)
             books == t.final /\ r \in Imports
  <1>1. TypeOK
    BY DEF LifeInv, AgreeInv, DispatchInv
  <1>2. /\ t \in Tail /\ t.stage = "callbacks" /\ r \in Runs /\ t.final \in BOOLEAN
        /\ s.key = t.key /\ s.handle = t.handle /\ s.lane = t.lane
        /\ s.final = t.final /\ s.stage = "settle"
    BY <1>1, LifeTypes, KeyParts DEF Callbacks, Tail
  <1>3. /\ tails' = (tails \ {t}) \cup {s}
        /\ concluded' = IF t.final THEN concluded \cup {t.handle} ELSE concluded
        /\ owed' = [owed EXCEPT ![r] = IF books THEN @ - 1 ELSE @]
        /\ IF books THEN Retire(r, closing, filling, live[r], owed[r] - 1)
                    ELSE UNCHANGED <<open, closing, stopping>>
        /\ UNCHANGED <<tasks, settling, sequence, live, group>>
    BY DEF Callbacks, ranks
  <1> HIDE DEF s, r
  <1>4. /\ Live' = Live /\ InState("active")' = InState("active")
        /\ InState("pending")' = InState("pending")
    BY <1>3 DEF Live, InState
  <1>5. FinalTails' = FinalTails \ {t}
    BY <1>2, <1>3 DEF FinalTails
  <1>6. s \notin tails
    BY <1>2 DEF LifeInv, TailsApart
  <1>7. HandlesApart'
    BY <1>2, <1>3, <1>4 DEF LifeInv, HandlesApart
  <1>8. Cardinality(tails') = Cardinality(tails) /\ IsFiniteSet(tails')
    <2>1. IsFiniteSet(tails \ {t}) /\ Cardinality(tails \ {t}) = Cardinality(tails) - 1
          /\ Cardinality(tails) \in Nat
      BY TailsCount DEF LifeInv, TailsApart
    <2>2. Cardinality((tails \ {t}) \cup {s}) = Cardinality(tails \ {t}) + 1
          /\ IsFiniteSet((tails \ {t}) \cup {s})
      BY <1>6, <2>1, FS_AddElement
    <2> QED
      BY <1>3, <2>1, <2>2
  <1>9. TailsApart'
    <2>1. \A u \in tails' : u = s \/ (u \in tails /\ u # t)
      BY <1>3
    <2>2. \A u \in tails : u # t => u.handle # t.handle \/ u.lane # t.lane
      BY DEF LifeInv, TailsApart
    <2>3. \A u \in tails' : u.handle \in 1..sequence'
      BY <1>2, <1>3, <2>1 DEF LifeInv, TailsApart
    <2>4. \A u, v \in tails' : u.handle = v.handle /\ u.lane = v.lane => u = v
      BY <1>2, <2>1, <2>2 DEF LifeInv, TailsApart
    <2>5. \A u, v \in tails' : u.handle = v.handle /\ u.final /\ v.final => u = v
      BY <1>2, <2>1 DEF LifeInv, TailsApart
    <2>6. \A u \in tails' : /\ u.lane # "probe" => u.final
                            /\ u.final => \A k \in Live' : tasks'[k].handle # u.handle
      BY <1>2, <1>3, <1>4, <2>1 DEF LifeInv, TailsApart
    <2>7. \A u \in tails' : u.final => (u.handle \in concluded' <=> u.stage = "settle")
      <3>1. CASE t.final
        <4>1. \A u \in tails : u # t /\ u.final => u.handle # t.handle
          BY <3>1 DEF LifeInv, TailsApart
        <4> QED
          BY <1>2, <1>3, <2>1, <3>1, <4>1 DEF LifeInv, TailsApart
      <3>2. CASE ~t.final
        BY <1>2, <1>3, <2>1, <3>2 DEF LifeInv, TailsApart
      <3> QED
        BY <3>1, <3>2
    <2> QED
      BY <1>8, <2>3, <2>4, <2>5, <2>6, <2>7 DEF TailsApart
  <1>10. EveryAdmissionConcludesOnce'
    <2>1. /\ \A k \in Live : tasks[k].handle \notin concluded
          /\ \A h : h \in 1..sequence <=> Booked(h)
      BY AdmissionsKnown DEF LifeInv
    <2>2. \A k \in Live' : tasks'[k].handle \notin concluded'
      BY <1>3, <1>4, <2>1 DEF LifeInv, TailsApart
    <2>3. \A h : Booked(h)' <=> Booked(h)
      <3>1. CASE t.final
        <4>1. t \in FinalTails
          BY <1>2, <3>1 DEF FinalTails
        <4> QED
          BY <1>3, <1>4, <1>5, <3>1, <4>1 DEF Booked
      <3>2. CASE ~t.final
        <4>1. FinalTails' = FinalTails
          BY <1>5, <3>2 DEF FinalTails
        <4> QED
          BY <1>3, <1>4, <3>2, <4>1 DEF Booked
      <3> QED
        BY <3>1, <3>2
    <2> QED
      BY <1>3, <1>9, <2>1, <2>2, <2>3, AdmissionsBooked
  <1>11. DrainCoversCallbacks'
    BY <1>3, <1>4, <1>8 DEF LifeInv, DrainCoversCallbacks
  <1>12. \A i \in Imports : owed'[i] = live'[i] + Cardinality(EndingOf(i)')
    <2> SUFFICES ASSUME NEW i \in Imports
                 PROVE  owed'[i] = live'[i] + Cardinality(EndingOf(i)')
      OBVIOUS
    <2>1. /\ owed[i] = live[i] + Cardinality(EndingOf(i)) /\ live' = live
          /\ live[i] \in Nat /\ Cardinality(EndingOf(i)) \in Nat
      BY <1>3, OwedCounts
    <2>2. owed'[i] = IF books /\ i = r THEN owed[i] - 1 ELSE owed[i]
      BY <1>1, <1>2, <1>3, SchedulerAssumption DEF TypeOK
    <2>3. CASE books /\ i = r
      <3>1. t \in EndingOf(i) /\ EndingOf(i)' = EndingOf(i) \ {t}
        BY <1>2, <1>5, <2>3 DEF EndingOf, FinalTails, r
      <3>2. Cardinality(EndingOf(i) \ {t}) = Cardinality(EndingOf(i)) - 1
        BY <3>1, EndingCount
      <3> QED
        BY <2>1, <2>2, <2>3, <3>1, <3>2
    <2>4. CASE ~(books /\ i = r)
      <3>1. EndingOf(i)' = EndingOf(i)
        BY <1>5, <2>4 DEF EndingOf, FinalTails, r
      <3> QED
        BY <2>1, <2>2, <2>4, <3>1
    <2> QED
      BY <2>3, <2>4
  <1>13. RunsOutliveTheirFiles' /\ closing' \cap Imports = {}
    <2>1. /\ \A k \in Live' : Run(k) \in open /\ k \in Live
          /\ \A u \in FinalTails' : Run(u.key) \in Imports => Run(u.key) \in open
          /\ closing \cap Imports = {}
      BY <1>4, <1>5 DEF LifeInv, RunsOutliveTheirFiles, ImportsAreBooked
    <2>2. CASE ~books
      BY <1>3, <2>1, <2>2 DEF RunsOutliveTheirFiles
    <2>3. CASE books
      <3>1. /\ live[r] = Cardinality(LiveOf(r)) /\ LiveOf(r) \in SUBSET Keys
            /\ owed'[r] = live'[r] + Cardinality(EndingOf(r)') /\ owed'[r] = owed[r] - 1
            /\ live'[r] = live[r]
        BY <1>1, <1>2, <1>3, <1>12, <2>3, OwedCounts DEF LiveOf, Live, TypeOK
      <3>2. live[r] = 0 => LiveOf(r)' = {}
        BY <1>4, <3>1, CountNone DEF LiveOf
      <3>3. live[r] = 0 /\ owed[r] - 1 = 0 => EndingOf(r)' = {}
        <4>1. EndingOf(r)' \in SUBSET EndingOf(r)
          BY <1>5 DEF EndingOf
        <4>2. IsFiniteSet(EndingOf(r)') /\ Cardinality(EndingOf(r)') \in Nat
          BY <4>1, EndingCount, FS_Subset, FS_CardinalityType
        <4>3. Cardinality(EndingOf(r)') = 0 => EndingOf(r)' = {}
          BY <4>2, FS_EmptySet
        <4> QED
          BY <3>1, <4>2, <4>3
      <3>4. Retire(r, closing, filling, live[r], owed[r] - 1)
        BY <1>3, <2>3
      <3> QED
        BY <2>1, <3>2, <3>3, <3>4, RetireOutlived
    <2> QED
      BY <2>2, <2>3
  <1>14. ImportsAreBooked' /\ DrainedGroupIsEmpty'
    BY <1>3, <1>4, <1>12, <1>13 DEF LifeInv, ImportsAreBooked, DrainedGroupIsEmpty
  <1> QED
    BY <1>7, <1>9, <1>10, <1>11, <1>13, <1>14 DEF LifeInv

\* A file that leaves with a terminal callback to come: its admission changes
\* place, its run's books do not.
LEMMA EndingLives ==
  ASSUME LifeInv, AgreeInv', NEW k \in Live, Terminal(k), NEW s,
         s.key = k, s.handle = tasks[k].handle, s.final, s.stage = "callbacks",
         s.lane # "probe" \/ tasks[k].state = "active",
         s.lane = "probe" => tasks[k].lane = "probe",
         tails' = tails \cup {s},
         UNCHANGED <<sequence, concluded, owed, group>>
  PROVE  /\ HandlesApart' /\ TailsApart' /\ EveryAdmissionConcludesOnce'
         /\ ImportsAreBooked' /\ RunsOutliveTheirFiles' /\ DrainedGroupIsEmpty'
         /\ s \notin tails
  <1>1. TypeOK
    BY DEF LifeInv, AgreeInv, DispatchInv
  <1>2. /\ k \in Keys /\ tasks[k].state # "absent" /\ tasks'[k].state = "absent"
        /\ \A j \in Keys \ {k} : tasks'[j] = tasks[j]
        /\ live' = [live EXCEPT ![Run(k)] = @ - 1]
        /\ Retire(Run(k), closing, filling, live[Run(k)] - 1, owed[Run(k)])
    BY <1>1 DEF Terminal, TypeOK, NoTask, Live, InState
  <1>3. /\ Live' = Live \ {k}
        /\ \A j \in Live' : j \in Live /\ j # k /\ tasks'[j] = tasks[j]
        /\ InState("pending")' \cup InState("active")'
             = (InState("pending") \cup InState("active")) \ {k}
    BY <1>2 DEF Live, InState
  <1>4. \A j \in Live' : tasks'[j].handle # s.handle
    BY <1>3 DEF LifeInv, HandlesApart
  <1>5. \A t \in tails : t.handle = s.handle => ~t.final /\ t.lane # s.lane
    <2>1. \A t \in tails : t.handle = s.handle => ~t.final /\ t.lane = "probe"
      BY DEF LifeInv, TailsApart
    <2>2. CASE s.lane # "probe"
      BY <2>1, <2>2
    <2>3. CASE s.lane = "probe"
      <3>1. k \in InState("active") /\ tasks[k].lane = "probe"
        BY <1>2, <2>3 DEF InState
      <3> QED
        BY <3>1 DEF LifeInv, HandlesApart
    <2> QED
      BY <2>2, <2>3
  <1>6. s \notin tails /\ FinalTails' = FinalTails \cup {s}
    BY <1>5 DEF FinalTails
  <1>7. HandlesApart'
    <2>1. \A j \in InState("pending")' \cup InState("active")' :
             j \in Live' /\ j \in InState("pending") \cup InState("active")
      BY <1>3 DEF Live, InState
    <2> QED
      BY <1>3, <1>4, <2>1 DEF LifeInv, HandlesApart
  <1>8. TailsApart'
    <2>1. IsFiniteSet(tails')
      BY TailsCount DEF LifeInv, TailsApart
    <2>2. s.handle \in 1..sequence /\ s.handle \notin concluded
      BY AdmissionsKnown DEF LifeInv, HandlesApart
    <2>3. \A t \in tails' : t = s \/ t \in tails
      OBVIOUS
    <2>4. \A t, u \in tails' : t.handle = u.handle /\ t.lane = u.lane => t = u
      BY <1>5, <2>3 DEF LifeInv, TailsApart
    <2>5. \A t, u \in tails' : t.handle = u.handle /\ t.final /\ u.final => t = u
      BY <1>5, <2>3 DEF LifeInv, TailsApart
    <2>6. /\ \A t \in tails' : t.handle \in 1..sequence'
          /\ \A t \in tails' : t.lane # "probe" => t.final
          /\ \A t \in tails' : t.final => (t.handle \in concluded' <=> t.stage = "settle")
      BY <2>2, <2>3 DEF LifeInv, TailsApart
    <2>7. \A t \in tails' : t.final => \A j \in Live' : tasks'[j].handle # t.handle
      BY <1>3, <1>4, <2>3 DEF LifeInv, TailsApart
    <2> QED
      BY <2>1, <2>4, <2>5, <2>6, <2>7 DEF TailsApart
  <1>9. EveryAdmissionConcludesOnce'
    <2>1. /\ \A j \in Live : tasks[j].handle \notin concluded
          /\ \A h : h \in 1..sequence <=> Booked(h)
      BY AdmissionsKnown DEF LifeInv
    <2>2. \A j \in Live' : tasks'[j].handle \notin concluded'
      BY <1>3, <2>1
    <2>3. \A h : Booked(h)' <=> Booked(h)
      BY <1>2, <1>3, <1>6 DEF Booked, Live, InState
    <2> QED
      BY <1>8, <2>1, <2>2, <2>3, AdmissionsBooked
  <1>10. \A i \in Imports : /\ owed'[i] = live'[i] + Cardinality(EndingOf(i)')
                            /\ i = Run(k) => owed[i] # 0
    <2> SUFFICES ASSUME NEW i \in Imports
                 PROVE  /\ owed'[i] = live'[i] + Cardinality(EndingOf(i)')
                        /\ i = Run(k) => owed[i] # 0
      OBVIOUS
    <2>1. /\ owed[i] = live[i] + Cardinality(EndingOf(i)) /\ owed' = owed
          /\ live[i] \in Nat /\ Cardinality(EndingOf(i)) \in Nat
          /\ live[i] = Cardinality(LiveOf(i)) /\ LiveOf(i) \in SUBSET Keys
      BY OwedCounts DEF LiveOf, Live
    <2>2. live'[i] = IF i = Run(k) THEN live[i] - 1 ELSE live[i]
      BY <1>1, <1>2, SchedulerAssumption DEF TypeOK
    <2>3. CASE i = Run(k)
      <3>1. s \notin EndingOf(i) /\ EndingOf(i)' = EndingOf(i) \cup {s}
        BY <1>6, <2>3 DEF EndingOf, FinalTails
      <3>2. Cardinality(EndingOf(i) \cup {s}) = Cardinality(EndingOf(i)) + 1
        BY <3>1, EndingCount
      <3>3. k \in LiveOf(i)
        BY <2>3 DEF LiveOf
      <3>4. live[i] # 0
        BY <2>1, <3>3, CountNone
      <3> QED
        BY <2>1, <2>2, <2>3, <3>1, <3>2, <3>4
    <2>4. CASE i # Run(k)
      <3>1. EndingOf(i)' = EndingOf(i)
        BY <1>6, <2>4 DEF EndingOf
      <3> QED
        BY <2>1, <2>2, <2>4, <3>1
    <2> QED
      BY <2>3, <2>4
  <1>11. RunsOutliveTheirFiles' /\ closing' \cap Imports = {}
    <2>1. /\ \A j \in Live' : Run(j) \in open
          /\ \A t \in FinalTails' : Run(t.key) \in Imports => Run(t.key) \in open
          /\ closing \cap Imports = {}
      BY <1>3, <1>6 DEF LifeInv, RunsOutliveTheirFiles, ImportsAreBooked
    <2>2. live[Run(k)] - 1 = 0 => LiveOf(Run(k))' = {}
      <3>1. /\ live[Run(k)] = Cardinality(LiveOf(Run(k))) /\ k \in LiveOf(Run(k))
            /\ LiveOf(Run(k)) \in SUBSET Keys
        BY <1>2, KeyParts DEF LifeInv, AgreeInv, IndexesAgree, CountersAgree, LiveOf, Live
      <3>2. live[Run(k)] - 1 = 0 => LiveOf(Run(k)) = {k}
        BY <3>1, CountAlone
      <3>3. LiveOf(Run(k))' = LiveOf(Run(k)) \ {k}
        BY <1>3 DEF LiveOf
      <3> QED
        BY <3>2, <3>3
    <2> QED
      BY <1>2, <1>10, <2>1, <2>2, RetireOutlived
  <1>12. ImportsAreBooked' /\ DrainedGroupIsEmpty'
    BY <1>3, <1>10, <1>11 DEF LifeInv, ImportsAreBooked, DrainedGroupIsEmpty
  <1> QED
    BY <1>6, <1>7, <1>8, <1>9, <1>11, <1>12

\* A file completed without a rewrite: its caller's callback claims a settlement.
LEMMA CompleteLives ==
  ASSUME LifeInv, AgreeInv', NEW k \in Keys, NEW h, CompleteFile(k, h)
  PROVE  LifeInv'
  <1> DEFINE s == [key |-> k, handle |-> h, lane |-> "decision",
                   final |-> TRUE, stage |-> "callbacks"]
  <1>1. /\ tasks[k].state = "awaiting" /\ tasks[k].handle = h /\ k \in Live /\ Terminal(k)
        /\ tails' = tails \cup {s} /\ settling' = settling + 1
        /\ UNCHANGED <<sequence, concluded, owed, group>>
    BY DEF CompleteFile, Decides, Live, InState, ranks, registry, answers
  <1>2. s.key = k /\ s.handle = h /\ s.lane = "decision" /\ s.final /\ s.stage = "callbacks"
    OBVIOUS
  <1> HIDE DEF s
  <1>3. /\ HandlesApart' /\ TailsApart' /\ EveryAdmissionConcludesOnce'
        /\ ImportsAreBooked' /\ RunsOutliveTheirFiles' /\ DrainedGroupIsEmpty'
        /\ s \notin tails
    BY <1>1, <1>2, EndingLives
  <1>4. DrainCoversCallbacks'
    <2>1. InState("active")' = InState("active")
      BY <1>1 DEF Terminal, LifeInv, AgreeInv, DispatchInv, TypeOK, InState, NoTask
    <2>2. InState("active") \in SUBSET Keys
      BY DEF InState
    <2>3. /\ Cardinality(InState("active")) \in Nat /\ Cardinality(tails) \in Nat
          /\ Cardinality(tails') = Cardinality(tails) + 1
      BY <1>1, <1>3, <2>2, TailsCount, SelectionCounts DEF LifeInv, TailsApart
    <2> QED
      BY <1>1, <2>1, <2>3 DEF LifeInv, DrainCoversCallbacks
  <1> QED
    BY <1>3, <1>4 DEF LifeInv

\* A call that returned leaves a tail for its callbacks under the counter.
LEMMA FinishLives ==
  ASSUME LifeInv, AgreeInv', NEW k \in Keys, NEW failed \in BOOLEAN, Finish(k, failed)
  PROVE  LifeInv'
  <1> DEFINE final == Ends(tasks[k], failed)
             s == [key |-> k, handle |-> tasks[k].handle, lane |-> tasks[k].lane,
                   final |-> final, stage |-> "callbacks"]
  <1>1. TypeOK /\ tasks[k] \in Task /\ tasks[k].lane \in Lanes /\ final \in BOOLEAN
    BY LifeTypes DEF LifeInv, AgreeInv, DispatchInv, Task, Ends
  <1>2. /\ tasks[k].state = "active" /\ k \in Live
        /\ tails' = tails \cup {s} /\ settling' = settling
        /\ UNCHANGED <<sequence, concluded, delivered, owed, group>>
        /\ IF final THEN Terminal(k)
                    ELSE tasks' = [tasks EXCEPT ![k].state = "awaiting"] /\ UNCHANGED controls
    BY DEF Finish, Live, InState, ranks, registry, answers
  <1>3. s.key = k /\ s.handle = tasks[k].handle /\ s.lane = tasks[k].lane
        /\ s.final = final /\ s.stage = "callbacks"
    OBVIOUS
  <1>4. final \/ tasks[k].lane = "probe"
    BY <1>1 DEF Ends, Lanes
  <1> HIDE DEF s, final
  <1>5. s \notin tails => DrainCoversCallbacks'
    <2> SUFFICES ASSUME s \notin tails PROVE DrainCoversCallbacks'
      OBVIOUS
    <2>1. k \in InState("active") /\ InState("active") \in SUBSET Keys
      BY <1>2 DEF InState
    <2>2. InState("active")' = InState("active") \ {k}
      BY <1>1, <1>2 DEF Terminal, TypeOK, InState, NoTask, Task
    <2>3. /\ Cardinality(InState("active")) \in Nat
          /\ Cardinality(InState("active") \ {k}) = Cardinality(InState("active")) - 1
      BY <2>1, CountByOne
    <2>4. Cardinality(tails) \in Nat /\ Cardinality(tails') = Cardinality(tails) + 1
      BY <1>2, TailsCount DEF LifeInv, TailsApart
    <2>5. settling = Cardinality(InState("active")) + Cardinality(tails)
      BY DEF LifeInv, DrainCoversCallbacks
    <2>6. Cardinality(InState("active")') = Cardinality(InState("active")) - 1
      BY <2>2, <2>3
    <2>7. settling' = settling
      BY <1>2
    <2>8. settling' = Cardinality(InState("active")') + Cardinality(tails')
      BY <2>3, <2>4, <2>5, <2>6, <2>7
    <2> QED
      BY <2>8 DEF DrainCoversCallbacks
  <1>6. CASE final
    <2>1. /\ HandlesApart' /\ TailsApart' /\ EveryAdmissionConcludesOnce'
          /\ ImportsAreBooked' /\ RunsOutliveTheirFiles' /\ DrainedGroupIsEmpty'
          /\ s \notin tails
      BY <1>2, <1>3, <1>6, EndingLives
    <2> QED
      BY <1>5, <2>1 DEF LifeInv
  <1>7. CASE ~final
    <2>1. /\ tasks'[k].state = "awaiting" /\ tasks'[k].handle = tasks[k].handle
          /\ \A j \in Keys \ {k} : tasks'[j] = tasks[j]
          /\ UNCHANGED <<open, closing, live>>
      BY <1>1, <1>2, <1>7 DEF controls, TypeOK, Task
    <2>2. /\ Live' = Live /\ InState("pending")' = InState("pending")
          /\ InState("active")' = InState("active") \ {k}
          /\ \A j \in Live : j \in Keys /\ tasks'[j].handle = tasks[j].handle
      BY <1>2, <2>1 DEF Live, InState
    <2>3. \A t \in tails : t.handle # s.handle
      BY <1>2, <1>3, <1>4, <1>7 DEF LifeInv, HandlesApart, InState
    <2>4. s \notin tails /\ FinalTails' = FinalTails
      BY <1>2, <1>3, <1>7, <2>3 DEF FinalTails
    <2>5. HandlesApart'
      <3>1. \A j \in InState("pending")' \cup InState("active")' :
               /\ j \in Live /\ j # k /\ tasks'[j] = tasks[j]
               /\ j \in InState("pending") \cup InState("active")
        BY <1>2, <2>1, <2>2 DEF Live, InState
      <3>2. \A j \in InState("pending")' \cup InState("active")' :
               tasks'[j].lane = "probe" => \A t \in tails' : t.handle # tasks'[j].handle
        BY <1>2, <1>3, <3>1 DEF LifeInv, HandlesApart
      <3> QED
        BY <1>2, <2>2, <3>2 DEF LifeInv, HandlesApart
    <2>6. TailsApart'
      <3>1. IsFiniteSet(tails') /\ \A t \in tails' : t = s \/ t \in tails
        BY <1>2, TailsCount DEF LifeInv, TailsApart
      <3>2. s.handle \in 1..sequence
        BY <1>2, <1>3 DEF LifeInv, HandlesApart
      <3>3. /\ \A t, u \in tails' : t.handle = u.handle /\ t.lane = u.lane => t = u
            /\ \A t, u \in tails' : t.handle = u.handle /\ t.final /\ u.final => t = u
        BY <2>3, <3>1 DEF LifeInv, TailsApart
      <3>4. /\ \A t \in tails' : t.handle \in 1..sequence'
            /\ \A t \in tails' : t.lane # "probe" => t.final
            /\ \A t \in tails' : t.final => (t.handle \in concluded' <=> t.stage = "settle")
        BY <1>2, <1>3, <1>4, <1>7, <3>1, <3>2 DEF LifeInv, TailsApart
      <3>5. \A t \in tails' : t.final => \A j \in Live' : tasks'[j].handle # t.handle
        BY <1>3, <1>7, <2>2, <3>1 DEF LifeInv, TailsApart
      <3> QED
        BY <3>1, <3>3, <3>4, <3>5 DEF TailsApart
    <2> QED
      BY <1>2, <1>5, <2>1, <2>2, <2>4, <2>5, <2>6, BooksStand DEF LifeInv
  <1> QED
    BY <1>6, <1>7

\* Initially there are no admissions.
LEMMA InitLives == Init => LifeInv
  <1> SUFFICES ASSUME Init PROVE LifeInv
    OBVIOUS
  <1>1. AgreeInv
    BY InitAgrees
  <1>2. InState("active") = {} /\ InState("pending") = {} /\ Live = {}
    BY DEF Init, InState, Live, NoTask
  <1>3. /\ tails = {} /\ settling = 0 /\ sequence = 0 /\ concluded = {} /\ closing = {}
        /\ FinalTails = {}
    BY DEF Init, FinalTails
  <1>4. HandlesApart /\ TailsApart
    BY <1>2, <1>3, FS_EmptySet DEF HandlesApart, TailsApart
  <1>5. EveryAdmissionConcludesOnce /\ DrainCoversCallbacks
    BY <1>2, <1>3, FS_EmptySet DEF EveryAdmissionConcludesOnce, DrainCoversCallbacks
  <1>6. ImportsAreBooked
    <2>1. \A r \in Imports : owed[r] = 0 /\ live[r] = 0 /\ group[r] = "none"
      BY SchedulerAssumption DEF Init
    <2>2. \A r : EndingOf(r) = {}
      BY <1>3 DEF EndingOf
    <2> QED
      BY <1>3, <2>1, <2>2, FS_EmptySet DEF ImportsAreBooked
  <1>7. RunsOutliveTheirFiles /\ DrainedGroupIsEmpty
    BY <1>2, <1>3 DEF RunsOutliveTheirFiles, DrainedGroupIsEmpty
  <1> QED
    BY <1>1, <1>4, <1>5, <1>6, <1>7 DEF LifeInv

\* A run that retires while nothing else moves had nothing left.
LEMMA RetireLives ==
  ASSUME LifeInv, AgreeInv', NEW r \in Runs, NEW closes, NEW fills,
         Retire(r, closes, fills, live[r], owed[r]), closes \cap Imports = {},
         UNCHANGED <<tasks, tails, settling, sequence, concluded, live, owed, group>>
  PROVE  LifeInv'
  <1>1. Live' = Live /\ FinalTails' = FinalTails
    BY DEF Live, InState, FinalTails
  <1>2. /\ live[r] = Cardinality(LiveOf(r)) /\ LiveOf(r) \in SUBSET Keys
        /\ LiveOf(r)' = LiveOf(r) /\ EndingOf(r)' = EndingOf(r)
    BY <1>1 DEF LifeInv, AgreeInv, IndexesAgree, CountersAgree, LiveOf, EndingOf, Live
  <1>3. live[r] = 0 => LiveOf(r)' = {}
    BY <1>2, CountNone
  <1>4. r \in Imports /\ live[r] = 0 /\ owed[r] = 0 => EndingOf(r)' = {}
    <2> SUFFICES ASSUME r \in Imports, live[r] = 0, owed[r] = 0 PROVE EndingOf(r)' = {}
      OBVIOUS
    <2>1. Cardinality(EndingOf(r)) = 0
      BY OwedCounts
    <2> QED
      BY <1>2, <2>1, EndingCount
  <1>5. RunsOutliveTheirFiles' /\ closing' \cap Imports = {}
    BY <1>1, <1>3, <1>4, RetireOutlived DEF LifeInv, RunsOutliveTheirFiles
  <1>6. /\ \A k \in Live : Run(k) \in open' /\ group'[Run(k)] # "drained"
        /\ \A t \in FinalTails : Run(t.key) \in Imports => Run(t.key) \in open'
        /\ \A i \in Imports : group'[i] = "none"
    BY <1>1, <1>5 DEF LifeInv, RunsOutliveTheirFiles, DrainedGroupIsEmpty, ImportsAreBooked
  <1> QED
    BY <1>5, <1>6, LifeStands

\* Runs open, are sealed, close and drain.
LEMMA ProducingLives ==
  ASSUME LifeInv, AgreeInv', Producing
  PROVE  LifeInv'
  <1>1. /\ \A k \in Live : Run(k) \in Runs /\ Run(k) \in open /\ group[Run(k)] # "drained"
        /\ \A t \in FinalTails : Run(t.key) \in Imports => Run(t.key) \in open
        /\ \A i \in Imports : group[i] = "none" /\ i \in Runs
        /\ closing \cap Imports = {}
        /\ group \in [Runs -> {"none", "open", "closed", "drained"}]
    BY KeyParts, SchedulerAssumption
    DEF LifeInv, RunsOutliveTheirFiles, DrainedGroupIsEmpty, ImportsAreBooked, Live,
        AgreeInv, DispatchInv, TypeOK
  <1>2. ASSUME NEW r \in Runs, NEW fills \in BOOLEAN, OpenRun(r, fills) PROVE LifeInv'
    <2>1. /\ open' = open \cup {r} /\ closing' = closing
          /\ group' = [group EXCEPT ![r] = IF r \in Imports THEN @ ELSE "open"]
          /\ UNCHANGED <<tasks, tails, settling, sequence, concluded, live, owed>>
      BY <1>2 DEF OpenRun, workers, ranks, answers
    <2>2. /\ \A k \in Live : Run(k) \in open' /\ group'[Run(k)] # "drained"
          /\ \A t \in FinalTails : Run(t.key) \in Imports => Run(t.key) \in open'
          /\ \A i \in Imports : group'[i] = "none"
      BY <1>1, <2>1
    <2> QED
      BY <1>1, <2>1, <2>2, LifeStands
  <1>3. ASSUME NEW r \in Runs, Seal(r) PROVE LifeInv'
    <2>1. /\ Retire(r, closing, filling \ {r}, live[r], owed[r])
          /\ UNCHANGED <<tasks, tails, settling, sequence, concluded, live, owed, group>>
      BY <1>3 DEF Seal, workers, ranks, answers
    <2> QED
      BY <1>1, <2>1, RetireLives
  <1>4. ASSUME NEW r \in Runs, CloseRun(r) PROVE LifeInv'
    <2>1. /\ Retire(r, closing \cup {r}, filling, live[r], owed[r]) /\ r \notin Imports
          /\ UNCHANGED <<tasks, tails, settling, sequence, concluded, live, owed, group>>
      BY <1>4 DEF CloseRun, workers, ranks, answers, registry
    <2> QED
      BY <1>1, <2>1, RetireLives
  <1>5. ASSUME NEW r \in Runs, CloseGroup(r) \/ DrainGroup(r) PROVE LifeInv'
    <2>1. /\ UNCHANGED <<tasks, tails, settling, sequence, concluded, live, owed, open,
                         closing>>
          /\ group[r] \in {"open", "closed"}
      BY <1>5 DEF CloseGroup, DrainGroup, workers, ranks, answers, controls, registry
    <2>2. \A k \in Live : group'[Run(k)] # "drained"
      <3>1. CASE CloseGroup(r)
        BY <1>1, <3>1 DEF CloseGroup
      <3>2. CASE DrainGroup(r)
        <4>1. \A k \in Live : tasks[k].state \in {"pending", "active", "awaiting"}
                              /\ k \in Keys
          BY LifeTypes DEF Live, InState, LifeInv, AgreeInv, DispatchInv, Task, Stages
        <4>2. \A k \in Live : Run(k) # r
          BY <3>2, <4>1 DEF DrainGroup, InState
        <4> QED
          BY <1>1, <3>2, <4>2 DEF DrainGroup
      <3> QED
        BY <1>5, <3>1, <3>2
    <2>3. \A i \in Imports : group'[i] = "none"
      BY <1>1, <1>5, <2>1 DEF CloseGroup, DrainGroup
    <2> QED
      BY <1>1, <2>1, <2>2, <2>3, LifeStands
  <1> QED
    BY <1>2, <1>3, <1>4, <1>5 DEF Producing

\* What moves files is an admission, a decision, a claim or a return.
LEMMA CommandMoves ==
  ASSUME TypeOK,
         \/ Producing \/ Abandoning \/ Pausing \/ Reordering \/ Holding \/ Ending
         \/ ClaimNothing \/ UNCHANGED vars
         \/ \E t \in tails : Callbacks(t) \/ Settle(t)
  PROVE  \A k \in Keys : /\ tasks'[k].state = tasks[k].state
                         /\ tasks'[k].lane = tasks[k].lane
                         /\ tasks'[k].handle = tasks[k].handle
  <1>1. \A k \in Keys : tasks[k] \in Task
    BY LifeTypes
  <1>2. ASSUME NEW ks, MarkSkipped(ks), NEW k \in Keys
        PROVE  /\ tasks'[k].state = tasks[k].state
               /\ tasks'[k].lane = tasks[k].lane
               /\ tasks'[k].handle = tasks[k].handle
    <2>1. tasks'[k] = IF k \in ks THEN [tasks[k] EXCEPT !.skipped = TRUE] ELSE tasks[k]
      BY <1>2 DEF MarkSkipped
    <2> QED
      BY <1>1, <2>1 DEF Task
  <1>3. ASSUME Reordering, NEW k \in Keys
        PROVE  /\ tasks'[k].state = tasks[k].state
               /\ tasks'[k].lane = tasks[k].lane
               /\ tasks'[k].handle = tasks[k].handle
    <2>1. PICK r : tasks'[k] = [tasks[k] EXCEPT !.rank = r]
      BY <1>3, ReorderMoves
    <2> QED
      BY <1>1, <2>1 DEF Task
  <1>4. \/ tasks' = tasks \/ Reordering \/ \E ks : MarkSkipped(ks)
    BY DEF Producing, OpenRun, Seal, CloseRun, CloseGroup, DrainGroup, Callbacks, Settle,
           Abandoning, Pausing, Stop, Skip, SkipFile, Reserve, Commit, Release,
           Holding, SetPaused, EnterHold, Ending, Close, StopAll, Halt, ClaimNothing, vars
  <1> QED
    BY <1>2, <1>3, <1>4

\* Stops, skips, pauses, reorders and the service's own steps end nothing.
LEMMA CommandLives ==
  ASSUME LifeInv, AgreeInv',
         Abandoning \/ Pausing \/ Reordering \/ Holding \/ Ending \/ ClaimNothing
           \/ UNCHANGED vars
  PROVE  LifeInv'
  <1>1. UNCHANGED <<tails, settling, sequence, concluded, live, owed, open, closing, group>>
    <2> USE DEF workers, ranks, controls, registry, answers
    <2>1. ASSUME Abandoning \/ Pausing
          PROVE  UNCHANGED <<tails, settling, sequence, concluded, live, owed, open, closing,
                             group>>
      BY <2>1 DEF Abandoning, Pausing, Stop, Skip, SkipFile, MarkSkipped, Reserve, Commit,
                  Release
    <2>2. ASSUME Reordering
          PROVE  UNCHANGED <<tails, settling, sequence, concluded, live, owed, open, closing,
                             group>>
      <3>1. Reorder(tasks')
        BY <2>2, ReorderMoves DEF LifeInv, AgreeInv, DispatchInv
      <3> QED
        BY <3>1 DEF Reorder
    <2>3. ASSUME Holding \/ Ending \/ ClaimNothing \/ UNCHANGED vars
          PROVE  UNCHANGED <<tails, settling, sequence, concluded, live, owed, open, closing,
                             group>>
      BY <2>3 DEF Holding, SetPaused, EnterHold, Ending, Close, StopAll, Halt, ClaimNothing,
                  vars
    <2> QED
      BY <2>1, <2>2, <2>3
  <1>3. \A k \in Keys : /\ tasks'[k].state = tasks[k].state
                        /\ tasks'[k].lane = tasks[k].lane
                        /\ tasks'[k].handle = tasks[k].handle
    BY CommandMoves DEF LifeInv, AgreeInv, DispatchInv
  <1>4. /\ \A k \in Live : Run(k) \in open' /\ group'[Run(k)] # "drained"
        /\ \A t \in FinalTails : Run(t.key) \in Imports => Run(t.key) \in open'
        /\ \A i \in Imports : group'[i] = "none"
        /\ closing' \cap Imports = {}
    BY <1>1 DEF LifeInv, RunsOutliveTheirFiles, DrainedGroupIsEmpty, ImportsAreBooked
  <1> QED
    BY <1>1, <1>3, <1>4, LifeStands

\* Every step keeps the books of admissions.
LEMMA LifeKept == LifeInv /\ [Next]_vars => LifeInv'
  <1> SUFFICES ASSUME LifeInv, [Next]_vars PROVE LifeInv'
    OBVIOUS
  <1>1. AgreeInv'
    BY AgreeKept DEF LifeInv
  <1>2. CASE Producing
    BY <1>1, <1>2, ProducingLives
  <1>3. CASE Admitting
    BY <1>1, <1>3, SubmitLives, ContinueLives, CompleteLives DEF Admitting, Decide
  <1>4. CASE Working
    BY <1>1, <1>4, ClaimLives, CommandLives, FinishLives, CallbacksLives, SettleLives
    DEF Working, Dispatch, TailStep
  <1>5. CASE Abandoning \/ Pausing \/ Reordering \/ Holding \/ Ending \/ UNCHANGED vars
    BY <1>1, <1>5, CommandLives
  <1> QED
    BY <1>2, <1>3, <1>4, <1>5 DEF Next

\* The inductive invariant of admissions holds in every reachable state.
THEOREM LifeHolds == Spec => []LifeInv
  <1>1. Init => LifeInv
    BY InitLives
  <1>2. LifeInv /\ [Next]_vars => LifeInv'
    BY LifeKept
  <1> QED
    BY <1>1, <1>2, PTL DEF Spec

\* No admission is lost and none ends twice: whatever is stopped, skipped,
\* reordered or retired, its one terminal callback has run, is about to, or the
\* file is live.  The registry books each file of a delivery exactly once.
THEOREM AdmissionsConcludeOnce == Spec => []EveryAdmissionConcludesOnce
  <1>1. LifeInv => EveryAdmissionConcludesOnce
    BY DEF LifeInv
  <1> QED
    BY <1>1, LifeHolds, PTL

\* The counter lifecycle.shutdown drains covers every call and callback there is.
THEOREM DrainAlwaysCovers == Spec => []DrainCoversCallbacks
  <1>1. LifeInv => DrainCoversCallbacks
    BY DEF LifeInv
  <1> QED
    BY <1>1, LifeHolds, PTL

\* retire_run never forgets a run that still has a file to run or to book.
THEOREM RunsOutlive == Spec => []RunsOutliveTheirFiles
  <1>1. LifeInv => RunsOutliveTheirFiles
    BY DEF LifeInv
  <1> QED
    BY <1>1, LifeHolds, PTL

\* After Group.drain returned, the walk has no file left that could touch its cache.
THEOREM DrainedStaysEmpty == Spec => []DrainedGroupIsEmpty
  <1>1. LifeInv => DrainedGroupIsEmpty
    BY DEF LifeInv
  <1> QED
    BY <1>1, LifeHolds, PTL

\* In a drained, closed queue no step is left that could start anything.
LEMMA QuietStays == LifeInv /\ [Next]_vars /\ closed /\ Quiet => Quiet'
  <1> SUFFICES ASSUME LifeInv, [Next]_vars, closed, Live = {}, reserved = {}, settling = 0
               PROVE  Live' = {} /\ reserved' = {} /\ settling' = 0
    BY DEF Quiet
  <1>1. TypeOK
    BY DEF LifeInv, AgreeInv, DispatchInv
  <1>2. /\ InState("active") = {} /\ InState("pending") = {} /\ indexed = {}
        /\ \A k \in Keys : tasks[k].state = "absent"
    BY IndexedIsLive DEF Live, InState, LifeInv, AgreeInv
  <1>3. tails = {}
    <2>1. Cardinality(InState("active")) = 0
      BY <1>2, FS_EmptySet
    <2>2. /\ IsFiniteSet(tails) /\ Cardinality(tails) \in Nat
          /\ Cardinality(tails) = 0 => tails = {}
      BY FS_CardinalityType, FS_EmptySet DEF LifeInv, TailsApart
    <2>3. Cardinality(tails) = 0
      BY <2>1, <2>2 DEF LifeInv, DrainCoversCallbacks
    <2> QED
      BY <2>2, <2>3
  <1>4. \A S : Selected(S) = {}
    BY <1>2 DEF Selected
  <1>5. ~Admitting
    BY <1>2 DEF Admitting, Submit, Admits, Decide, ContinueFile, CompleteFile, Decides
  <1>6. Working => ClaimNothing
    BY <1>2, <1>3 DEF Working, Dispatch, Claim, Heads, Finish, TailStep
  <1>7. \/ Producing \/ Abandoning \/ Pausing \/ Reordering \/ Holding \/ Ending
        \/ ClaimNothing \/ UNCHANGED vars
    BY <1>5, <1>6 DEF Next
  <1>8. Live' = {}
    <2>1. \A k \in Keys : tasks'[k].state = "absent"
      BY <1>1, <1>2, <1>7, CommandMoves
    <2> QED
      BY <2>1 DEF Live, InState
  <1>9. reserved' = {} /\ settling' = 0
    <2> USE DEF workers, ranks, controls, registry, pauses, answers
    <2>1. CASE Producing \/ Holding \/ Ending \/ ClaimNothing \/ UNCHANGED vars
      BY <2>1 DEF Producing, OpenRun, Seal, CloseRun, CloseGroup, DrainGroup, Holding,
                  SetPaused, EnterHold, Ending, Close, StopAll, Halt, ClaimNothing, vars
    <2>2. CASE Abandoning \/ Pausing
      BY <1>4, <2>2 DEF Abandoning, Pausing, Stop, Skip, SkipFile, MarkSkipped, Reserve,
                        Commit, Release
    <2>3. CASE Reordering
      BY <1>1, <2>3, ReorderMoves DEF Reorder
    <2> QED
      BY <1>7, <2>1, <2>2, <2>3
  <1> QED
    BY <1>8, <1>9

\* Once closed and drained, the queue stays drained: what lifecycle.shutdown
\* reports cannot be undone by a late command, callback or admission.
THEOREM QuietStaysFinal == Spec => QuietIsFinal
  <1>1. LifeInv /\ [Next]_vars => [closed /\ Quiet => Quiet']_vars
    BY QuietStays
  <1> QED
    BY <1>1, LifeHolds, PTL DEF Spec, QuietIsFinal

\* A live file's handle has not been concluded, so an answer to it is its
\* discovery's.
LEMMA DeciderHoldsAnswer ==
  LifeInv /\ [Next]_vars =>
    \A k \in Keys : tasks[k].state = "awaiting" /\ tasks'[k].state # "awaiting"
                      => tasks[k].handle \in delivered
  <1> SUFFICES ASSUME LifeInv, [Next]_vars, NEW k \in Keys, tasks[k].state = "awaiting",
                      tasks'[k].state # "awaiting"
               PROVE  tasks[k].handle \in delivered
    OBVIOUS
  <1>1. TypeOK
    BY DEF LifeInv, AgreeInv, DispatchInv
  <1>2. k \in Live /\ tasks[k].handle \notin concluded
    BY AdmissionsKnown DEF LifeInv, Live, InState
  <1>3. ASSUME NEW h, ContinueFile(k, h) \/ CompleteFile(k, h)
        PROVE  tasks[k].handle \in delivered
    BY <1>2, <1>3 DEF ContinueFile, CompleteFile, Decides, Answered
  <1>4. ASSUME NEW j \in Keys \ {k}, NEW h, NEW urgent, NEW failed,
               \/ Submit(j, urgent) \/ ContinueFile(j, h) \/ CompleteFile(j, h)
               \/ Claim(j) \/ Finish(j, failed)
        PROVE  FALSE
    <2>1. tasks'[k] = tasks[k]
      BY <1>1, <1>4 DEF Submit, ContinueFile, CompleteFile, Claim, Finish, Terminal, TypeOK
    <2> QED
      BY <2>1
  <1>5. ASSUME NEW urgent, NEW failed, Submit(k, urgent) \/ Claim(k) \/ Finish(k, failed)
        PROVE  FALSE
    <2>1. k \notin indexed
      BY IndexedIsLive DEF LifeInv, AgreeInv, InState
    <2> QED
      BY <1>5, <2>1 DEF Submit, Admits, Claim, Heads, Finish
  <1>6. ~(\/ Producing \/ Abandoning \/ Pausing \/ Reordering \/ Holding \/ Ending
          \/ ClaimNothing \/ UNCHANGED vars
          \/ \E t \in tails : Callbacks(t) \/ Settle(t))
    BY <1>1, CommandMoves
  <1>7. Admitting \/ Working
    BY <1>6 DEF Next
  <1>8. CASE Admitting
    BY <1>3, <1>4, <1>5, <1>8 DEF Admitting, Decide
  <1>9. CASE Working
    BY <1>4, <1>5, <1>6, <1>9 DEF Working, Dispatch, TailStep
  <1> QED
    BY <1>7, <1>8, <1>9

\* A file between its discovery and its rewrite is moved only by whoever holds
\* this admission's answer: a handle kept from an earlier admission of the same
\* file decides nothing.
THEOREM HoldersDecide == Spec => DecidedByItsHolder
  <1>1. LifeInv /\ [Next]_vars =>
          [\A k \in Keys : tasks[k].state = "awaiting" /\ tasks'[k].state # "awaiting"
             => tasks[k].handle \in delivered]_vars
    BY DeciderHoldsAnswer
  <1> QED
    BY <1>1, LifeHolds, PTL DEF Spec, DecidedByItsHolder

-----------------------------------------------------------------------------
(***************************************************************************)
(* Ranks.  A restored rank may have been given away while the undo stood     *)
(* unless every rank given since lies outside those it remembers.           *)
(***************************************************************************)

\* Ranks are handed out at both ends: below the last front rank, or above the
\* last admission.
RanksInRange ==
  /\ front <= 0
  /\ \A k \in Live : front <= tasks[k].rank /\ tasks[k].rank <= sequence

\* What an undo remembers: the ranks of some admissions, each once, and none
\* that a file outside the undo has been given since.
UndoIsApart ==
  /\ DOMAIN undo \subseteq 1..sequence
  /\ \A h \in DOMAIN undo : front <= undo[h] /\ undo[h] <= sequence
  /\ \A h, i \in DOMAIN undo : undo[h] = undo[i] => h = i
  /\ \A k \in Live : tasks[k].handle \notin DOMAIN undo
        => \A h \in DOMAIN undo : undo[h] # tasks[k].rank

OrderInv == LifeInv /\ RanksInRange /\ UndoIsApart /\ RanksDistinct

\* The shape of what OrderInv talks about.
LEMMA OrderTypes ==
  ASSUME LifeInv
  PROVE  /\ TypeOK
         /\ \A k \in Keys : tasks[k] \in Task /\ tasks[k].rank \in Int
                            /\ tasks[k].handle \in Nat /\ tasks[k].priority \in BOOLEAN
         /\ sequence \in Nat /\ front \in Int
         /\ \A h \in DOMAIN undo : h \in Nat /\ undo[h] \in Int
         /\ Live \subseteq Keys /\ InState("pending") \subseteq Live
         /\ \A j, k \in Live : tasks[j].handle = tasks[k].handle => j = k
         /\ \A k \in Live : tasks[k].handle \in 1..sequence
  <1>1. TypeOK
    BY DEF LifeInv, AgreeInv, DispatchInv
  <1>2. \A k \in Keys : tasks[k] \in Task
    BY <1>1 DEF TypeOK
  <1>3. \A k \in Keys : tasks[k].rank \in Int /\ tasks[k].handle \in Nat
                        /\ tasks[k].priority \in BOOLEAN
    BY <1>2 DEF Task
  <1>4. sequence \in Nat /\ front \in Int /\ \A h \in DOMAIN undo : h \in Nat /\ undo[h] \in Int
    BY <1>1 DEF TypeOK
  <1>5. Live \subseteq Keys /\ InState("pending") \subseteq Live
    BY DEF Live, InState
  <1> QED
    BY <1>1, <1>2, <1>3, <1>4, <1>5 DEF LifeInv, HandlesApart

\* The queue order of files with different ranks is strict and total.
LEMMA BeforeOrders ==
  ASSUME NEW t, NEW u, NEW v, t.rank \in Int, u.rank \in Int, v.rank \in Int,
         t.priority \in BOOLEAN, u.priority \in BOOLEAN, v.priority \in BOOLEAN
  PROVE  /\ ~Before(t, t)
         /\ Before(t, u) /\ Before(u, v) => Before(t, v)
         /\ t.rank # u.rank => Before(t, u) \/ Before(u, t)
  BY DEF Before

\* The places _front gives a selection: each a place of its own, in as many
\* places as there are files.
LEMMA PlacesApart ==
  ASSUME LifeInv, RanksDistinct, NEW ks \in SUBSET Live
  PROVE  LET place(k) == Cardinality({j \in ks : Before(tasks[j], tasks[k])})
         IN  /\ \A k \in ks : place(k) \in Nat /\ place(k) < Cardinality(ks)
             /\ \A j, k \in ks : place(j) = place(k) => j = k
  <1> DEFINE ahead(k) == {j \in ks : Before(tasks[j], tasks[k])}
  <1>1. /\ ks \in SUBSET Keys /\ IsFiniteSet(ks)
        /\ \A k \in ks : tasks[k].rank \in Int /\ tasks[k].priority \in BOOLEAN
    <2>1. ks \in SUBSET Keys
      BY OrderTypes
    <2> QED
      BY <2>1, OrderTypes, SchedulerAssumption, FS_Subset
  <1>2. \A j, k \in ks : j # k => Before(tasks[j], tasks[k]) \/ Before(tasks[k], tasks[j])
    BY <1>1, BeforeOrders DEF RanksDistinct
  <1>3. \A k \in ks : ahead(k) \in SUBSET ks /\ k \notin ahead(k)
    BY <1>1, BeforeOrders
  <1>4. \A j, k \in ks : Before(tasks[j], tasks[k])
                           => ahead(j) \in SUBSET ahead(k) /\ j \in ahead(k)
    BY <1>1, BeforeOrders
  <1> HIDE DEF ahead
  <1>5. \A k \in ks : /\ Cardinality(ahead(k)) \in Nat
                      /\ Cardinality(ahead(k)) < Cardinality(ks)
    <2> SUFFICES ASSUME NEW k \in ks
                 PROVE  /\ Cardinality(ahead(k)) \in Nat
                        /\ Cardinality(ahead(k)) < Cardinality(ks)
      OBVIOUS
    <2>1. /\ Cardinality(ahead(k)) \in Nat /\ Cardinality(ks) \in Nat
          /\ Cardinality(ahead(k)) <= Cardinality(ks)
          /\ Cardinality(ks) = Cardinality(ahead(k)) => ks = ahead(k)
      BY <1>1, <1>3, FS_Subset, FS_CardinalityType
    <2>2. ks # ahead(k)
      BY <1>3
    <2> QED
      BY <2>1, <2>2
  <1>6. \A j, k \in ks : Before(tasks[j], tasks[k])
                           => Cardinality(ahead(j)) # Cardinality(ahead(k))
    <2> SUFFICES ASSUME NEW j \in ks, NEW k \in ks, Before(tasks[j], tasks[k])
                 PROVE  Cardinality(ahead(j)) # Cardinality(ahead(k))
      OBVIOUS
    <2>1. IsFiniteSet(ahead(k))
      BY <1>1, <1>3, FS_Subset
    <2>2. Cardinality(ahead(k)) = Cardinality(ahead(j)) => ahead(k) = ahead(j)
      BY <1>4, <2>1, FS_Subset
    <2> QED
      BY <1>3, <1>4, <2>2
  <1>7. \A j, k \in ks : Cardinality(ahead(j)) = Cardinality(ahead(k)) => j = k
    BY <1>2, <1>6
  <1> QED
    BY <1>5, <1>7 DEF ahead

\* A step that hands out no rank and no handle.
LEMMA RanksStand ==
  ASSUME OrderInv, LifeInv', Live' \subseteq Live,
         \A k \in Live' : /\ tasks'[k].rank = tasks[k].rank
                          /\ tasks'[k].handle = tasks[k].handle,
         UNCHANGED <<sequence, front, undo>>
  PROVE  OrderInv'
  <1>1. RanksInRange'
    BY DEF OrderInv, RanksInRange
  <1>2. UndoIsApart'
    BY DEF OrderInv, UndoIsApart
  <1>3. RanksDistinct'
    BY DEF OrderInv, RanksDistinct
  <1> QED
    BY <1>1, <1>2, <1>3 DEF OrderInv

\* An admission goes behind everything.
LEMMA SubmitRanks ==
  ASSUME OrderInv, LifeInv', NEW k \in Keys, NEW urgent \in BOOLEAN, Submit(k, urgent)
  PROVE  OrderInv'
  <1>1. TypeOK /\ sequence \in Nat /\ front \in Int
    BY OrderTypes DEF OrderInv
  <1>2. /\ tasks'[k].rank = sequence + 1 /\ tasks'[k].handle = sequence + 1
        /\ tasks'[k].state = "pending" /\ tasks[k].state = "absent"
        /\ \A j \in Keys \ {k} : tasks'[j] = tasks[j]
    BY <1>1 DEF Submit, Admits, TypeOK
  <1>3. Live' = Live \cup {k} /\ k \notin Live
        /\ \A j \in Live : j \in Keys \ {k} /\ tasks'[j] = tasks[j]
    BY <1>2 DEF Live, InState
  <1>4. sequence' = sequence + 1 /\ front' = front /\ undo' = undo
    BY DEF Submit
  <1>5. \A j \in Live : tasks[j].rank \in Int /\ front <= tasks[j].rank
                        /\ tasks[j].rank <= sequence
    BY OrderTypes DEF OrderInv, RanksInRange
  <1>6. RanksInRange'
    BY <1>1, <1>2, <1>3, <1>4, <1>5 DEF OrderInv, RanksInRange
  <1>7. \A h \in DOMAIN undo : /\ h \in Nat /\ undo[h] \in Int /\ h \in 1..sequence
                               /\ front <= undo[h] /\ undo[h] <= sequence
    BY OrderTypes DEF OrderInv, UndoIsApart
  <1>8. UndoIsApart'
    <2>1. DOMAIN undo' \subseteq 1..sequence'
      BY <1>1, <1>4, <1>7
    <2>2. \A h \in DOMAIN undo' : front' <= undo'[h] /\ undo'[h] <= sequence'
      BY <1>1, <1>4, <1>7
    <2>3. \A h, i \in DOMAIN undo' : undo'[h] = undo'[i] => h = i
      BY <1>4 DEF OrderInv, UndoIsApart
    <2>4. \A j \in Live' : tasks'[j].handle \notin DOMAIN undo'
            => \A h \in DOMAIN undo' : undo'[h] # tasks'[j].rank
      BY <1>1, <1>2, <1>3, <1>4, <1>7 DEF OrderInv, UndoIsApart
    <2> QED
      BY <2>1, <2>2, <2>3, <2>4 DEF UndoIsApart
  <1>9. RanksDistinct'
    BY <1>1, <1>2, <1>3, <1>5 DEF OrderInv, RanksDistinct
  <1> QED
    BY <1>6, <1>8, <1>9 DEF OrderInv

\* A delivery's file goes ahead of everything, but only while no undo stands.
LEMMA ContinueRanks ==
  ASSUME OrderInv, LifeInv', NEW k \in Keys, NEW h, ContinueFile(k, h)
  PROVE  OrderInv'
  <1>1. TypeOK /\ tasks[k] \in Task /\ sequence \in Nat /\ front \in Int
    BY OrderTypes DEF OrderInv
  <1>2. PICK hurry \in BOOLEAN :
          /\ hurry => undo = NoUndo
          /\ front' = IF hurry THEN front - 1 ELSE front
          /\ tasks' = [tasks EXCEPT ![k] =
                [tasks[k] EXCEPT !.state = "pending", !.lane = "work", !.priority = FALSE,
                                 !.rank = IF hurry THEN front - 1 ELSE tasks[k].rank]]
    BY DEF ContinueFile
  <1>3. tasks[k].state = "awaiting" /\ sequence' = sequence /\ undo' = undo
    BY DEF ContinueFile, Decides
  <1>4. /\ tasks'[k].state = "pending" /\ tasks'[k].handle = tasks[k].handle
        /\ tasks'[k].rank = IF hurry THEN front - 1 ELSE tasks[k].rank
        /\ \A j \in Keys \ {k} : tasks'[j] = tasks[j]
    BY <1>1, <1>2 DEF TypeOK, Task
  <1>5. Live' = Live /\ k \in Live /\ \A j \in Live : j \in Keys
    BY <1>3, <1>4 DEF Live, InState
  <1>6. CASE ~hurry
    <2>1. \A j \in Live' : tasks'[j].rank = tasks[j].rank /\ tasks'[j].handle = tasks[j].handle
      BY <1>4, <1>5, <1>6
    <2> QED
      BY <1>2, <1>3, <1>5, <1>6, <2>1, RanksStand
  <1>7. CASE hurry
    <2>1. \A j \in Live : tasks[j].rank \in Int /\ front <= tasks[j].rank
                          /\ tasks[j].rank <= sequence
      BY OrderTypes DEF OrderInv, RanksInRange
    <2>2. RanksInRange'
      BY <1>1, <1>2, <1>3, <1>4, <1>5, <1>7, <2>1 DEF OrderInv, RanksInRange
    <2>3. UndoIsApart'
      BY <1>2, <1>3, <1>7 DEF UndoIsApart, NoUndo
    <2>4. RanksDistinct'
      BY <1>1, <1>4, <1>5, <1>7, <2>1 DEF OrderInv, RanksDistinct
    <2> QED
      BY <2>2, <2>3, <2>4 DEF OrderInv
  <1> QED
    BY <1>6, <1>7

\* What _front does: its files get ranks of their own below every other.
LEMMA FrontRanks ==
  ASSUME OrderInv, NEW ks \in SUBSET Live, Front(ks)
  PROVE  /\ Live' = Live /\ sequence' = sequence /\ front' \in Int /\ front' <= front
         /\ \A k \in Live : tasks'[k].handle = tasks[k].handle
         /\ \A k \in Live \ ks : tasks'[k].rank = tasks[k].rank
         /\ \A k \in ks : /\ tasks'[k].rank \in Int
                          /\ front' <= tasks'[k].rank /\ tasks'[k].rank < front
         /\ \A j, k \in ks : tasks'[j].rank = tasks'[k].rank => j = k
  <1> DEFINE place(k) == Cardinality({j \in ks : Before(tasks[j], tasks[k])})
             first == front - Cardinality(ks)
             T == [k \in Keys |-> IF k \in ks THEN [tasks[k] EXCEPT !.rank = first + place(k)]
                                              ELSE tasks[k]]
  <1>1. /\ \A k \in ks : place(k) \in Nat /\ place(k) < Cardinality(ks)
        /\ \A j, k \in ks : place(j) = place(k) => j = k
    BY PlacesApart DEF OrderInv
  <1>2. front' = first /\ tasks' = T /\ sequence' = sequence
    BY DEF Front, Reorder
  <1> HIDE DEF place
  <1>3. Cardinality(ks) \in Nat /\ front \in Int /\ \A k \in Keys : tasks[k] \in Task
    BY OrderTypes, SelectionCounts DEF OrderInv, Live
  <1>4. \A k \in Keys : /\ T[k].state = tasks[k].state /\ T[k].handle = tasks[k].handle
                        /\ k \notin ks => T[k] = tasks[k]
                        /\ k \in ks => T[k].rank = first + place(k)
    BY <1>3 DEF Task
  <1> HIDE DEF T
  <1>5. Live' = Live /\ ks \subseteq Keys
    BY <1>2, <1>4 DEF Live, InState
  <1> QED
    BY <1>1, <1>2, <1>3, <1>4, <1>5 DEF Live

\* Moved to the front, files stay in range and apart.
LEMMA FrontOrders ==
  ASSUME OrderInv, NEW ks \in SUBSET Live, Front(ks)
  PROVE  RanksInRange' /\ RanksDistinct'
  <1>1. /\ Live' = Live /\ sequence' = sequence /\ front' \in Int /\ front' <= front
        /\ \A k \in Live \ ks : tasks'[k].rank = tasks[k].rank
        /\ \A k \in ks : /\ tasks'[k].rank \in Int
                         /\ front' <= tasks'[k].rank /\ tasks'[k].rank < front
        /\ \A j, k \in ks : tasks'[j].rank = tasks'[k].rank => j = k
    BY FrontRanks
  <1>2. /\ sequence \in Nat /\ front \in Int /\ front <= 0
        /\ \A k \in Live : /\ tasks[k].rank \in Int
                           /\ front <= tasks[k].rank /\ tasks[k].rank <= sequence
    BY OrderTypes DEF OrderInv, RanksInRange
  <1>3. RanksInRange'
    <2>1. \A k \in Live' : front' <= tasks'[k].rank /\ tasks'[k].rank <= sequence'
      <3> SUFFICES ASSUME NEW k \in Live
                   PROVE  front' <= tasks'[k].rank /\ tasks'[k].rank <= sequence
        BY <1>1
      <3>1. CASE k \in ks
        BY <1>1, <1>2, <3>1
      <3>2. CASE k \notin ks
        BY <1>1, <1>2, <3>2
      <3> QED
        BY <3>1, <3>2
    <2> QED
      BY <1>1, <1>2, <2>1 DEF RanksInRange
  <1>4. RanksDistinct'
    <2> SUFFICES ASSUME NEW j \in Live, NEW k \in Live, tasks'[j].rank = tasks'[k].rank
                 PROVE  j = k
      BY <1>1 DEF RanksDistinct
    <2>1. CASE j \in ks /\ k \in ks
      BY <1>1, <2>1
    <2>2. CASE j \notin ks /\ k \notin ks
      BY <1>1, <2>2 DEF OrderInv, RanksDistinct
    <2>3. CASE j \in ks /\ k \notin ks
      BY <1>1, <1>2, <2>3
    <2>4. CASE j \notin ks /\ k \in ks
      BY <1>1, <1>2, <2>4
    <2> QED
      BY <2>1, <2>2, <2>3, <2>4
  <1> QED
    BY <1>3, <1>4

\* A selection is live.
LEMMA SelectedIsLive == \A S : Selected(S) \in SUBSET Live
  BY SelectedWaits DEF Live, InState

\* A move by hand remembers every live rank, as it was.
LEMMA MoveTopRanks ==
  ASSUME OrderInv, LifeInv', NEW S, MoveTop(S)
  PROVE  OrderInv'
  <1> DEFINE handles == {tasks[k].handle : k \in Live}
             holder(h) == CHOOSE k \in Live : tasks[k].handle = h
  <1>1. undo' = [h \in handles |-> tasks[holder(h)].rank] /\ Front(Selected(S))
    BY DEF MoveTop
  <1>2. /\ Live' = Live /\ sequence' = sequence /\ front' \in Int /\ front' <= front
        /\ \A k \in Live : tasks'[k].handle = tasks[k].handle
    BY <1>1, SelectedIsLive, FrontRanks
  <1>3. RanksInRange' /\ RanksDistinct'
    BY <1>1, SelectedIsLive, FrontOrders
  <1>4. \A k \in Live : holder(tasks[k].handle) = k
    <2> SUFFICES ASSUME NEW k \in Live PROVE holder(tasks[k].handle) = k
      OBVIOUS
    <2>1. holder(tasks[k].handle) \in Live
          /\ tasks[holder(tasks[k].handle)].handle = tasks[k].handle
      OBVIOUS
    <2> HIDE DEF holder
    <2> QED
      BY <2>1, OrderTypes DEF OrderInv
  <1>5. \A h \in handles : \E k \in Live : h = tasks[k].handle
    OBVIOUS
  <1>6. \A k \in Live : tasks[k].handle \in handles
    OBVIOUS
  <1> HIDE DEF handles, holder
  <1>7. DOMAIN undo' = handles
        /\ \A k \in Live : undo'[tasks[k].handle] = tasks[k].rank
    BY <1>1, <1>4, <1>6
  <1>8. \A k \in Live : /\ tasks[k].rank \in Int /\ front \in Int
                        /\ front <= tasks[k].rank /\ tasks[k].rank <= sequence
                        /\ tasks[k].handle \in 1..sequence
    BY OrderTypes DEF OrderInv, RanksInRange
  <1>9. UndoIsApart'
    <2>1. DOMAIN undo' \subseteq 1..sequence'
      BY <1>2, <1>5, <1>7, <1>8
    <2>2. \A h \in DOMAIN undo' : front' <= undo'[h] /\ undo'[h] <= sequence'
      <3> SUFFICES ASSUME NEW h \in handles PROVE front' <= undo'[h] /\ undo'[h] <= sequence'
        BY <1>7
      <3>1. PICK k \in Live : h = tasks[k].handle
        BY <1>5
      <3> QED
        BY <1>2, <1>7, <1>8, <3>1
    <2>3. \A h, i \in DOMAIN undo' : undo'[h] = undo'[i] => h = i
      BY <1>5, <1>7 DEF OrderInv, RanksDistinct
    <2>4. \A k \in Live' : tasks'[k].handle \in DOMAIN undo'
      BY <1>2, <1>6, <1>7
    <2> QED
      BY <2>1, <2>2, <2>3, <2>4 DEF UndoIsApart
  <1> QED
    BY <1>3, <1>9 DEF OrderInv

\* A walk's promotion goes below the ranks an undo remembers too.
LEMMA HurryRanks ==
  ASSUME OrderInv, LifeInv', NEW r, NEW S, Hurry(r, S)
  PROVE  OrderInv'
  <1>1. PICK ks \in SUBSET Live : Front(ks)
    BY SelectedIsLive DEF Hurry
  <1>2. undo' = undo
    BY DEF Hurry
  <1>3. /\ Live' = Live /\ sequence' = sequence /\ front' \in Int /\ front' <= front
        /\ \A k \in Live : tasks'[k].handle = tasks[k].handle
        /\ \A k \in Live \ ks : tasks'[k].rank = tasks[k].rank
        /\ \A k \in ks : tasks'[k].rank \in Int /\ tasks'[k].rank < front
    BY <1>1, FrontRanks
  <1>4. RanksInRange' /\ RanksDistinct'
    BY <1>1, FrontOrders
  <1>5. /\ front \in Int
        /\ \A h \in DOMAIN undo : /\ undo[h] \in Int /\ h \in 1..sequence
                                  /\ front <= undo[h] /\ undo[h] <= sequence
    BY OrderTypes DEF OrderInv, UndoIsApart
  <1>6. UndoIsApart'
    <2>1. /\ DOMAIN undo' \subseteq 1..sequence'
          /\ \A h \in DOMAIN undo' : front' <= undo'[h] /\ undo'[h] <= sequence'
      BY <1>2, <1>3, <1>5
    <2>2. \A h, i \in DOMAIN undo' : undo'[h] = undo'[i] => h = i
      BY <1>2 DEF OrderInv, UndoIsApart
    <2>3. ASSUME NEW k \in Live, tasks[k].handle \notin DOMAIN undo, NEW h \in DOMAIN undo
          PROVE  undo[h] # tasks'[k].rank
      <3>1. CASE k \in ks
        BY <1>3, <1>5, <3>1
      <3>2. CASE k \notin ks
        BY <1>3, <2>3, <3>2 DEF OrderInv, UndoIsApart
      <3> QED
        BY <3>1, <3>2
    <2> QED
      BY <1>2, <1>3, <2>1, <2>2, <2>3 DEF UndoIsApart
  <1> QED
    BY <1>4, <1>6 DEF OrderInv

\* An undo gives back ranks nobody has been given since.
LEMMA RestoreRanks ==
  ASSUME OrderInv, LifeInv', Restore
  PROVE  OrderInv'
  <1> DEFINE kept == {k \in Live : tasks[k].handle \in DOMAIN undo}
             T == [k \in Keys |-> IF k \in kept
                                    THEN [tasks[k] EXCEPT !.rank = undo[tasks[k].handle]]
                                    ELSE tasks[k]]
  <1>1. tasks' = T /\ undo' = NoUndo /\ front' = front /\ sequence' = sequence
    BY DEF Restore, Reorder
  <1>2. \A k \in Keys : tasks[k] \in Task
    BY OrderTypes DEF OrderInv
  <1>3. \A k \in Live : k \in kept <=> tasks[k].handle \in DOMAIN undo
    OBVIOUS
  <1> HIDE DEF kept
  <1>4. \A k \in Keys : /\ T[k].state = tasks[k].state
                        /\ T[k].rank = IF k \in kept THEN undo[tasks[k].handle]
                                                     ELSE tasks[k].rank
    BY <1>2 DEF Task
  <1> HIDE DEF T
  <1>5. Live' = Live /\ Live \subseteq Keys
    BY <1>1, <1>4 DEF Live, InState
  <1>6. RanksInRange'
    BY <1>1, <1>3, <1>4, <1>5 DEF OrderInv, RanksInRange, UndoIsApart
  <1>7. UndoIsApart'
    BY <1>1 DEF UndoIsApart, NoUndo
  <1>8. RanksDistinct'
    <2> SUFFICES ASSUME NEW j \in Live, NEW k \in Live, T[j].rank = T[k].rank
                 PROVE  j = k
      BY <1>1, <1>5 DEF RanksDistinct
    <2>1. CASE j \in kept /\ k \in kept
      BY <1>3, <1>4, <1>5, <2>1, OrderTypes DEF OrderInv, UndoIsApart
    <2>2. CASE j \notin kept /\ k \notin kept
      BY <1>4, <1>5, <2>2 DEF OrderInv, RanksDistinct
    <2>3. CASE j \in kept /\ k \notin kept
      BY <1>3, <1>4, <1>5, <2>3 DEF OrderInv, UndoIsApart
    <2>4. CASE j \notin kept /\ k \in kept
      BY <1>3, <1>4, <1>5, <2>4 DEF OrderInv, UndoIsApart
    <2> QED
      BY <2>1, <2>2, <2>3, <2>4
  <1> QED
    BY <1>6, <1>7, <1>8 DEF OrderInv

\* Every other step leaves the ranks of what stays live alone.
LEMMA OtherRanks ==
  ASSUME OrderInv, LifeInv', NEW k \in Keys, NEW h, NEW failed, NEW ks,
         \/ Producing \/ Pausing \/ Holding \/ Ending \/ Abandoning \/ ClaimNothing
         \/ UNCHANGED vars \/ CompleteFile(k, h) \/ Claim(k) \/ Finish(k, failed)
         \/ \E t \in tails : Callbacks(t) \/ Settle(t)
  PROVE  OrderInv'
  <1>1. TypeOK /\ \A j \in Keys : tasks[j] \in Task
    BY OrderTypes DEF OrderInv
  <1>2. UNCHANGED <<sequence, front, undo>>
    BY DEF Producing, OpenRun, Seal, CloseRun, CloseGroup, DrainGroup, Pausing, Reserve, Commit,
           Release, Holding, SetPaused, EnterHold, Ending, Close, StopAll, Halt, Abandoning,
           Stop, Skip, SkipFile, MarkSkipped, ClaimNothing, CompleteFile, Claim, Finish,
           Callbacks, Settle, vars, ranks
  <1>3. \/ tasks' = tasks \/ \E js : MarkSkipped(js)
        \/ CompleteFile(k, h) \/ Claim(k) \/ Finish(k, failed)
    BY DEF Producing, OpenRun, Seal, CloseRun, CloseGroup, DrainGroup, Pausing, Reserve, Commit,
           Release, Holding, SetPaused, EnterHold, Ending, Close, StopAll, Halt, Abandoning,
           Stop, Skip, SkipFile, ClaimNothing, Callbacks, Settle, vars
  <1>4. ASSUME NEW j \in Keys, tasks'[j].state # "absent"
        PROVE  /\ tasks[j].state # "absent" /\ tasks'[j].rank = tasks[j].rank
               /\ tasks'[j].handle = tasks[j].handle
    <2>1. CASE tasks' = tasks
      BY <1>4, <2>1
    <2>2. ASSUME NEW js, MarkSkipped(js)
          PROVE  /\ tasks[j].state # "absent" /\ tasks'[j].rank = tasks[j].rank
                 /\ tasks'[j].handle = tasks[j].handle
      <3>1. tasks'[j] = IF j \in js THEN [tasks[j] EXCEPT !.skipped = TRUE] ELSE tasks[j]
        BY <2>2 DEF MarkSkipped
      <3> QED
        BY <1>1, <1>4, <3>1 DEF Task
    <2>3. CASE tasks' = [tasks EXCEPT ![k] = NoTask]
      BY <1>1, <1>4, <2>3 DEF TypeOK, NoTask
    <2>4. ASSUME NEW state, tasks' = [tasks EXCEPT ![k].state = state],
                 tasks[k].state # "absent"
          PROVE  /\ tasks[j].state # "absent" /\ tasks'[j].rank = tasks[j].rank
                 /\ tasks'[j].handle = tasks[j].handle
      BY <1>1, <1>4, <2>4 DEF TypeOK, Task
    <2>5. \/ tasks' = tasks \/ \E js : MarkSkipped(js)
          \/ tasks' = [tasks EXCEPT ![k] = NoTask]
          \/ \E state : tasks' = [tasks EXCEPT ![k].state = state] /\ tasks[k].state # "absent"
      <3>1. CompleteFile(k, h) => tasks' = [tasks EXCEPT ![k] = NoTask]
        BY DEF CompleteFile, Terminal
      <3>2. Claim(k) => tasks' = [tasks EXCEPT ![k].state = "active"]
                        /\ tasks[k].state # "absent"
        BY IndexedIsLive DEF Claim, Heads, OrderInv, LifeInv, AgreeInv, InState
      <3>3. Finish(k, failed) => \/ tasks' = [tasks EXCEPT ![k] = NoTask]
                                 \/ /\ tasks' = [tasks EXCEPT ![k].state = "awaiting"]
                                    /\ tasks[k].state # "absent"
        BY DEF Finish, Terminal
      <3> QED
        BY <1>3, <3>1, <3>2, <3>3
    <2> QED
      BY <2>1, <2>2, <2>3, <2>4, <2>5
  <1>5. Live' \subseteq Live /\ Live' \subseteq Keys
        /\ \A j \in Live' : tasks'[j].rank = tasks[j].rank /\ tasks'[j].handle = tasks[j].handle
    BY <1>4 DEF Live, InState
  <1> QED
    BY <1>2, <1>5, RanksStand

\* Initially there are no ranks.
LEMMA InitOrders == Init => OrderInv
  <1> SUFFICES ASSUME Init PROVE OrderInv
    OBVIOUS
  <1>1. LifeInv
    BY InitLives
  <1>2. Live = {} /\ front = 0 /\ sequence = 0 /\ DOMAIN undo = {}
    BY DEF Init, Live, InState, NoTask, NoUndo
  <1> QED
    BY <1>1, <1>2 DEF OrderInv, RanksInRange, UndoIsApart, RanksDistinct

\* Every step keeps the order's invariant.
LEMMA OrderKept == OrderInv /\ [Next]_vars => OrderInv'
  <1> SUFFICES ASSUME OrderInv, [Next]_vars PROVE OrderInv'
    OBVIOUS
  <1>1. LifeInv'
    BY LifeKept DEF OrderInv
  <1>2. CASE Reordering
    BY <1>1, <1>2, MoveTopRanks, HurryRanks, RestoreRanks DEF Reordering
  <1>3. CASE Admitting
    BY <1>1, <1>3, SubmitRanks, ContinueRanks, OtherRanks DEF Admitting, Decide
  <1>4. CASE \E k \in Keys : Claim(k) \/ \E failed \in BOOLEAN : Finish(k, failed)
    BY <1>1, <1>4, OtherRanks
  <1>5. CASE \/ Producing \/ Pausing \/ Holding \/ Ending \/ Abandoning \/ ClaimNothing
             \/ UNCHANGED vars
             \/ \E t \in tails : Callbacks(t) \/ Settle(t)
    <2>1. CASE Keys = {}
      <3>1. Live' = {}
        BY <2>1 DEF Live
      <3>2. UNCHANGED <<sequence, front, undo>>
        BY <1>5 DEF Producing, OpenRun, Seal, CloseRun, CloseGroup, DrainGroup, Pausing, Reserve,
                    Commit, Release, Holding, SetPaused, EnterHold, Ending, Close, StopAll,
                    Halt, Abandoning, Stop, Skip, SkipFile, MarkSkipped, ClaimNothing,
                    Callbacks, Settle, vars, ranks
      <3> QED
        BY <1>1, <3>1, <3>2, RanksStand
    <2>2. CASE Keys # {}
      BY <1>1, <1>5, <2>2, OtherRanks
    <2> QED
      BY <2>1, <2>2
  <1> QED
    BY <1>2, <1>3, <1>4, <1>5 DEF Next, Working, Dispatch, TailStep

\* The inductive invariant of the order holds in every reachable state.
THEOREM OrderHolds == Spec => []OrderInv
  <1>1. Init => OrderInv
    BY InitOrders
  <1>2. OrderInv /\ [Next]_vars => OrderInv'
    BY OrderKept
  <1> QED
    BY <1>1, <1>2, PTL DEF Spec

\* No two files ever share a rank, through any moves, promotions and undos: the
\* order _order computes never falls back to comparing names.
THEOREM RanksStayDistinct == Spec => []RanksDistinct
  <1>1. OrderInv => RanksDistinct
    BY DEF OrderInv
  <1> QED
    BY <1>1, OrderHolds, PTL

-----------------------------------------------------------------------------
(***************************************************************************)
(* The queue implements FileQueue: whatever heaps, parking and counters do,  *)
(* a claim takes the first file in queue order that may start.              *)
(***************************************************************************)

\* Some file of any set of live ones has none of the set before it.
LEMMA FirstOf ==
  ASSUME OrderInv, NEW T \in SUBSET Live, T # {}
  PROVE  \E k \in T : \A j \in T : ~Before(tasks[j], tasks[k])
  <1> DEFINE urgent == {k \in T : tasks[k].priority}
             U == IF urgent = {} THEN T ELSE urgent
             place(k) == tasks[k].rank - front
             places == {place(k) : k \in U}
  <1>1. /\ front \in Int
        /\ \A k \in T : /\ tasks[k].rank \in Int /\ front <= tasks[k].rank
                        /\ tasks[k].priority \in BOOLEAN
    BY OrderTypes DEF OrderInv, RanksInRange
  <1>2. U # {} /\ U \subseteq T
    OBVIOUS
  <1>3. \A j \in T, k \in U : j \notin U => ~Before(tasks[j], tasks[k])
    BY <1>1, <1>2 DEF Before
  <1>4. \A j, k \in U : tasks[j].priority = tasks[k].priority
    BY <1>1
  <1> HIDE DEF U
  <1>5. places \subseteq Nat /\ places # {}
    BY <1>1, <1>2
  <1> DEFINE less == {pair \in Nat \X Nat : pair[1] < pair[2]}
  <1>6. IsWellFoundedOn(less, Nat)
    BY NatLessThanWellFounded, Zenon DEF OpToRel
  <1> HIDE DEF places
  <1>7. PICK x \in places : \A y \in places : ~(y < x)
    <2>1. PICK x \in places : \A y \in places : <<y, x>> \notin less
      BY <1>5, <1>6, WFMin, Zenon
    <2> QED
      BY <1>5, <2>1
  <1>8. PICK k \in U : x = place(k)
    BY DEF places
  <1>9. \A j \in U : ~(tasks[j].rank < tasks[k].rank)
    <2> SUFFICES ASSUME NEW j \in U PROVE ~(tasks[j].rank < tasks[k].rank)
      OBVIOUS
    <2>1. place(j) \in places
      BY DEF places
    <2>2. ~(place(j) < place(k))
      BY <1>7, <1>8, <2>1
    <2> QED
      BY <1>1, <1>2, <2>2
  <1> QED
    BY <1>2, <1>3, <1>4, <1>9 DEF Before

\* The abstract queue's condition to start a file is what _claim looks for: a
\* live heap entry that its lane and a pause let it look at, and nothing blocks.
\* The abstract queue counts as the queue does.
LEMMA SameCount == \A S : Queue!Cardinality(S) = Cardinality(S)
  BY DEF Queue!Cardinality, Cardinality

LEMMA StartsWhatIsClaimable ==
  ASSUME OrderInv, NEW k \in Keys
  PROVE  Queue!MayStart(k) <=> k \in indexed /\ Looked(k) /\ ~Blocked(k)
  <1>1. /\ TypeOK /\ OneWorkerPerFile /\ EveryWaiterIsReachable
        /\ IndexIsFresh /\ CountersAgree
    BY DEF OrderInv, LifeInv, AgreeInv, DispatchInv, IndexesAgree
  <1>2. Queue!Running = InState("active")
    BY DEF Queue!Running, InState
  <1>3. (\A j \in Queue!Running : j[2] # k[2]) <=> Path(k) \notin activePaths
    BY <1>1, <1>2 DEF OneWorkerPerFile, Path
  <1>4. Cardinality({j \in Queue!Running : tasks[j].lane = tasks[k].lane})
          = occupied[tasks[k].lane]
    BY <1>1, <1>2 DEF CountersAgree, TypeOK, Task
  <1>5. {j \in Queue!Running : [i \in Keys |-> tasks[i].lane][j] = [i \in Keys |-> tasks[i].lane][k]}
          = {j \in Queue!Running : tasks[j].lane = tasks[k].lane}
    BY <1>2 DEF InState
  <1>6. Queue!MayStart(k) <=>
          /\ k \in InState("pending")
          /\ ~Blocked(k)
          /\ occupied[tasks[k].lane] < Limit[tasks[k].lane]
          /\ paused => Abandoned(tasks[k], Run(k), stopping)
    BY <1>3, <1>4, <1>5, SameCount DEF Queue!MayStart, Blocked, InState
  <1>7. k \in indexed => (entries[k].abandoned <=> Abandoned(tasks[k], Run(k), stopping))
    <2>1. k \in indexed => entries[k] = EntryOf(k, tasks, stopping)
      BY <1>1 DEF IndexIsFresh
    <2>2. EntryOf(k, tasks, stopping).abandoned <=> Abandoned(tasks[k], Run(k), stopping)
      BY Zenon DEF EntryOf
    <2> QED
      BY <2>1, <2>2
  <1>8. k \in InState("pending") /\ ~Blocked(k) <=> k \in indexed /\ ~Blocked(k)
    BY <1>1 DEF EveryWaiterIsReachable
  <1> QED
    BY <1>6, <1>7, <1>8 DEF Looked

\* A claimable file is never overtaken by a file behind it: its heap has a head
\* no later than it, and the claim takes the first of the heads.
LEMMA ClaimIsFirst ==
  ASSUME OrderInv, NEW k \in Keys, Claim(k), NEW j \in indexed, Looked(j), ~Blocked(j)
  PROVE  ~Before(tasks[j], tasks[k])
  <1>1. IndexIsFresh /\ indexed \subseteq Live /\ Live \subseteq Keys
    BY IndexedIsLive DEF OrderInv, LifeInv, AgreeInv, IndexesAgree, Live
  <1>2. \A i \in indexed : /\ entries[i].priority = tasks[i].priority
                           /\ entries[i].rank = tasks[i].rank
    <2> SUFFICES ASSUME NEW i \in indexed
                 PROVE  /\ entries[i].priority = tasks[i].priority
                        /\ entries[i].rank = tasks[i].rank
      OBVIOUS
    <2>1. entries[i] = EntryOf(i, tasks, stopping)
      BY <1>1 DEF IndexIsFresh
    <2> QED
      BY <2>1 DEF EntryOf
  <1>3. \A h, i \in indexed : Before(entries[h], entries[i]) <=> Before(tasks[h], tasks[i])
    BY <1>2 DEF Before
  <1>4. \A i \in indexed : tasks[i].rank \in Int /\ tasks[i].priority \in BOOLEAN
    BY <1>1, OrderTypes DEF OrderInv
  <1> DEFINE heap == {i \in indexed : SameHeap(i, j) /\ ~Blocked(i)}
  <1>5. heap \in SUBSET Live /\ j \in heap
    BY <1>1 DEF SameHeap
  <1>6. PICK m \in heap : \A i \in heap : ~Before(tasks[i], tasks[m])
    BY <1>5, FirstOf
  <1>7. m \in indexed /\ SameHeap(m, j) /\ ~Blocked(m) /\ Looked(m)
    BY <1>6 DEF SameHeap, Looked
  <1>8. m \in Heads
    <2> SUFFICES ASSUME NEW i \in indexed, SameHeap(i, m), Before(entries[i], entries[m])
                 PROVE  Blocked(i)
      BY <1>7 DEF Heads
    <2>1. SameHeap(i, j) /\ Before(tasks[i], tasks[m])
      BY <1>3, <1>7 DEF SameHeap
    <2> QED
      BY <1>6, <2>1
  <1>9. k \in indexed /\ ~Before(tasks[m], tasks[k])
    BY <1>3, <1>7, <1>8 DEF Claim, Heads
  <1>10. j = m \/ Before(tasks[m], tasks[j])
    BY <1>1, <1>4, <1>5, <1>6, <1>7, BeforeOrders DEF OrderInv, RanksDistinct
  <1> QED
    BY <1>4, <1>7, <1>9, <1>10, BeforeOrders

\* A claim is a start of the abstract queue.
LEMMA ClaimStarts == \A k \in Keys : OrderInv /\ Claim(k) => Queue!Start(k)
  <1> SUFFICES ASSUME NEW k \in Keys, OrderInv, Claim(k) PROVE Queue!Start(k)
    OBVIOUS
  <1>1. tasks \in [Keys -> Task] /\ indexed \subseteq Keys
    BY DEF OrderInv, LifeInv, AgreeInv, DispatchInv, TypeOK
  <1>2. k \in indexed /\ Looked(k) /\ ~Blocked(k)
    BY DEF Claim, Heads
  <1>3. Queue!MayStart(k)
    BY <1>2, StartsWhatIsClaimable
  <1>4. \A j \in Keys : Queue!MayStart(j) => ~Before(tasks[j], tasks[k])
    BY StartsWhatIsClaimable, ClaimIsFirst
  <1>5. tasks' = [tasks EXCEPT ![k].state = "active"]
        /\ UNCHANGED <<stopping, reserved, paused>>
    BY DEF Claim, service, controls, pauses
  <1>6. /\ tasks'[k].state = "active"
        /\ \A j \in Keys \ {k} : tasks'[j].state = tasks[j].state
        /\ \A j \in Keys : /\ tasks'[j].lane = tasks[j].lane
                            /\ tasks'[j].priority = tasks[j].priority
                            /\ tasks'[j].rank = tasks[j].rank
                            /\ tasks'[j].skipped = tasks[j].skipped
    BY <1>1, <1>5 DEF Task
  <1>7. [j \in Keys |-> tasks'[j].state] = [[j \in Keys |-> tasks[j].state] EXCEPT ![k] = "active"]
    BY <1>6
  <1>8. /\ [j \in Keys |-> tasks'[j].lane] = [j \in Keys |-> tasks[j].lane]
        /\ [j \in Keys |-> [priority |-> tasks'[j].priority, rank |-> tasks'[j].rank]]
             = [j \in Keys |-> [priority |-> tasks[j].priority, rank |-> tasks[j].rank]]
    BY <1>6
  <1>9. {j \in Keys : Abandoned(tasks'[j], Run(j), stopping')}
          = {j \in Keys : Abandoned(tasks[j], Run(j), stopping)}
    BY <1>5, <1>6 DEF Abandoned
  <1>10. \A j \in Keys : Queue!MayStart(j)
            => ~Queue!Ahead([priority |-> tasks[j].priority, rank |-> tasks[j].rank],
                            [priority |-> tasks[k].priority, rank |-> tasks[k].rank])
    BY <1>4 DEF Queue!Ahead, Before
  <1> QED
    BY <1>3, <1>5, <1>7, <1>8, <1>9, <1>10 DEF Queue!Start

\* A step that moves one file from a stage to another, seen from outside.
LEMMA PhaseMoves ==
  ASSUME TypeOK, NEW k \in Keys, NEW to, tasks'[k].state = to,
         \A j \in Keys \ {k} : tasks'[j].state = tasks[j].state
  PROVE  [j \in Keys |-> tasks'[j].state] = [[j \in Keys |-> tasks[j].state] EXCEPT ![k] = to]
  OBVIOUS

\* An admission and a decision for the rewrite make a file wait.
LEMMA AdmissionWaits ==
  ASSUME OrderInv, NEW k \in Keys,
         \/ \E urgent \in BOOLEAN : Submit(k, urgent)
         \/ \E h : ContinueFile(k, h)
  PROVE  Queue!Wait(k)
  <1>1. TypeOK /\ tasks \in [Keys -> Task]
    BY DEF OrderInv, LifeInv, AgreeInv, DispatchInv, TypeOK
  <1>2. /\ tasks[k].state \in {"absent", "awaiting"}
        /\ UNCHANGED <<reserved, paused>>
        /\ tasks'[k].state = "pending"
        /\ \A j \in Keys \ {k} : tasks'[j].state = tasks[j].state
    <2>1. ASSUME NEW urgent \in BOOLEAN, Submit(k, urgent)
          PROVE  /\ tasks[k].state \in {"absent", "awaiting"}
                 /\ UNCHANGED <<reserved, paused>>
                 /\ tasks'[k].state = "pending"
                 /\ \A j \in Keys \ {k} : tasks'[j].state = tasks[j].state
      BY <1>1, <2>1 DEF Submit, Admits, pauses, service
    <2>2. ASSUME NEW h, ContinueFile(k, h)
          PROVE  /\ tasks[k].state \in {"absent", "awaiting"}
                 /\ UNCHANGED <<reserved, paused>>
                 /\ tasks'[k].state = "pending"
                 /\ \A j \in Keys \ {k} : tasks'[j].state = tasks[j].state
      <3>1. PICK rank : tasks' = [tasks EXCEPT ![k] =
                [tasks[k] EXCEPT !.state = "pending", !.lane = "work", !.priority = FALSE,
                                 !.rank = rank]]
        BY <2>2 DEF ContinueFile
      <3> QED
        BY <1>1, <2>2, <3>1 DEF ContinueFile, Decides, pauses, service, Task
    <2> QED
      BY <2>1, <2>2
  <1> QED
    BY <1>1, <1>2, PhaseMoves DEF Queue!Wait

\* A decision that nothing needs doing makes a file leave.
LEMMA CompletionLeaves ==
  ASSUME OrderInv, NEW k \in Keys, NEW h, CompleteFile(k, h)
  PROVE  Queue!Leave(k)
  <1>1. TypeOK /\ tasks \in [Keys -> Task]
    BY DEF OrderInv, LifeInv, AgreeInv, DispatchInv, TypeOK
  <1>2. /\ tasks[k].state = "awaiting" /\ UNCHANGED <<reserved, paused>>
        /\ tasks'[k].state = "absent"
        /\ \A j \in Keys \ {k} : tasks'[j].state = tasks[j].state
    BY <1>1 DEF CompleteFile, Decides, Terminal, NoTask, pauses, service
  <1> QED
    BY <1>1, <1>2, PhaseMoves DEF Queue!Leave

\* A phase's return lets its file go.
LEMMA ReturnLetsGo ==
  ASSUME OrderInv, NEW k \in Keys, NEW failed, Finish(k, failed)
  PROVE  Queue!LetGo(k)
  <1>1. TypeOK /\ tasks \in [Keys -> Task]
    BY DEF OrderInv, LifeInv, AgreeInv, DispatchInv, TypeOK
  <1>2. tasks[k].state = "active" /\ UNCHANGED <<reserved, paused>>
    BY DEF Finish, pauses, service
  <1>3. \/ tasks' = [tasks EXCEPT ![k] = NoTask]
        \/ tasks' = [tasks EXCEPT ![k].state = "awaiting"]
    BY DEF Finish, Terminal
  <1>4. /\ tasks'[k].state \in {"awaiting", "absent"}
        /\ \A j \in Keys \ {k} : tasks'[j].state = tasks[j].state
    BY <1>1, <1>3 DEF NoTask, Task
  <1> QED
    BY <1>1, <1>2, <1>4, PhaseMoves DEF Queue!LetGo

\* Every other step only commands: what runs and what waits stays.
LEMMA OthersCommand ==
  ASSUME OrderInv, OrderInv',
         \/ Producing \/ Abandoning \/ Pausing \/ Reordering \/ Holding \/ Ending
         \/ ClaimNothing \/ UNCHANGED vars
         \/ \E t \in tails : Callbacks(t) \/ Settle(t)
  PROVE  Queue!Command
  <1>1. \A k \in Keys : tasks'[k].state = tasks[k].state /\ tasks'[k].lane = tasks[k].lane
    BY CommandMoves DEF OrderInv, LifeInv, AgreeInv, DispatchInv
  <1>2. /\ [k \in Keys |-> tasks'[k].state] = [k \in Keys |-> tasks[k].state]
        /\ [k \in Keys |-> tasks'[k].lane] = [k \in Keys |-> tasks[k].lane]
    BY <1>1
  <1>3. \A k \in reserved' : k \in Keys /\ tasks'[k].state = "pending"
    BY DEF OrderInv, LifeInv, AgreeInv, DispatchInv, ReservedFilesWait, InState
  <1>4. \A k \in reserved' : [j \in Keys |-> tasks[j].state][k] = "pending"
    BY <1>1, <1>3
  <1> QED
    BY <1>2, <1>4 DEF Queue!Command

\* Initially nothing waits, in either queue.
LEMMA InitQueue == Init => Queue!Init
  BY DEF Init, Queue!Init, NoTask

\* Every step of the queue is a step of the abstract one.
LEMMA StepRefines == OrderInv /\ OrderInv' /\ [Next]_vars => Queue!Next
  <1> SUFFICES ASSUME OrderInv, OrderInv', [Next]_vars PROVE Queue!Next
    OBVIOUS
  <1>1. CASE Admitting
    <2>1. ASSUME NEW k \in Keys, Decide(k) PROVE Queue!Wait(k) \/ Queue!Leave(k)
      BY <2>1, AdmissionWaits, CompletionLeaves DEF Decide
    <2> QED
      BY <1>1, <2>1, AdmissionWaits DEF Admitting, Queue!Next
  <1>2. CASE Working
    <2>1. CASE \E k \in Keys : Claim(k)
      BY <2>1, ClaimStarts DEF Queue!Next
    <2>2. CASE \E k \in Keys, failed \in BOOLEAN : Finish(k, failed)
      BY <2>2, ReturnLetsGo DEF Queue!Next
    <2>3. CASE ClaimNothing \/ \E k \in Keys : TailStep(k)
      BY <2>3, OthersCommand DEF TailStep, Queue!Next
    <2> QED
      BY <1>2, <2>1, <2>2, <2>3 DEF Working, Dispatch
  <1>3. CASE ~Admitting /\ ~Working
    <2>1. \/ Producing \/ Abandoning \/ Pausing \/ Reordering \/ Holding \/ Ending
          \/ UNCHANGED vars
      BY <1>3 DEF Next
    <2> QED
      BY <2>1, OthersCommand DEF Queue!Next
  <1> QED
    BY <1>1, <1>2, <1>3

\* Heaps, parking, counters, priorities and pauses together choose exactly the
\* file that FileQueue's one-line Start chooses, and nothing but a claim starts
\* one: what _claim promises whoever put a file first.
THEOREM ClaimsFollowTheOrder == Spec => ClaimsFirstInOrder
  <1>1. Init => Queue!Init
    BY InitQueue
  <1>2. OrderInv /\ OrderInv' /\ [Next]_vars => [Queue!Next]_(Queue!vars)
    BY StepRefines
  <1> QED
    BY <1>1, <1>2, OrderHolds, PTL DEF Spec, ClaimsFirstInOrder, Queue!Spec
=============================================================================
