------------------------------ MODULE Scheduler ------------------------------
(***************************************************************************)
(* The shared work queue of src/trackstarr/work.py, with the run controls   *)
(* and the run accounting that lifecycle.py and runs.py keep under the      *)
(* scheduler's lock.                                                        *)
(*                                                                         *)
(* One condition variable guards everything here, so one action is one      *)
(* critical section.  What a thread does outside the lock is a "tail": a    *)
(* phase that has left its lane but whose callbacks have not all run.       *)
(* A key <<run, path>> names a file of a run; a handle is one admission of  *)
(* a key, numbered by the admission counter.                                *)
(***************************************************************************)
EXTENDS Integers, FiniteSets

CONSTANTS
  Runs,         \* run identifiers
  Imports,      \* the runs opened by a delivery; the others are sweeps
  Paths,        \* library files
  Keys,         \* the <<run, path>> pairs that may be admitted
  Commands,     \* threads that may be inside pause_selection
  Limit,        \* workers per lane: PROBE_WORKERS, MAX_CONCURRENT_REWRITES
  MaxSequence,  \* bound on admissions
  MaxFront      \* bound on moves to the front, counted in files

Lanes == {"probe", "work"}

ASSUME SchedulerAssumption ==
  /\ Imports \subseteq Runs
  /\ Keys \subseteq Runs \X Paths /\ IsFiniteSet(Keys)
  /\ Limit \in [Lanes -> Nat \ {0}]
  /\ MaxSequence \in Nat
  /\ MaxFront \in Nat

VARIABLES
  tasks,        \* key -> its task; a key that has none holds NoTask
  indexed,      \* keys with a live entry in one of the candidate heaps
  entries,      \* key -> what its live heap entry was pushed with
  parked,       \* keys set aside until their path or reservation is released
  reserved,     \* keys held by a pause command that is writing
  occupied,     \* lane -> workers in it
  activePaths,  \* paths a worker holds
  tails,        \* phases past their lane whose callbacks are still running
  holding,      \* a sweep's phases waiting out a pause in lifecycle.hold
  settling,     \* the counter of phases past admission and not yet settled
  sequence,     \* last admission number, which is also the last back rank
  front,        \* last front rank handed out; never positive
  undo,         \* handle -> rank before the last move; empty if none
  paused,       \* the service pause
  closed,       \* admission is closed
  halted,       \* dispatch has stopped
  open,         \* runs with a control
  closing,      \* runs whose admission is closed
  stopping,     \* runs asked to stop
  live,         \* run -> its control's count of live admissions
  skipIndex,    \* the controls' report of skipped files
  filling,      \* imports still being handed files
  owed,         \* import -> its registry record's total minus done
  group,        \* sweep -> where its walk's task group stands
  command,      \* pause command -> where it stands
  selection,    \* pause command -> the keys it reserved
  delivered,    \* handles whose discovery result was published
  concluded     \* handles whose terminal callback has run

index == <<indexed, entries, parked>>
workers == <<occupied, activePaths, holding, tails, settling>>
ranks == <<sequence, front, undo>>
service == <<paused, closed, halted>>
controls == <<open, closing, stopping, live, skipIndex>>
registry == <<filling, owed>>
pauses == <<reserved, command, selection>>
answers == <<delivered, concluded>>
vars == <<tasks, index, workers, ranks, service, controls, registry, group,
          pauses, answers>>

Run(k) == k[1]
Path(k) == k[2]

Stages == {"absent", "pending", "active", "awaiting"}

Task == [state : Stages, lane : Lanes, rank : Int, priority : BOOLEAN,
         skipped : BOOLEAN, handle : Nat]
Entry == [priority : BOOLEAN, rank : Int, abandoned : BOOLEAN]
Tail == [key : Keys, handle : Nat, lane : Lanes \cup {"decision"},
         final : BOOLEAN, stage : {"callbacks", "settle"}]

NoTask == [state |-> "absent", lane |-> "probe", rank |-> 0,
           priority |-> FALSE, skipped |-> FALSE, handle |-> 0]
NoEntry == [priority |-> FALSE, rank |-> 0, abandoned |-> FALSE]
NoUndo == [h \in {} |-> 0]

InState(s) == {k \in Keys : tasks[k].state = s}
Live == Keys \ InState("absent")

-----------------------------------------------------------------------------
(***************************************************************************)
(* Queue order and the candidate heaps.  A heap holds stale entries that a  *)
(* version number tells from the live one; only live entries are modelled.  *)
(***************************************************************************)

\* Mutant: the priority flag is ignored.
BeforeByRank(t, u) == t.rank < u.rank

\* _order: priority first, then rank.  The key that ends the tuple never
\* decides, since no two waiting files share a rank (RanksDistinct).
Before(t, u) == \/ t.priority /\ ~u.priority
                \/ t.priority = u.priority /\ t.rank < u.rank

\* _abandoned: taken off its run by hand, or its run is stopping.
Abandoned(t, r, stops) == t.skipped \/ r \in stops

EntryOf(k, T, stops) == [priority |-> T[k].priority, rank |-> T[k].rank,
                         abandoned |-> Abandoned(T[k], Run(k), stops)]

\* _index
Index(ks, T, stops) ==
  /\ indexed' = indexed \cup ks
  /\ entries' = [k \in Keys |-> IF k \in ks THEN EntryOf(k, T, stops)
                                             ELSE entries[k]]

\* Mutant: a skip or a stop leaves the file in the heap it was pushed to.
RefreshNothing(ks, T, stops) == UNCHANGED index

\* _refresh: only keys that still have an entry; parked ones get theirs on waking.
Refresh(ks, T, stops) == Index(ks \cap indexed, T, stops) /\ UNCHANGED parked

\* Mutant: what was parked under a released path stays parked.
WakeNothing(ps) == UNCHANGED index

\* _wake_path, for every path of a set
Wake(ps) == LET woken == {k \in parked : Path(k) \in ps}
            IN  parked' = parked \ woken /\ Index(woken, tasks, stopping)

-----------------------------------------------------------------------------
(***************************************************************************)
(* Retirement: scheduler.retire_run with runs.retire.  A sweep goes once it *)
(* is closed, an import once it is sealed and every file is booked.         *)
(***************************************************************************)
\* Mutant: an import goes with its last task, before that task is booked.
RetiresUnbooked(r, closes, fills, n, owes) ==
  r \in open /\ n = 0 /\ (r \in closes \/ (r \in Imports /\ r \notin fills))

Retires(r, closes, fills, n, owes) ==
  /\ r \in open
  /\ n = 0
  /\ r \in closes \/ (r \in Imports /\ r \notin fills /\ owes = 0)

\* Mutant: a retired run's stop outlives its control.
RetireKeepsStop(r, closes, fills, n, owes) ==
  LET gone == IF Retires(r, closes, fills, n, owes) THEN {r} ELSE {}
  IN  open' = open \ gone /\ closing' = closes \ gone /\ stopping' = stopping

Retire(r, closes, fills, n, owes) ==
  LET gone == IF Retires(r, closes, fills, n, owes) THEN {r} ELSE {}
  IN  open' = open \ gone /\ closing' = closes \ gone /\ stopping' = stopping \ gone

\* Mutant: the run's report keeps the skip of a file that left.
TerminalKeepsSkip(k) ==
  LET r == Run(k)
  IN  /\ tasks' = [tasks EXCEPT ![k] = NoTask]
      /\ live' = [live EXCEPT ![r] = @ - 1]
      /\ UNCHANGED skipIndex
      /\ Retire(r, closing, filling, live[r] - 1, owed[r])

\* _terminal, inside a larger critical section
Terminal(k) ==
  LET r == Run(k)
  IN  /\ tasks' = [tasks EXCEPT ![k] = NoTask]
      /\ live' = [live EXCEPT ![r] = @ - 1]
      /\ skipIndex' = skipIndex \ {k}
      /\ Retire(r, closing, filling, live[r] - 1, owed[r])

-----------------------------------------------------------------------------
(***************************************************************************)
(* Runs and admission.                                                     *)
(***************************************************************************)

\* lifecycle.open_run.  A sweep's id is fresh, and its walk builds its task
\* group before it submits anything; an import's run may be open already.
OpenRun(r, fills) ==
  /\ ~closed
  /\ r \notin closing
  /\ r \in Imports \/ (group[r] = "none" /\ ~fills)
  /\ open' = open \cup {r}
  /\ filling' = IF fills THEN filling \cup {r} ELSE filling
  /\ group' = [group EXCEPT ![r] = IF r \in Imports THEN @ ELSE "open"]
  /\ UNCHANGED <<tasks, index, workers, ranks, service, closing, stopping, live,
                 skipIndex, owed, pauses, answers>>

\* lifecycle.seal
Seal(r) ==
  /\ r \in open \cap Imports
  /\ filling' = filling \ {r}
  /\ Retire(r, closing, filling \ {r}, live[r], owed[r])
  /\ UNCHANGED <<tasks, index, workers, ranks, service, live, skipIndex, owed,
                 group, pauses, answers>>

\* lifecycle.close_run: only a sweep's run is ever closed.
CloseRun(r) ==
  /\ r \in open \ (Imports \cup closing)
  /\ Retire(r, closing \cup {r}, filling, live[r], owed[r])
  /\ UNCHANGED <<tasks, index, workers, ranks, service, live, skipIndex,
                 registry, group, pauses, answers>>

\* Mutants: admission outlives the close of the scheduler, or of the group.
AdmitsAfterClose(k) ==
  /\ Run(k) \in open \ closing
  /\ tasks[k].state = "absent"
  /\ Run(k) \in Imports \/ group[Run(k)] = "open"
AdmitsAfterDrain(k) ==
  /\ ~closed
  /\ Run(k) \in open \ closing
  /\ tasks[k].state = "absent"

\* What submit and Group.register refuse.
Admits(k) ==
  /\ ~closed
  /\ Run(k) \in open \ closing
  /\ tasks[k].state = "absent"
  /\ Run(k) \in Imports \/ group[Run(k)] = "open"

\* submit: discovery's probe of a file.  An import is always urgent, a sweep's
\* files are where the walk is forced.
Submit(k, urgent) ==
  /\ Admits(k)
  /\ Run(k) \in Imports => urgent
  /\ sequence < MaxSequence
  /\ sequence' = sequence + 1
  /\ tasks' = [tasks EXCEPT ![k] =
        [state |-> "pending", lane |-> "probe", rank |-> sequence + 1,
         priority |-> urgent, skipped |-> FALSE, handle |-> sequence + 1]]
  /\ live' = [live EXCEPT ![Run(k)] = @ + 1]
  /\ owed' = [owed EXCEPT ![Run(k)] = IF Run(k) \in Imports THEN @ + 1 ELSE @]
  /\ Index({k}, tasks', stopping)
  /\ UNCHANGED <<parked, workers, front, undo, service, open, closing, stopping,
                 skipIndex, filling, group, pauses, answers>>

\* Mutant: a handle answers for any later admission of its key.
DecidesByKey(k, h) == tasks[k].state = "awaiting" /\ tasks[k].handle >= h

\* What continue_file and complete_file ask of a handle before they act.
Decides(k, h) == tasks[k].state = "awaiting" /\ tasks[k].handle = h

\* A handle whose holder has been told how its phase ended.
Answered(h) == h \in delivered \cup concluded

\* continue_file: discovery hands the file to the rewrite lane.  Only an
\* import's callback asks for the front, and only while no reorder stands.
ContinueFile(k, h) ==
  /\ Answered(h)
  /\ Decides(k, h)
  /\ Run(k) \in Imports \/ group[Run(k)] = "open"
  /\ LET hurry == Run(k) \in Imports /\ undo = NoUndo
         t == [tasks[k] EXCEPT !.state = "pending", !.lane = "work",
                               !.priority = FALSE,
                               !.rank = IF hurry THEN front - 1 ELSE @]
     IN  /\ hurry => front > -MaxFront
         /\ front' = IF hurry THEN front - 1 ELSE front
         /\ tasks' = [tasks EXCEPT ![k] = t]
  /\ Index({k}, tasks', stopping)
  /\ UNCHANGED <<parked, workers, sequence, undo, service, controls, registry,
                 group, pauses, answers>>

\* Mutant: the caller's callback runs without a settlement claim.
CompleteFileUnclaimed(k, h) ==
  /\ Answered(h) /\ Decides(k, h)
  /\ Terminal(k)
  /\ tails' = tails \cup {[key |-> k, handle |-> h, lane |-> "decision",
                           final |-> TRUE, stage |-> "callbacks"]}
  /\ UNCHANGED <<index, occupied, activePaths, holding, settling, ranks, service, registry,
                 group, pauses, answers>>

\* complete_file: nothing to rewrite.  Its caller runs the terminal callback.
CompleteFile(k, h) ==
  /\ Answered(h)
  /\ Decides(k, h)
  /\ Terminal(k)
  /\ settling' = settling + 1
  /\ tails' = tails \cup {[key |-> k, handle |-> h, lane |-> "decision",
                           final |-> TRUE, stage |-> "callbacks"]}
  /\ UNCHANGED <<index, occupied, activePaths, holding, ranks, service, registry, group,
                 pauses, answers>>

-----------------------------------------------------------------------------
(***************************************************************************)
(* Dispatch: _claim, one worker thread per claimed phase.                   *)
(***************************************************************************)

\* Mutants: the claim forgets the workers' paths, or the pause reservations.
BlockedByReservation(k) == k \in reserved
BlockedByPath(k) == Path(k) \in activePaths

\* What keeps the file at the head of a heap from being claimed.
Blocked(k) == k \in reserved \/ Path(k) \in activePaths

\* Mutant: a pause holds abandoned work too.
LookedUnpaused(k) == ~paused /\ occupied[tasks[k].lane] < Limit[tasks[k].lane]

\* A heap is looked at if its lane has room and a pause does not hold it.
Looked(k) == /\ occupied[tasks[k].lane] < Limit[tasks[k].lane]
             /\ paused => entries[k].abandoned

SameHeap(j, k) == /\ tasks[j].lane = tasks[k].lane
                  /\ entries[j].abandoned = entries[k].abandoned

\* The first claimable entry of each heap looked at.
Heads ==
  {k \in indexed : /\ Looked(k) /\ ~Blocked(k)
                   /\ \A j \in indexed : SameHeap(j, k) /\ Before(entries[j], entries[k])
                                           => Blocked(j)}

\* The blocked entries ahead of it, which the claim sets aside.
SetAside ==
  {k \in indexed : /\ Looked(k) /\ Blocked(k)
                   /\ \A j \in indexed : SameHeap(j, k) /\ ~Blocked(j)
                                           => Before(entries[k], entries[j])}

Drop(ks) ==
  /\ indexed' = indexed \ ks
  /\ entries' = [k \in Keys |-> IF k \in ks THEN NoEntry ELSE entries[k]]

Claim(k) ==
  /\ ~halted
  /\ k \in Heads
  /\ \A j \in Heads : ~Before(entries[j], entries[k])
  /\ tasks' = [tasks EXCEPT ![k].state = "active"]
  /\ Drop(SetAside \cup {k})
  /\ parked' = parked \cup SetAside
  /\ occupied' = [occupied EXCEPT ![tasks[k].lane] = @ + 1]
  /\ activePaths' = activePaths \cup {Path(k)}
  /\ settling' = settling + 1
  /\ UNCHANGED <<holding, tails, ranks, service, controls, registry, group, pauses,
                 answers>>

\* A claim that finds nothing still sets aside what it met.
ClaimNothing ==
  /\ ~halted
  /\ Heads = {}
  /\ SetAside # {}
  /\ Drop(SetAside)
  /\ parked' = parked \cup SetAside
  /\ UNCHANGED <<tasks, workers, ranks, service, controls, registry, group,
                 pauses, answers>>

\* lifecycle.hold, which a sweep's call enters once it found itself not skipped
\* (sweep._judge, sweep._rewrite).  It waits for a resume or for its run's stop;
\* a skip that comes later is not looked at again.
Held(k) == paused /\ Run(k) \notin stopping
EnterHold(k) ==
  /\ tasks[k].state = "active" /\ ~tasks[k].skipped
  /\ Run(k) \notin Imports
  /\ Held(k)
  /\ holding' = holding \cup {k}
  /\ UNCHANGED <<tasks, index, occupied, activePaths, tails, settling, ranks, service,
                 controls, registry, group, pauses, answers>>

\* A phase that ends its file: a rewrite, or a discovery that raised.
Ends(t, failed) == t.lane = "work" \/ failed

\* _execute's critical section, once the phase's call returned or raised.
\* Releasing the path wakes what waited for it before the task's end is settled.
Finish(k, failed) ==
  LET t == tasks[k]
      final == Ends(t, failed)
  IN  /\ t.state = "active"
      /\ k \in holding => ~Held(k)
      /\ holding' = holding \ {k}
      /\ occupied' = [occupied EXCEPT ![t.lane] = @ - 1]
      /\ activePaths' = activePaths \ {Path(k)}
      /\ Wake({Path(k)})
      /\ IF final
         THEN Terminal(k)
         ELSE /\ tasks' = [tasks EXCEPT ![k].state = "awaiting"]
              /\ UNCHANGED controls
      /\ tails' = tails \cup {[key |-> k, handle |-> t.handle, lane |-> t.lane,
                               final |-> final, stage |-> "callbacks"]}
      /\ UNCHANGED <<settling, ranks, service, registry, group, pauses, answers>>

\* Mutant: a file completed by its decision never has its terminal callback.
CallbacksUnconcluded(t) ==
  /\ t.stage = "callbacks"
  /\ tails' = (tails \ {t}) \cup {[t EXCEPT !.stage = "settle"]}
  /\ delivered' = IF t.final THEN delivered \ {t.handle} ELSE delivered \cup {t.handle}
  /\ concluded' = IF t.final /\ t.lane # "decision" THEN concluded \cup {t.handle}
                                                     ELSE concluded
  /\ UNCHANGED <<tasks, index, occupied, activePaths, holding, settling, ranks, service,
                 controls, registry, group, pauses>>

\* The callbacks of a tail, outside the lock: the terminal one books an import
\* (lifecycle.import_result, then retire_run), a discovery's publishes its result.
Callbacks(t) ==
  LET r == Run(t.key)
      books == t.final /\ r \in Imports
  IN  /\ t.stage = "callbacks"
      /\ tails' = (tails \ {t}) \cup {[t EXCEPT !.stage = "settle"]}
      /\ concluded' = IF t.final THEN concluded \cup {t.handle} ELSE concluded
      /\ delivered' = IF t.final THEN delivered \ {t.handle} ELSE delivered \cup {t.handle}
      /\ owed' = [owed EXCEPT ![r] = IF books THEN @ - 1 ELSE @]
      /\ IF books THEN Retire(r, closing, filling, live[r], owed[r] - 1)
                  ELSE UNCHANGED <<open, closing, stopping>>
      /\ UNCHANGED <<tasks, index, occupied, activePaths, holding, settling, ranks, service,
                     live, skipIndex, filling, group, pauses>>

\* phase.settled.set() and _settled
Settle(t) ==
  /\ t.stage = "settle"
  /\ tails' = tails \ {t}
  /\ settling' = settling - 1
  /\ UNCHANGED <<tasks, index, occupied, activePaths, holding, ranks, service, controls,
                 registry, group, pauses, answers>>

-----------------------------------------------------------------------------
(***************************************************************************)
(* Stop and skip.                                                          *)
(***************************************************************************)

\* stop
Stop(r) ==
  /\ r \in open \ stopping
  /\ stopping' = stopping \cup {r}
  /\ Refresh({k \in InState("pending") : Run(k) = r}, tasks, stopping')
  /\ UNCHANGED <<tasks, workers, ranks, service, open, closing, live, skipIndex,
                 registry, group, pauses, answers>>

\* stop_all
StopAll ==
  /\ open \ stopping # {}
  /\ stopping' = open
  /\ Refresh({k \in InState("pending") : Run(k) \in open \ stopping}, tasks, stopping')
  /\ UNCHANGED <<tasks, workers, ranks, service, open, closing, live, skipIndex,
                 registry, group, pauses, answers>>

\* _select: refuse keys a pause command holds, keep the waiting, unabandoned ones.
Selected(S) ==
  IF S \cap reserved # {} THEN {}
  ELSE {k \in S \cap InState("pending") : ~Abandoned(tasks[k], Run(k), stopping)}

\* _skip and _mark_skipped
MarkSkipped(ks) ==
  /\ tasks' = [k \in Keys |-> IF k \in ks THEN [tasks[k] EXCEPT !.skipped = TRUE]
                                          ELSE tasks[k]]
  /\ skipIndex' = skipIndex \cup ks
  /\ Refresh(ks, tasks', stopping)
  /\ UNCHANGED <<workers, ranks, service, open, closing, stopping, live, registry,
                 group, answers>>

\* skip
Skip(S) ==
  /\ Selected(S) # {}
  /\ MarkSkipped(Selected(S))
  /\ UNCHANGED pauses

\* skip_file: whatever phase the file is in
SkipFile(k) ==
  /\ k \in Live \ reserved
  /\ MarkSkipped({k})
  /\ UNCHANGED pauses

\* pause_selection, in its three critical sections.  Between them the caller
\* writes the pause store without the lock.
Reserve(c, S) ==
  /\ command[c] = "idle"
  /\ Selected(S) # {}
  /\ command' = [command EXCEPT ![c] = "writing"]
  /\ selection' = [selection EXCEPT ![c] = Selected(S)]
  /\ reserved' = reserved \cup Selected(S)
  /\ UNCHANGED <<tasks, index, workers, ranks, service, controls, registry, group,
                 answers>>

\* The write succeeded.
Commit(c) ==
  /\ command[c] = "writing"
  /\ command' = [command EXCEPT ![c] = "committed"]
  /\ MarkSkipped(selection[c])
  /\ UNCHANGED <<reserved, selection>>

\* The finally block: after a commit, or straight after a write that raised.
Release(c) ==
  /\ command[c] # "idle"
  /\ command' = [command EXCEPT ![c] = "idle"]
  /\ selection' = [selection EXCEPT ![c] = {}]
  /\ reserved' = reserved \ selection[c]
  /\ Wake({Path(k) : k \in selection[c]})
  /\ UNCHANGED <<tasks, workers, ranks, service, controls, registry, group, answers>>

-----------------------------------------------------------------------------
(***************************************************************************)
(* Reordering.                                                             *)
(***************************************************************************)

\* Ranks after a command: T gives every task, and the live entries are rebuilt.
Reorder(T) ==
  /\ tasks' = T
  /\ Refresh(Keys, T, stopping)
  /\ UNCHANGED <<workers, sequence, service, controls, registry, group, pauses,
                 answers>>

\* Mutant: the front counter moves by one however many files are moved.
FrontByOne(ks) ==
  LET place(k) == Cardinality({j \in ks : Before(tasks[j], tasks[k])})
      first == front - 1
  IN  /\ first >= -MaxFront
      /\ front' = first
      /\ Reorder([k \in Keys |->
                    IF k \in ks THEN [tasks[k] EXCEPT !.rank = first + place(k)]
                                ELSE tasks[k]])

\* _front: the selection goes ahead of everything, in its own order.
Front(ks) ==
  LET place(k) == Cardinality({j \in ks : Before(tasks[j], tasks[k])})
      first == front - Cardinality(ks)
  IN  /\ first >= -MaxFront
      /\ front' = first
      /\ Reorder([k \in Keys |->
                    IF k \in ks THEN [tasks[k] EXCEPT !.rank = first + place(k)]
                                ELSE tasks[k]])

\* move_top: by hand, remembering every live rank for one undo.
MoveTop(S) ==
  /\ Selected(S) # {}
  /\ undo' = [h \in {tasks[k].handle : k \in Live} |->
                tasks[CHOOSE k \in Live : tasks[k].handle = h].rank]
  /\ Front(Selected(S))

\* hurry: a walk promotes the rewrites its cache has already answered.
Hurry(r, S) ==
  LET work == {k \in S \ reserved : Run(k) = r /\ tasks[k].lane = "work"}
  IN  /\ ~paused
      /\ r \notin Imports
      /\ Selected(work) # {}
      /\ Front(Selected(work))
      /\ UNCHANGED undo

\* restore: the surviving admissions get their ranks back.
Restore ==
  LET kept == {k \in Live : tasks[k].handle \in DOMAIN undo}
  IN  /\ undo # NoUndo
      /\ kept \cap reserved = {}
      /\ undo' = NoUndo
      /\ Reorder([k \in Keys |->
                    IF k \in kept THEN [tasks[k] EXCEPT !.rank = undo[tasks[k].handle]]
                                  ELSE tasks[k]])
      /\ UNCHANGED front

-----------------------------------------------------------------------------
(***************************************************************************)
(* The service: pause, shutdown, and a walk's task group.                   *)
(***************************************************************************)

\* set_paused
SetPaused(on) ==
  /\ paused # on
  /\ paused' = on
  /\ UNCHANGED <<tasks, index, workers, ranks, closed, halted, controls, registry,
                 group, pauses, answers>>

\* close, then shutdown.  lifecycle.shutdown closes first, and halts once the
\* drain ended or its deadline passed.
Close ==
  /\ ~closed
  /\ closed' = TRUE
  /\ UNCHANGED <<tasks, index, workers, ranks, paused, halted, controls, registry,
                 group, pauses, answers>>

Halt ==
  /\ closed /\ ~halted
  /\ halted' = TRUE
  /\ UNCHANGED <<tasks, index, workers, ranks, paused, closed, controls, registry,
                 group, pauses, answers>>

\* quiet: what a drain waits for
Quiet == Live = {} /\ reserved = {} /\ settling = 0

\* Group.drain: no phase is registered from here on ...
CloseGroup(r) ==
  /\ group[r] = "open"
  /\ group' = [group EXCEPT ![r] = "closed"]
  /\ UNCHANGED <<tasks, index, workers, ranks, service, controls, registry, pauses,
                 answers>>

\* ... and once every registered phase settled and every file left without a
\* decision was completed, it returns.
DrainGroup(r) ==
  /\ group[r] = "closed"
  /\ \A k \in InState("pending") \cup InState("active") \cup InState("awaiting") :
        Run(k) # r
  /\ \A t \in tails : Run(t.key) # r
  /\ group' = [group EXCEPT ![r] = "drained"]
  /\ UNCHANGED <<tasks, index, workers, ranks, service, controls, registry, pauses,
                 answers>>

-----------------------------------------------------------------------------
Init ==
  /\ tasks = [k \in Keys |-> NoTask]
  /\ indexed = {} /\ entries = [k \in Keys |-> NoEntry] /\ parked = {}
  /\ occupied = [l \in Lanes |-> 0] /\ activePaths = {}
  /\ holding = {} /\ tails = {} /\ settling = 0
  /\ sequence = 0 /\ front = 0 /\ undo = NoUndo
  /\ paused \in BOOLEAN \* startup restores the pause before dispatch starts
  /\ closed = FALSE /\ halted = FALSE
  /\ open = {} /\ closing = {} /\ stopping = {}
  /\ live = [r \in Runs |-> 0] /\ skipIndex = {}
  /\ filling = {} /\ owed = [r \in Runs |-> 0]
  /\ group = [r \in Runs |-> "none"]
  /\ reserved = {}
  /\ command = [c \in Commands |-> "idle"]
  /\ selection = [c \in Commands |-> {}]
  /\ delivered = {} /\ concluded = {}

Decide(k) == \E h \in 1..sequence : ContinueFile(k, h) \/ CompleteFile(k, h)
Dispatch == (\E k \in Keys : Claim(k)) \/ ClaimNothing
TailStep(k) == \E t \in tails : t.key = k /\ (Callbacks(t) \/ Settle(t))

\* The actions by what drives them; a run of the model may leave some out.
Producing ==
  \/ \E r \in Runs, fills \in BOOLEAN : OpenRun(r, fills)
  \/ \E r \in Runs : Seal(r) \/ CloseRun(r) \/ CloseGroup(r) \/ DrainGroup(r)
Admitting ==
  \/ \E k \in Keys, urgent \in BOOLEAN : Submit(k, urgent)
  \/ \E k \in Keys : Decide(k)
Working ==
  \/ Dispatch
  \/ \E k \in Keys, failed \in BOOLEAN : Finish(k, failed)
  \/ \E k \in Keys : TailStep(k)
Abandoning ==
  \/ \E r \in Runs : Stop(r)
  \/ \E S \in SUBSET Keys : Skip(S)
  \/ \E k \in Keys : SkipFile(k)
Pausing ==
  \/ \E c \in Commands, S \in SUBSET Keys : Reserve(c, S)
  \/ \E c \in Commands : Commit(c) \/ Release(c)
Reordering ==
  \/ \E S \in SUBSET Keys : MoveTop(S)
  \/ \E r \in Runs, S \in SUBSET Keys : Hurry(r, S)
  \/ Restore
Holding == \/ \E on \in BOOLEAN : SetPaused(on)
           \/ \E k \in Keys : EnterHold(k)
Ending == Close \/ StopAll \/ Halt

Next == \/ Producing \/ Admitting \/ Working \/ Abandoning \/ Pausing \/ Reordering
        \/ Holding \/ Ending

Spec == Init /\ [][Next]_vars
-----------------------------------------------------------------------------
(***************************************************************************)
(* Properties.                                                             *)
(***************************************************************************)

\* Every variable holds what the code puts there, and a run that is closing or
\* stopping has a control: retire_run forgets all of it together.
TypeOK ==
  /\ tasks \in [Keys -> Task]
  /\ indexed \subseteq Keys /\ entries \in [Keys -> Entry] /\ parked \subseteq Keys
  /\ occupied \in [Lanes -> Int] /\ activePaths \subseteq Paths
  /\ holding \subseteq InState("active") /\ tails \subseteq Tail /\ settling \in Int
  /\ sequence \in Nat /\ front \in Int
  /\ DOMAIN undo \subseteq Nat /\ \A h \in DOMAIN undo : undo[h] \in Int
  /\ paused \in BOOLEAN /\ closed \in BOOLEAN /\ halted \in BOOLEAN
  /\ open \subseteq Runs /\ closing \subseteq open /\ stopping \subseteq open
  /\ live \in [Runs -> Int] /\ skipIndex \subseteq Keys
  /\ filling \subseteq Imports /\ owed \in [Runs -> Int]
  /\ group \in [Runs -> {"none", "open", "closed", "drained"}]
  /\ reserved \subseteq Keys
  /\ command \in [Commands -> {"idle", "writing", "committed"}]
  /\ selection \in [Commands -> SUBSET Keys]
  /\ delivered \subseteq Nat /\ concluded \subseteq Nat

\* Two workers never hold one file, whichever runs admitted it, and the claimed
\* paths _claim consults are exactly the workers'.
OneWorkerPerFile ==
  /\ \A j, k \in InState("active") : Path(j) = Path(k) => j = k
  /\ activePaths = {Path(k) : k \in InState("active")}

\* No waiting file is lost to the dispatcher: it is in a heap, or it is parked
\* behind something that is still there to wake it (_wake_path).
EveryWaiterIsReachable ==
  /\ InState("pending") = indexed \cup parked
  /\ indexed \cap parked = {}
  /\ \A k \in parked : Blocked(k)

\* The entry a heap holds is the file's current order and heap: a skip, a stop
\* or a reorder never leaves one behind that the pause budget would misread.
IndexIsFresh ==
  \A k \in Keys : entries[k] = IF k \in indexed THEN EntryOf(k, tasks, stopping)
                                                ELSE NoEntry

\* A file whose pause is being written stays exactly where it was, and belongs
\* to one command only, until that command lets it go.
ReservedFilesWait ==
  /\ reserved = UNION {selection[c] : c \in Commands}
  /\ reserved \subseteq InState("pending")
  /\ \A c, d \in Commands : c # d => selection[c] \cap selection[d] = {}
  /\ \A c \in Commands : command[c] = "idle" => selection[c] = {}

\* Terminal callbacks still to run.
FinalTails == {t \in tails : t.final /\ t.stage = "callbacks"}

\* Every admission ever made is live, or ending, or has had its terminal
\* callback; never two of these, and never two callbacks.
EveryAdmissionConcludesOnce ==
  /\ \A t, u \in FinalTails : t.handle = u.handle => t = u
  /\ \A t \in FinalTails : t.handle \notin concluded
  /\ {tasks[k].handle : k \in Live} \cap
       (concluded \cup {t.handle : t \in FinalTails}) = {}
  /\ 1..sequence = concluded \cup {t.handle : t \in FinalTails}
                             \cup {tasks[k].handle : k \in Live}

\* The settlement counter a drain waits for covers every call and every
\* callback under way, so a drained process has none.
DrainCoversCallbacks == settling = Cardinality(InState("active")) + Cardinality(tails)

\* The counters kept beside the tasks agree with them: lanes, admissions per
\* run, and the skipped files a run reports.
CountersAgree ==
  /\ \A l \in Lanes :
        /\ occupied[l] = Cardinality({k \in InState("active") : tasks[k].lane = l})
        /\ occupied[l] <= Limit[l]
  /\ \A r \in Runs : live[r] = Cardinality({k \in Live : Run(k) = r})
  /\ skipIndex = {k \in Live : tasks[k].skipped}

\* Whatever is kept beside the tasks, in heaps and counters, is what the tasks say,
\* through every claim, skip, stop, pause and return of work.py.
IndexesAgree == IndexIsFresh /\ CountersAgree

\* A run is not retired under a file: not while it has a task, nor, for an
\* import, before that task's verdict is booked.
RunsOutliveTheirFiles ==
  /\ \A k \in Live : Run(k) \in open
  /\ \A t \in FinalTails : Run(t.key) \in Imports => Run(t.key) \in open

\* No two admissions share a rank, whatever moves, automatic promotions and
\* undos came before, so the order never falls back to comparing names.
RanksDistinct ==
  \A j, k \in Live : tasks[j].rank = tasks[k].rank => j = k

\* Once Group.drain returned, its walk's cache can be released: no phase of the
\* walk is waiting or running, nor will be.
DrainedGroupIsEmpty == \A k \in Live : group[Run(k)] # "drained"

\* What lifecycle.shutdown reports stays true: once closed and drained, nothing
\* is admitted, reserved or settling again.
QuietIsFinal == [][closed /\ Quiet => Quiet']_vars

\* A file between its discovery and its rewrite is settled only by the holder
\* of this admission's answer; a stale handle of an earlier one changes nothing.
DecidedByItsHolder ==
  [][\A k \in Keys : tasks[k].state = "awaiting" /\ tasks'[k].state # "awaiting"
        => tasks[k].handle \in delivered]_vars

\* The queue as a whole: heaps, parking and counters choose exactly the file
\* that FileQueue's one-line Start chooses.
Queue == INSTANCE FileQueue WITH
  phase <- [k \in Keys |-> tasks[k].state],
  lane <- [k \in Keys |-> tasks[k].lane],
  order <- [k \in Keys |-> [priority |-> tasks[k].priority, rank |-> tasks[k].rank]],
  abandoned <- {k \in Keys : Abandoned(tasks[k], Run(k), stopping)},
  held <- reserved
ClaimsFirstInOrder == Queue!Spec

-----------------------------------------------------------------------------
(***************************************************************************)
(* Fairness.  The dispatcher thread runs, a worker's call that is not held    *)
(* returns, callbacks run, a published discovery is decided, a pause command *)
(* ends its write.                                                         *)
(***************************************************************************)
Fairness ==
  /\ WF_vars(Dispatch)
  /\ \A k \in Keys : /\ WF_vars(\E failed \in BOOLEAN : Finish(k, failed))
                     /\ WF_vars(TailStep(k))
                     /\ WF_vars(Decide(k))
  /\ \A c \in Commands : WF_vars(Release(c))

\* Shutdown's drain ends, even under a pause: once admission is closed and every
\* open run was asked to stop, the queue empties (or the deadline halts it).
StoppedQueueDrains == (closed /\ open \subseteq stopping) ~> (Quiet \/ halted)

\* A waiting file is eventually taken, held by a pause command, or left to a
\* pause of the service; what a command or a worker set aside is woken again.
WaitersAreTaken ==
  \A k \in Keys : tasks[k].state = "pending"
     ~> (tasks[k].state # "pending" \/ k \in reserved \/ paused \/ halted)

\* What work.py says of a skipped file: it is dispatched "rather than waiting
\* for a resume", so a pause that never ends does not keep it.
SkippedNeedsNoResume ==
  \A k \in Keys : (tasks[k].state = "pending" /\ tasks[k].skipped /\ paused)
                    ~> (tasks[k].state # "pending" \/ ~paused \/ halted)
=============================================================================
