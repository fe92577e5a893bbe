----------------------------- MODULE RewriteProofs -----------------------------
(***************************************************************************)
(* What holds of rewrites for any jobs, processes, budgets and faults.      *)
(***************************************************************************)
EXTENDS Rewrite, TLAPS

-----------------------------------------------------------------------------
(***************************************************************************)
(* Types.                                                                  *)
(***************************************************************************)

\* Every step keeps the types.
LEMMA TypedWork ==
  ASSUME RewriteTypeOK, NEW j \in Job, Works(j)
  PROVE  RewriteTypeOK'
  <1> USE RewriteAssumption DEF RewriteTypeOK, Go, Stage, gateVars, slotVars,
       stagedVars, titleVars, cleanVars, faultVars
  <1>1. CASE Judge(j)
    BY <1>1 DEF Judge, Name
  <1>2. CASE Begin(j)
    BY <1>2 DEF Begin
  <1>3. CASE Refusal(j)
    BY <1>3 DEF Refusal
  <1>4. CASE ClaimSlot(j)
    BY <1>4 DEF ClaimSlot, Slot
  <1>5. CASE StopWaiting(j)
    BY <1>5 DEF StopWaiting
  <1>6. CASE StageFile(j)
    BY <1>6 DEF StageFile
  <1>7. CASE Reject(j)
    BY <1>7 DEF Reject
  <1>8. CASE StartFfmpeg(j)
    BY <1>8 DEF StartFfmpeg
  <1>9. CASE AnswerSkip(j)
    BY <1>9 DEF AnswerSkip
  <1>10. CASE Encode(j)
    BY <1>10 DEF Encode
  <1>11. CASE Fail(j)
    BY <1>11 DEF Fail
  <1>12. CASE Own(j)
    BY <1>12 DEF Own
  <1>13. CASE Recheck(j)
    BY <1>13 DEF Recheck
  <1>14. CASE Commit(j)
    BY <1>14 DEF Commit
  <1>15. CASE Flush(j)
    BY <1>15 DEF Flush
  <1>16. CASE CopyAcross(j)
    BY <1>16 DEF CopyAcross
  <1>17. CASE Publish(j)
    <2>1. blind' \subseteq Job
      BY <1>17 DEF Publish, Writes, Blinds, Late, titleVars
    <2>2. file' \in [Name -> Nat] /\ latest' \in Nat
      BY <1>17 DEF Publish, Writes, Name, Target, titleVars
    <2> QED
      BY <1>17, <2>1, <2>2 DEF Publish, Writes, Target, Name
  <1>18. CASE RemoveSource(j)
    <2>1. blind' \subseteq Job
      BY <1>18 DEF RemoveSource, Blinds, Late, titleVars
    <2>2. file' \in [Name -> Nat]
      BY <1>18 DEF RemoveSource, Name, Target, titleVars
    <2> QED
      BY <1>18, <2>1, <2>2 DEF RemoveSource
  <1>19. CASE Close(j)
    BY <1>19 DEF Close
  <1>20. CASE FreeSlot(j)
    BY <1>20 DEF FreeSlot
  <1>21. CASE Leave(j)
    BY <1>21 DEF Leave, Disowned
  <1>22. CASE TagOrRewrite(j)
    <2>1. at' \in [Job -> Stage] /\ kind' \in [Job -> Kind]
      BY <1>22 DEF TagOrRewrite, Kind
    <2>2. owner' \in [Process -> Job \cup {Nobody}]
      BY <1>22 DEF TagOrRewrite, Disowned
    <2> QED
      BY <1>22, <2>1, <2>2 DEF TagOrRewrite
  <1>23. CASE EditTrack(j)
    <2>1. blind' \subseteq Job
      BY <1>23 DEF EditTrack, Writes, Blinds, Late, titleVars
    <2>2. file' \in [Name -> Nat] /\ latest' \in Nat
      BY <1>23 DEF EditTrack, Writes, Name, Target, titleVars
    <2>3. committed' \subseteq Job /\ mutated' \subseteq Job
      BY <1>23 DEF EditTrack
    <2>4. at' \in [Job -> Stage]
      BY <1>23 DEF EditTrack
    <2> QED
      BY <1>23, <2>1, <2>2, <2>3, <2>4 DEF EditTrack, Writes
  <1>24. CASE LeaveTrack(j)
    BY <1>24 DEF LeaveTrack
  <1> QED
    BY <1>1, <1>2, <1>3, <1>4, <1>5, <1>6, <1>7, <1>8, <1>9, <1>10, <1>11, <1>12,
       <1>13, <1>14, <1>15, <1>16, <1>17, <1>18, <1>19, <1>20, <1>21, <1>22,
       <1>23, <1>24
       DEF Works

\* The same of everything that is not a step of a job's own thread.
LEMMA TypedRest ==
  ASSUME RewriteTypeOK, RewriteNext, ~\E j \in Job : Works(j)
  PROVE  RewriteTypeOK'
  <1> USE RewriteAssumption DEF RewriteTypeOK, Go, Stage, gateVars, slotVars,
       stagedVars, titleVars, cleanVars, faultVars
  <1>1. ASSUME NEW j \in Job, SkipPhase(j) PROVE RewriteTypeOK'
    BY <1>1 DEF SkipPhase, Ask, Active
  <1>2. ASSUME NEW j \in Job, Signal(j) PROVE RewriteTypeOK'
    BY <1>2 DEF Signal
  <1>3. ASSUME NEW p \in Process, Abort(p) PROVE RewriteTypeOK'
    BY <1>3 DEF Abort, Ask
  <1>4. CASE ListSlots
    BY <1>4 DEF ListSlots, Slot
  <1>5. CASE TakeSlot
    BY <1>5 DEF TakeSlot
  <1>6. CASE LoseSlots
    BY <1>6 DEF LoseSlots
  <1>7. CASE HoldSlots
    BY <1>7 DEF HoldSlots
  <1>8. CASE ListWork
    BY <1>8 DEF ListWork
  <1>9. CASE EndClean
    BY <1>9 DEF EndClean
  <1>10. ASSUME NEW j \in Job, Drop(j) PROVE RewriteTypeOK'
    BY <1>10 DEF Drop
  <1>11. ASSUME NEW name \in Name, Land(name) PROVE RewriteTypeOK'
    BY <1>11 DEF Land, Late, Name
  <1>12. ASSUME NEW gone \in {{p} : p \in Process} \cup {Process}, Crash(gone)
        PROVE  RewriteTypeOK'
    <2>1. /\ at' \in [Job -> Stage] /\ temp' \in [Job -> {"none", "live", "gone"}]
          /\ judged' \in [Job -> Nat]
      BY <1>12 DEF Crash
    <2>2. /\ {asked', committed', prevented', skipping'} \subseteq SUBSET Job
          /\ {signalled', mutated', synced', orphans', blind', doomed'} \subseteq SUBSET Job
      BY <1>12 DEF Crash
    <2>3. /\ holder' \in [Slot -> Job \cup {Nobody, Cleaner}]
          /\ owner' \in [Process -> Job \cup {Nobody}]
      BY <1>12 DEF Crash, Disowned
    <2>4. torn' \subseteq Name
      BY <1>12 DEF Crash
    <2>5. /\ cleaner' \in {"off", "locking", "listing", "sweeping"} /\ exclusive' \in BOOLEAN
          /\ wanted' \subseteq Slot
      BY <1>12 DEF Crash
    <2> QED
      BY <1>12, <2>1, <2>2, <2>3, <2>4, <2>5 DEF Crash
  <1> QED
    BY <1>1, <1>2, <1>3, <1>4, <1>5, <1>6, <1>7, <1>8, <1>9, <1>10, <1>11, <1>12
       DEF RewriteNext, Cleans

\* Every variable of Rewrite keeps its type.
THEOREM RewriteTypeCorrect == RewriteSpec => []RewriteTypeOK
  <1>1. RewriteInit => RewriteTypeOK
    <2> SUFFICES ASSUME RewriteInit PROVE RewriteTypeOK
      OBVIOUS
    <2>1. /\ at \in [Job -> Stage] /\ kind \in [Job -> Kind] /\ judged \in [Job -> Nat]
          /\ temp \in [Job -> {"none", "live", "gone"}]
      BY DEF RewriteInit, Stage, Kind
    <2>2. /\ holder \in [Slot -> Job \cup {Nobody, Cleaner}]
          /\ owner \in [Process -> Job \cup {Nobody}]
      BY DEF RewriteInit
    <2>3. file \in [Name -> Nat] /\ latest \in Nat /\ landings \in Nat /\ crashes \in Nat
      BY DEF RewriteInit
    <2> QED
      BY <2>1, <2>2, <2>3 DEF RewriteInit, RewriteTypeOK
  <1>2. RewriteTypeOK /\ [RewriteNext]_rewriteVars => RewriteTypeOK'
    <2> SUFFICES ASSUME RewriteTypeOK, [RewriteNext]_rewriteVars PROVE RewriteTypeOK'
      OBVIOUS
    <2>1. CASE RewriteNext
      BY <2>1, TypedWork, TypedRest
    <2>2. CASE UNCHANGED rewriteVars
      BY <2>2 DEF RewriteTypeOK, rewriteVars, gateVars, slotVars, stagedVars, titleVars,
                  cleanVars, faultVars
    <2> QED
      BY <2>1, <2>2
  <1> QED
    BY <1>1, <1>2, PTL DEF RewriteSpec

-----------------------------------------------------------------------------
(***************************************************************************)
(* The gate of a job's Cancel.  SkipsAreHonest says nothing of a job that is *)
(* asked and has not mutated yet: what makes it inductive is that whoever is *)
(* past the gate has committed, that a skip counts as in time only for those *)
(* that have not, and that the edits of a page are never asked.              *)
(***************************************************************************)
EditStage == {"idle", "judged", "cleared", "editing", "leaving", "done"}
PastGate == {"committed", "flushed", "landed", "published"}

GateHolds ==
  /\ prevented \subseteq asked /\ prevented \cap committed = {}
  /\ \A j \in Job :
       /\ at[j] = "idle" => j \notin asked \cup committed \cup mutated
       /\ ~Stoppable(j) => j \notin asked /\ at[j] \in EditStage
       /\ j \in mutated => j \in committed \/ ~Stoppable(j)
       /\ at[j] \in PastGate => j \in committed

\* A job's own step keeps the gate.
LEMMA GateWork ==
  ASSUME RewriteTypeOK, GateHolds, NEW j \in Job, Works(j)
  PROVE  GateHolds'
  <1> USE RewriteAssumption DEF RewriteTypeOK, GateHolds, EditStage, PastGate,
       Stoppable, Go, MayCommit, Registered, gateVars, slotVars,
       stagedVars, titleVars, cleanVars, faultVars
  <1>1. CASE Judge(j)
    BY <1>1 DEF Judge
  <1>2. CASE Begin(j)
    BY <1>2 DEF Begin
  <1>3. CASE Refusal(j)
    BY <1>3 DEF Refusal
  <1>4. CASE ClaimSlot(j)
    BY <1>4 DEF ClaimSlot
  <1>5. CASE StopWaiting(j)
    BY <1>5 DEF StopWaiting
  <1>6. CASE StageFile(j)
    BY <1>6 DEF StageFile
  <1>7. CASE Reject(j)
    BY <1>7 DEF Reject
  <1>8. CASE StartFfmpeg(j)
    BY <1>8 DEF StartFfmpeg
  <1>9. CASE AnswerSkip(j)
    BY <1>9 DEF AnswerSkip
  <1>10. CASE Encode(j)
    BY <1>10 DEF Encode
  <1>11. CASE Fail(j)
    BY <1>11 DEF Fail
  <1>12. CASE Own(j)
    BY <1>12 DEF Own
  <1>13. CASE Recheck(j)
    BY <1>13 DEF Recheck
  <1>14. CASE Commit(j)
    BY <1>14 DEF Commit
  <1>15. CASE Flush(j)
    BY <1>15 DEF Flush
  <1>16. CASE CopyAcross(j)
    BY <1>16 DEF CopyAcross
  <1>17. CASE Publish(j)
    BY <1>17 DEF Publish, Writes, Blinds, Late, Name
  <1>18. CASE RemoveSource(j)
    BY <1>18 DEF RemoveSource
  <1>19. CASE Close(j)
    BY <1>19 DEF Close
  <1>20. CASE FreeSlot(j)
    BY <1>20 DEF FreeSlot
  <1>21. CASE Leave(j)
    BY <1>21 DEF Leave
  <1>22. CASE TagOrRewrite(j)
    BY <1>22 DEF TagOrRewrite
  <1>23. CASE EditTrack(j)
    BY <1>23 DEF EditTrack, Writes, Blinds, Late, Name
  <1>24. CASE LeaveTrack(j)
    BY <1>24 DEF LeaveTrack
  <1> QED
    BY <1>1, <1>2, <1>3, <1>4, <1>5, <1>6, <1>7, <1>8, <1>9, <1>10, <1>11, <1>12,
       <1>13, <1>14, <1>15, <1>16, <1>17, <1>18, <1>19, <1>20, <1>21, <1>22,
       <1>23, <1>24
       DEF Works

\* The same of everything that is not a step of a job's own thread.
LEMMA GateRest ==
  ASSUME RewriteTypeOK, GateHolds, RewriteNext, ~\E j \in Job : Works(j)
  PROVE  GateHolds'
  <1> USE RewriteAssumption DEF RewriteTypeOK, GateHolds, EditStage, PastGate,
       Stoppable, Go, MayCommit, Registered, gateVars, slotVars,
       stagedVars, titleVars, cleanVars, faultVars
  <1>1. ASSUME NEW j \in Job, SkipPhase(j) PROVE GateHolds'
    BY <1>1 DEF SkipPhase, Ask, Active
  <1>2. ASSUME NEW j \in Job, Signal(j) PROVE GateHolds'
    BY <1>2 DEF Signal
  <1>3. ASSUME NEW p \in Process, Abort(p) PROVE GateHolds'
    BY <1>3 DEF Abort, Ask
  <1>4. CASE ListSlots
    BY <1>4 DEF ListSlots
  <1>5. CASE TakeSlot
    BY <1>5 DEF TakeSlot
  <1>6. CASE LoseSlots
    BY <1>6 DEF LoseSlots
  <1>7. CASE HoldSlots
    BY <1>7 DEF HoldSlots
  <1>8. CASE ListWork
    BY <1>8 DEF ListWork
  <1>9. CASE EndClean
    BY <1>9 DEF EndClean
  <1>10. ASSUME NEW j \in Job, Drop(j) PROVE GateHolds'
    BY <1>10 DEF Drop
  <1>11. ASSUME NEW name \in Name, Land(name) PROVE GateHolds'
    BY <1>11 DEF Land
  <1>12. ASSUME NEW gone \in {{p} : p \in Process} \cup {Process}, Crash(gone)
        PROVE  GateHolds'
    BY <1>12 DEF Crash
  <1> QED
    BY <1>1, <1>2, <1>3, <1>4, <1>5, <1>6, <1>7, <1>8, <1>9, <1>10, <1>11, <1>12
       DEF RewriteNext, Cleans

\* The inductive invariant of the gate, for any interleaving of jobs, skips, aborts
\* and crashes.
THEOREM GateStands == RewriteSpec => [](RewriteTypeOK /\ GateHolds)
  <1>1. RewriteInit => GateHolds
    BY DEF RewriteInit, GateHolds, EditStage, PastGate, Stoppable
  <1>2. RewriteTypeOK /\ GateHolds /\ [RewriteNext]_rewriteVars => GateHolds'
    <2> SUFFICES ASSUME RewriteTypeOK, GateHolds, [RewriteNext]_rewriteVars PROVE GateHolds'
      OBVIOUS
    <2>1. CASE RewriteNext
      BY <2>1, GateWork, GateRest
    <2>2. CASE UNCHANGED rewriteVars
      BY <2>2 DEF GateHolds, EditStage, PastGate, Stoppable, rewriteVars, gateVars
    <2> QED
      BY <2>1, <2>2
  <1> QED
    BY <1>1, <1>2, RewriteTypeCorrect, PTL DEF RewriteSpec

\* A skip that was told it came in time has: its job changes nothing in the library
\* (executor.Cancel).
THEOREM SkipsStayHonest == RewriteSpec => []SkipsAreHonest
  <1>1. RewriteTypeOK /\ GateHolds => SkipsAreHonest
    BY DEF RewriteTypeOK, GateHolds, SkipsAreHonest
  <1> QED
    BY <1>1, GateStands, PTL

-----------------------------------------------------------------------------
(***************************************************************************)
(* Signals: the property is inductive beside the gate, since a skip in time  *)
(* leaves a mark for AnswerSkip or a signal still to be sent.                *)
(***************************************************************************)

\* A job's own step keeps it.
LEMMA ReachWork ==
  ASSUME RewriteTypeOK, GateHolds, SkipsReachFfmpeg, NEW j \in Job, Works(j)
  PROVE  SkipsReachFfmpeg'
  <1> USE RewriteAssumption DEF RewriteTypeOK, GateHolds, SkipsReachFfmpeg, Go,
       Registered, gateVars, slotVars, stagedVars, titleVars, cleanVars,
       faultVars
  <1>1. CASE Judge(j)
    BY <1>1 DEF Judge
  <1>2. CASE Begin(j)
    BY <1>2 DEF Begin
  <1>3. CASE Refusal(j)
    BY <1>3 DEF Refusal
  <1>4. CASE ClaimSlot(j)
    BY <1>4 DEF ClaimSlot
  <1>5. CASE StopWaiting(j)
    BY <1>5 DEF StopWaiting
  <1>6. CASE StageFile(j)
    BY <1>6 DEF StageFile
  <1>7. CASE Reject(j)
    BY <1>7 DEF Reject
  <1>8. CASE StartFfmpeg(j)
    BY <1>8 DEF StartFfmpeg
  <1>9. CASE AnswerSkip(j)
    BY <1>9 DEF AnswerSkip
  <1>10. CASE Encode(j)
    BY <1>10 DEF Encode
  <1>11. CASE Fail(j)
    BY <1>11 DEF Fail
  <1>12. CASE Own(j)
    BY <1>12 DEF Own
  <1>13. CASE Recheck(j)
    BY <1>13 DEF Recheck
  <1>14. CASE Commit(j)
    BY <1>14 DEF Commit
  <1>15. CASE Flush(j)
    BY <1>15 DEF Flush
  <1>16. CASE CopyAcross(j)
    BY <1>16 DEF CopyAcross
  <1>17. CASE Publish(j)
    BY <1>17 DEF Publish
  <1>18. CASE RemoveSource(j)
    BY <1>18 DEF RemoveSource
  <1>19. CASE Close(j)
    BY <1>19 DEF Close
  <1>20. CASE FreeSlot(j)
    BY <1>20 DEF FreeSlot
  <1>21. CASE Leave(j)
    BY <1>21 DEF Leave
  <1>22. CASE TagOrRewrite(j)
    BY <1>22 DEF TagOrRewrite
  <1>23. CASE EditTrack(j)
    BY <1>23 DEF EditTrack
  <1>24. CASE LeaveTrack(j)
    BY <1>24 DEF LeaveTrack
  <1> QED
    BY <1>1, <1>2, <1>3, <1>4, <1>5, <1>6, <1>7, <1>8, <1>9, <1>10, <1>11, <1>12,
       <1>13, <1>14, <1>15, <1>16, <1>17, <1>18, <1>19, <1>20, <1>21, <1>22,
       <1>23, <1>24
       DEF Works

\* The same of everything that is not a step of a job's own thread.
LEMMA ReachRest ==
  ASSUME RewriteTypeOK, GateHolds, SkipsReachFfmpeg, RewriteNext, ~\E j \in Job : Works(j)
  PROVE  SkipsReachFfmpeg'
  <1> USE RewriteAssumption DEF RewriteTypeOK, GateHolds, SkipsReachFfmpeg, Go,
       Registered, gateVars, slotVars, stagedVars, titleVars, cleanVars,
       faultVars
  <1>1. ASSUME NEW j \in Job, SkipPhase(j) PROVE SkipsReachFfmpeg'
    BY <1>1 DEF SkipPhase, Ask, Active
  <1>2. ASSUME NEW j \in Job, Signal(j) PROVE SkipsReachFfmpeg'
    BY <1>2 DEF Signal
  <1>3. ASSUME NEW p \in Process, Abort(p) PROVE SkipsReachFfmpeg'
    BY <1>3 DEF Abort, Ask
  <1>4. CASE ListSlots
    BY <1>4 DEF ListSlots
  <1>5. CASE TakeSlot
    BY <1>5 DEF TakeSlot
  <1>6. CASE LoseSlots
    BY <1>6 DEF LoseSlots
  <1>7. CASE HoldSlots
    BY <1>7 DEF HoldSlots
  <1>8. CASE ListWork
    BY <1>8 DEF ListWork
  <1>9. CASE EndClean
    BY <1>9 DEF EndClean
  <1>10. ASSUME NEW j \in Job, Drop(j) PROVE SkipsReachFfmpeg'
    BY <1>10 DEF Drop
  <1>11. ASSUME NEW name \in Name, Land(name) PROVE SkipsReachFfmpeg'
    BY <1>11 DEF Land
  <1>12. ASSUME NEW gone \in {{p} : p \in Process} \cup {Process}, Crash(gone)
        PROVE  SkipsReachFfmpeg'
    BY <1>12 DEF Crash
  <1> QED
    BY <1>1, <1>2, <1>3, <1>4, <1>5, <1>6, <1>7, <1>8, <1>9, <1>10, <1>11, <1>12
       DEF RewriteNext, Cleans

\* A skip in time reaches ffmpeg, however it falls between the process's start and its
\* registration (executor._run_ffmpeg against terminate_phase).
THEOREM SkipsAlwaysReach == RewriteSpec => []SkipsReachFfmpeg
  <1>1. RewriteInit => SkipsReachFfmpeg
    BY DEF RewriteInit, SkipsReachFfmpeg
  <1>2. RewriteTypeOK /\ GateHolds /\ SkipsReachFfmpeg /\ [RewriteNext]_rewriteVars
          => SkipsReachFfmpeg'
    <2> SUFFICES ASSUME RewriteTypeOK, GateHolds, SkipsReachFfmpeg, [RewriteNext]_rewriteVars
                 PROVE  SkipsReachFfmpeg'
      OBVIOUS
    <2>1. CASE RewriteNext
      BY <2>1, ReachWork, ReachRest
    <2>2. CASE UNCHANGED rewriteVars
      BY <2>2 DEF SkipsReachFfmpeg, rewriteVars, gateVars
    <2> QED
      BY <2>1, <2>2
  <1> QED
    BY <1>1, <1>2, GateStands, PTL DEF RewriteSpec

-----------------------------------------------------------------------------
(***************************************************************************)
(* The title: whatever replaces it was flushed before, and a remuxed source  *)
(* goes only while the output is there.                                     *)
(***************************************************************************)
WholeHolds ==
  /\ soft = {} /\ torn = {}
  /\ \E name \in Name : file[name] # 0
  /\ \A j \in Job : /\ at[j] \in {"flushed", "landed"} => j \in synced
                    /\ at[j] = "published" => file["output"] # 0

\* A job's own step keeps the title.
LEMMA WholeWork ==
  ASSUME RewriteTypeOK, WholeHolds, NEW j \in Job, Works(j)
  PROVE  WholeHolds'
  <1> USE RewriteAssumption DEF RewriteTypeOK, WholeHolds, Go, Name, gateVars,
       slotVars, stagedVars, titleVars, cleanVars, faultVars
  <1>1. CASE Judge(j)
    BY <1>1 DEF Judge
  <1>2. CASE Begin(j)
    BY <1>2 DEF Begin
  <1>3. CASE Refusal(j)
    BY <1>3 DEF Refusal
  <1>4. CASE ClaimSlot(j)
    BY <1>4 DEF ClaimSlot
  <1>5. CASE StopWaiting(j)
    BY <1>5 DEF StopWaiting
  <1>6. CASE StageFile(j)
    BY <1>6 DEF StageFile
  <1>7. CASE Reject(j)
    BY <1>7 DEF Reject
  <1>8. CASE StartFfmpeg(j)
    BY <1>8 DEF StartFfmpeg
  <1>9. CASE AnswerSkip(j)
    BY <1>9 DEF AnswerSkip
  <1>10. CASE Encode(j)
    BY <1>10 DEF Encode
  <1>11. CASE Fail(j)
    BY <1>11 DEF Fail
  <1>12. CASE Own(j)
    BY <1>12 DEF Own
  <1>13. CASE Recheck(j)
    BY <1>13 DEF Recheck
  <1>14. CASE Commit(j)
    BY <1>14 DEF Commit
  <1>15. CASE Flush(j)
    BY <1>15 DEF Flush
  <1>16. CASE CopyAcross(j)
    BY <1>16 DEF CopyAcross
  <1>17. CASE Publish(j)
    BY <1>17 DEF Publish, Writes, Blinds, Target
  <1>18. CASE RemoveSource(j)
    BY <1>18 DEF RemoveSource, Blinds
  <1>19. CASE Close(j)
    BY <1>19 DEF Close
  <1>20. CASE FreeSlot(j)
    BY <1>20 DEF FreeSlot
  <1>21. CASE Leave(j)
    BY <1>21 DEF Leave
  <1>22. CASE TagOrRewrite(j)
    BY <1>22 DEF TagOrRewrite
  <1>23. CASE EditTrack(j)
    BY <1>23 DEF EditTrack, Writes, Blinds
  <1>24. CASE LeaveTrack(j)
    BY <1>24 DEF LeaveTrack
  <1> QED
    BY <1>1, <1>2, <1>3, <1>4, <1>5, <1>6, <1>7, <1>8, <1>9, <1>10, <1>11, <1>12,
       <1>13, <1>14, <1>15, <1>16, <1>17, <1>18, <1>19, <1>20, <1>21, <1>22,
       <1>23, <1>24
       DEF Works

\* The same of everything that is not a step of a job's own thread.
LEMMA WholeRest ==
  ASSUME RewriteTypeOK, WholeHolds, RewriteNext, ~\E j \in Job : Works(j)
  PROVE  WholeHolds'
  <1> USE RewriteAssumption DEF RewriteTypeOK, WholeHolds, Go, Name, gateVars,
       slotVars, stagedVars, titleVars, cleanVars, faultVars
  <1>1. ASSUME NEW j \in Job, SkipPhase(j) PROVE WholeHolds'
    BY <1>1 DEF SkipPhase, Ask, Active
  <1>2. ASSUME NEW j \in Job, Signal(j) PROVE WholeHolds'
    BY <1>2 DEF Signal
  <1>3. ASSUME NEW p \in Process, Abort(p) PROVE WholeHolds'
    BY <1>3 DEF Abort, Ask
  <1>4. CASE ListSlots
    BY <1>4 DEF ListSlots
  <1>5. CASE TakeSlot
    BY <1>5 DEF TakeSlot
  <1>6. CASE LoseSlots
    BY <1>6 DEF LoseSlots
  <1>7. CASE HoldSlots
    BY <1>7 DEF HoldSlots
  <1>8. CASE ListWork
    BY <1>8 DEF ListWork
  <1>9. CASE EndClean
    BY <1>9 DEF EndClean
  <1>10. ASSUME NEW j \in Job, Drop(j) PROVE WholeHolds'
    BY <1>10 DEF Drop
  <1>11. ASSUME NEW name \in Name, Land(name) PROVE WholeHolds'
    BY <1>11 DEF Land
  <1>12. ASSUME NEW gone \in {{p} : p \in Process} \cup {Process}, Crash(gone)
        PROVE  WholeHolds'
    BY <1>12 DEF Crash
  <1> QED
    BY <1>1, <1>2, <1>3, <1>4, <1>5, <1>6, <1>7, <1>8, <1>9, <1>10, <1>11, <1>12
       DEF RewriteNext, Cleans

\* After any failure, crash or power cut the library has the title whole under one of
\* its names (executor._flush, _publish and the removal of a remuxed source).
THEOREM TitleSurvives == RewriteSpec => []TitleStaysWhole
  <1>1. RewriteInit => WholeHolds
    BY DEF RewriteInit, WholeHolds, Name
  <1>2. RewriteTypeOK /\ WholeHolds /\ [RewriteNext]_rewriteVars => WholeHolds'
    <2> SUFFICES ASSUME RewriteTypeOK, WholeHolds, [RewriteNext]_rewriteVars PROVE WholeHolds'
      OBVIOUS
    <2>1. CASE RewriteNext
      BY <2>1, WholeWork, WholeRest
    <2>2. CASE UNCHANGED rewriteVars
      BY <2>2 DEF WholeHolds, Name, rewriteVars, stagedVars, titleVars
    <2> QED
      BY <2>1, <2>2
  <1>3. WholeHolds => TitleStaysWhole
    BY DEF WholeHolds, TitleStaysWhole
  <1> QED
    BY <1>1, <1>2, <1>3, RewriteTypeCorrect, PTL DEF RewriteSpec

-----------------------------------------------------------------------------
(***************************************************************************)
(* Freshness: ownership keeps the other jobs of a process from the title     *)
(* after a job's last check, and whoever writes from outside the process     *)
(* makes that check blind.                                                  *)
(***************************************************************************)
Owning == {"owned", "tagging", "editing", "checked", "committed", "flushed", "landed",
           "published"}
Checked == {"checked", "committed", "flushed", "landed"}

FreshHolds ==
  \A j \in Job :
    /\ at[j] \in Owning => owner[Home[j]] = j
    /\ at[j] \in Checked => j \in blind \/ (SourceStands(j) /\ ~TargetTaken(j))
    /\ at[j] = "published" => j \in blind \/ SourceStands(j)

\* A job's own step keeps what it checked.
LEMMA FreshWork ==
  ASSUME RewriteTypeOK, FreshHolds, NEW j \in Job, Works(j)
  PROVE  FreshHolds'
  <1> USE RewriteAssumption DEF RewriteTypeOK, FreshHolds, Owning, Checked,
       SourceStands, TargetTaken, Go, Name, gateVars, slotVars, stagedVars,
       titleVars, cleanVars, faultVars
  <1>1. CASE Judge(j)
    BY <1>1 DEF Judge
  <1>2. CASE Begin(j)
    BY <1>2 DEF Begin
  <1>3. CASE Refusal(j)
    BY <1>3 DEF Refusal
  <1>4. CASE ClaimSlot(j)
    BY <1>4 DEF ClaimSlot
  <1>5. CASE StopWaiting(j)
    BY <1>5 DEF StopWaiting
  <1>6. CASE StageFile(j)
    BY <1>6 DEF StageFile
  <1>7. CASE Reject(j)
    BY <1>7 DEF Reject
  <1>8. CASE StartFfmpeg(j)
    BY <1>8 DEF StartFfmpeg
  <1>9. CASE AnswerSkip(j)
    BY <1>9 DEF AnswerSkip
  <1>10. CASE Encode(j)
    BY <1>10 DEF Encode
  <1>11. CASE Fail(j)
    BY <1>11 DEF Fail
  <1>12. CASE Own(j)
    BY <1>12 DEF Own
  <1>13. CASE Recheck(j)
    BY <1>13 DEF Recheck
  <1>14. CASE Commit(j)
    BY <1>14 DEF Commit
  <1>15. CASE Flush(j)
    BY <1>15 DEF Flush
  <1>16. CASE CopyAcross(j)
    BY <1>16 DEF CopyAcross
  <1>17. CASE Publish(j)
    BY <1>17 DEF Publish, Writes, Blinds, Late, Target
  <1>18. CASE RemoveSource(j)
    BY <1>18 DEF RemoveSource, Blinds, Late
  <1>19. CASE Close(j)
    BY <1>19 DEF Close
  <1>20. CASE FreeSlot(j)
    BY <1>20 DEF FreeSlot
  <1>21. CASE Leave(j)
    BY <1>21 DEF Leave, Disowned
  <1>22. CASE TagOrRewrite(j)
    BY <1>22 DEF TagOrRewrite, Disowned
  <1>23. CASE EditTrack(j)
    BY <1>23 DEF EditTrack, Writes, Blinds, Late
  <1>24. CASE LeaveTrack(j)
    BY <1>24 DEF LeaveTrack
  <1> QED
    BY <1>1, <1>2, <1>3, <1>4, <1>5, <1>6, <1>7, <1>8, <1>9, <1>10, <1>11, <1>12,
       <1>13, <1>14, <1>15, <1>16, <1>17, <1>18, <1>19, <1>20, <1>21, <1>22,
       <1>23, <1>24
       DEF Works

\* The same of everything that is not a step of a job's own thread.
LEMMA FreshRest ==
  ASSUME RewriteTypeOK, FreshHolds, RewriteNext, ~\E j \in Job : Works(j)
  PROVE  FreshHolds'
  <1> USE RewriteAssumption DEF RewriteTypeOK, FreshHolds, Owning, Checked,
       SourceStands, TargetTaken, Go, Name, gateVars, slotVars, stagedVars,
       titleVars, cleanVars, faultVars
  <1>1. ASSUME NEW j \in Job, SkipPhase(j) PROVE FreshHolds'
    BY <1>1 DEF SkipPhase, Ask, Active
  <1>2. ASSUME NEW j \in Job, Signal(j) PROVE FreshHolds'
    BY <1>2 DEF Signal
  <1>3. ASSUME NEW p \in Process, Abort(p) PROVE FreshHolds'
    BY <1>3 DEF Abort, Ask
  <1>4. CASE ListSlots
    BY <1>4 DEF ListSlots
  <1>5. CASE TakeSlot
    BY <1>5 DEF TakeSlot
  <1>6. CASE LoseSlots
    BY <1>6 DEF LoseSlots
  <1>7. CASE HoldSlots
    BY <1>7 DEF HoldSlots
  <1>8. CASE ListWork
    BY <1>8 DEF ListWork
  <1>9. CASE EndClean
    BY <1>9 DEF EndClean
  <1>10. ASSUME NEW j \in Job, Drop(j) PROVE FreshHolds'
    BY <1>10 DEF Drop
  <1>11. ASSUME NEW name \in Name, Land(name) PROVE FreshHolds'
    BY <1>11 DEF Land, Late
  <1>12. ASSUME NEW gone \in {{p} : p \in Process} \cup {Process}, Crash(gone)
        PROVE  FreshHolds'
    BY <1>12 DEF Crash, Disowned
  <1> QED
    BY <1>1, <1>2, <1>3, <1>4, <1>5, <1>6, <1>7, <1>8, <1>9, <1>10, <1>11, <1>12
       DEF RewriteNext, Cleans

\* A rename or a removal never takes what its job did not judge, but for what another
\* process wrote after the job's last check (executor.apply_plan's checks under
\* ownership).
THEOREM NothingNewerIsLost == RewriteSpec => NothingNewerLost
  <1>1. RewriteInit => FreshHolds
    BY DEF RewriteInit, FreshHolds, Owning, Checked
  <1>2. RewriteTypeOK /\ FreshHolds /\ [RewriteNext]_rewriteVars => FreshHolds'
    <2> SUFFICES ASSUME RewriteTypeOK, FreshHolds, [RewriteNext]_rewriteVars PROVE FreshHolds'
      OBVIOUS
    <2>1. CASE RewriteNext
      BY <2>1, FreshWork, FreshRest
    <2>2. CASE UNCHANGED rewriteVars
      BY <2>2 DEF FreshHolds, SourceStands, TargetTaken, rewriteVars, titleVars
    <2> QED
      BY <2>1, <2>2
  <1>3. FreshHolds /\ [RewriteNext]_rewriteVars =>
          [\A j \in Job :
             /\ at[j] \in {"flushed", "landed"} /\ j \in mutated' \ mutated =>
                  j \in blind \/ (SourceStands(j) /\ ~TargetTaken(j))
             /\ at[j] = "published" /\ at'[j] = "closing" /\ file'["source"] = 0 =>
                  j \in blind \/ SourceStands(j)]_rewriteVars
    BY DEF FreshHolds, Checked
  <1> QED
    BY <1>1, <1>2, <1>3, RewriteTypeCorrect, PTL DEF RewriteSpec, NothingNewerLost

-----------------------------------------------------------------------------
(***************************************************************************)
(* Slots: a job has one for as long as its staged file lives, and a startup  *)
(* that means to drop files has every slot it knows of.                      *)
(***************************************************************************)
Slotted == {"slotted", "staged", "started", "registered", "encoding", "encoded", "verified",
            "owned", "checked", "committed", "flushed", "landed", "published", "closing"}

SlotsHold ==
  /\ \A j \in Job : /\ at[j] \in Slotted => \E s \in Slot : holder[s] = j
                    /\ temp[j] = "live" => at[j] \in Slotted \ {"slotted"}
  /\ cleaner # "sweeping" => doomed = {}
  /\ doomed # {} \/ (cleaner = "listing" /\ exclusive) => \A s \in wanted : holder[s] = Cleaner

\* A job's own step keeps the slots.
LEMMA SlotsWork ==
  ASSUME RewriteTypeOK, SlotsHold, NEW j \in Job, Works(j)
  PROVE  SlotsHold'
  <1> USE RewriteAssumption DEF RewriteTypeOK, SlotsHold, Slotted, Go, gateVars,
       slotVars, stagedVars, titleVars, cleanVars, faultVars
  <1>1. CASE Judge(j)
    BY <1>1 DEF Judge
  <1>2. CASE Begin(j)
    BY <1>2 DEF Begin
  <1>3. CASE Refusal(j)
    BY <1>3 DEF Refusal
  <1>4. CASE ClaimSlot(j)
    <2>1. PICK s \in 0..(Budget[Home[j]] - 1) :
                 holder[s] = Nobody /\ holder' = [holder EXCEPT ![s] = j]
      BY <1>4 DEF ClaimSlot
    <2>2. s \in Slot
      BY <2>1 DEF Slot
    <2>3. j \notin {Nobody, Cleaner} /\ Nobody # Cleaner
      OBVIOUS
    <2>4. holder'[s] = j /\ \A t \in Slot \ {s} : holder'[t] = holder[t]
      BY <2>1, <2>2
    <2> QED
      BY <1>4, <2>1, <2>2, <2>3, <2>4 DEF ClaimSlot
  <1>5. CASE StopWaiting(j)
    BY <1>5 DEF StopWaiting
  <1>6. CASE StageFile(j)
    BY <1>6 DEF StageFile
  <1>7. CASE Reject(j)
    BY <1>7 DEF Reject
  <1>8. CASE StartFfmpeg(j)
    BY <1>8 DEF StartFfmpeg
  <1>9. CASE AnswerSkip(j)
    BY <1>9 DEF AnswerSkip
  <1>10. CASE Encode(j)
    BY <1>10 DEF Encode
  <1>11. CASE Fail(j)
    BY <1>11 DEF Fail
  <1>12. CASE Own(j)
    BY <1>12 DEF Own
  <1>13. CASE Recheck(j)
    BY <1>13 DEF Recheck
  <1>14. CASE Commit(j)
    BY <1>14 DEF Commit
  <1>15. CASE Flush(j)
    BY <1>15 DEF Flush
  <1>16. CASE CopyAcross(j)
    BY <1>16 DEF CopyAcross
  <1>17. CASE Publish(j)
    BY <1>17 DEF Publish
  <1>18. CASE RemoveSource(j)
    BY <1>18 DEF RemoveSource
  <1>19. CASE Close(j)
    BY <1>19 DEF Close
  <1>20. CASE FreeSlot(j)
    BY <1>20 DEF FreeSlot
  <1>21. CASE Leave(j)
    BY <1>21 DEF Leave
  <1>22. CASE TagOrRewrite(j)
    BY <1>22 DEF TagOrRewrite
  <1>23. CASE EditTrack(j)
    BY <1>23 DEF EditTrack
  <1>24. CASE LeaveTrack(j)
    BY <1>24 DEF LeaveTrack
  <1> QED
    BY <1>1, <1>2, <1>3, <1>4, <1>5, <1>6, <1>7, <1>8, <1>9, <1>10, <1>11, <1>12,
       <1>13, <1>14, <1>15, <1>16, <1>17, <1>18, <1>19, <1>20, <1>21, <1>22,
       <1>23, <1>24
       DEF Works

\* The same of everything that is not a step of a job's own thread.
LEMMA SlotsRest ==
  ASSUME RewriteTypeOK, SlotsHold, RewriteNext, ~\E j \in Job : Works(j)
  PROVE  SlotsHold'
  <1> USE RewriteAssumption DEF RewriteTypeOK, SlotsHold, Slotted, Go, gateVars,
       slotVars, stagedVars, titleVars, cleanVars, faultVars
  <1>1. ASSUME NEW j \in Job, SkipPhase(j) PROVE SlotsHold'
    BY <1>1 DEF SkipPhase, Ask, Active
  <1>2. ASSUME NEW j \in Job, Signal(j) PROVE SlotsHold'
    BY <1>2 DEF Signal
  <1>3. ASSUME NEW p \in Process, Abort(p) PROVE SlotsHold'
    BY <1>3 DEF Abort, Ask
  <1>4. CASE ListSlots
    BY <1>4 DEF ListSlots
  <1>5. CASE TakeSlot
    BY <1>5 DEF TakeSlot
  <1>6. CASE LoseSlots
    BY <1>6 DEF LoseSlots
  <1>7. CASE HoldSlots
    BY <1>7 DEF HoldSlots
  <1>8. CASE ListWork
    BY <1>8 DEF ListWork
  <1>9. CASE EndClean
    BY <1>9 DEF EndClean
  <1>10. ASSUME NEW j \in Job, Drop(j) PROVE SlotsHold'
    BY <1>10 DEF Drop
  <1>11. ASSUME NEW name \in Name, Land(name) PROVE SlotsHold'
    BY <1>11 DEF Land
  <1>12. ASSUME NEW gone \in {{p} : p \in Process} \cup {Process}, Crash(gone)
        PROVE  SlotsHold'
    BY <1>12 DEF Crash
  <1> QED
    BY <1>1, <1>2, <1>3, <1>4, <1>5, <1>6, <1>7, <1>8, <1>9, <1>10, <1>11, <1>12
       DEF RewriteNext, Cleans

\* A staged file in use is covered by its writer's slot, and what a startup drops is
\* under none it knew of (processing.rewrite_slot, all_slots_held).
THEOREM CleanupIsSafe == RewriteSpec => []CleanupSparesWriters
  <1>1. RewriteInit => SlotsHold
    BY DEF RewriteInit, SlotsHold, Slotted
  <1>2. RewriteTypeOK /\ SlotsHold /\ [RewriteNext]_rewriteVars => SlotsHold'
    <2> SUFFICES ASSUME RewriteTypeOK, SlotsHold, [RewriteNext]_rewriteVars PROVE SlotsHold'
      OBVIOUS
    <2>1. CASE RewriteNext
      BY <2>1, SlotsWork, SlotsRest
    <2>2. CASE UNCHANGED rewriteVars
      BY <2>2 DEF SlotsHold, rewriteVars, slotVars, stagedVars, cleanVars
    <2> QED
      BY <2>1, <2>2
  <1>3. RewriteTypeOK /\ SlotsHold => CleanupSparesWriters
    BY RewriteAssumption DEF RewriteTypeOK, SlotsHold, CleanupSparesWriters, SlotsOf
  <1> QED
    BY <1>1, <1>2, <1>3, RewriteTypeCorrect, PTL DEF RewriteSpec
=============================================================================
