-------------------------------- MODULE Imports --------------------------------
(***************************************************************************)
(* Webhook deliveries: src/trackstarr/jobs.py, with the part of webhook.py   *)
(* that hands it files and the part of lifecycle.py it accounts through.    *)
(*                                                                         *)
(* A delivery opens a run and queues one job per file.  A worker that finds *)
(* a job's file still hard-linked by the download client parks it, in       *)
(* memory and on disk; a recheck thread hands it back once the link is gone.*)
(* The queue itself is Scheduler's: here a job is queued, handled and ended. *)
(***************************************************************************)
EXTENDS Integers, FiniteSets

CONSTANTS
  Jobs,    \* one file of one delivery
  RunOf,   \* job -> the run its delivery opened
  PathOf   \* job -> its file

Runs == {RunOf[j] : j \in Jobs}
Paths == {PathOf[j] : j \in Jobs}
Producers == {"webhook", "recheck"}
Nobody == "nobody"

ASSUME ImportsAssumption ==
  /\ DOMAIN RunOf = Jobs /\ DOMAIN PathOf = Jobs
  /\ Nobody \notin Jobs

VARIABLES
  linked,    \* files the download client still hard-links
  gone,      \* files that no longer exist
  parking,   \* SKIP_HARDLINKS is on
  inflight,  \* _inflight: paths with a job in the queue
  parked,    \* _parked: path -> its job, or Nobody
  disk,      \* parked.json
  unwritten, \* the last write of parked.json failed
  stage,     \* job -> where its admission stands
  lane,      \* job -> the lane of its phase
  skipped,   \* jobs taken off their run by hand
  open,      \* runs with a control
  filling,   \* runs the webhook is still handing files to
  stopping,  \* runs asked to stop
  closed,    \* shutdown began: no producer starts, nothing is admitted
  hook,      \* run -> where its delivery's request stands
  toHand,    \* run -> the delivery's jobs the request has not handed over yet
  handing,   \* producer -> job -> where the handover stands
  recheck,   \* the recheck thread: idle, or on a pass that releases the files
             \* "unlinked" since, or "all" with parking switched off
  batch,     \* parked jobs the pass has not looked at yet
  dirty,     \* the pass dropped a record and has not saved since
  owed       \* files parked and neither judged, given up nor gone since

queue == <<inflight, stage, lane, skipped>>
controls == <<open, filling, stopping, closed>>
records == <<parked, disk, unwritten>>
files == <<linked, gone, parking>>
request == <<hook, toHand>>
pass == <<recheck, batch, dirty>>
vars == <<files, queue, controls, records, request, handing, pass, owed>>

\* A job from its admission to its booking, which is what its run counts.
Unbooked == {j \in Jobs : stage[j] \in {"queued", "checked", "saving", "ending"}}

\* runs.retire: a sealed import goes once every admitted job is booked.
Retired(r, fills, unbooked) == r \notin fills /\ \A j \in unbooked : RunOf[j] # r

\* Mutants: a retired run's stop outlives its control; sealing leaves it to the
\* last booking to retire the run.
RetireKeepsStop(r, fills, unbooked) ==
  LET away == IF Retired(r, fills, unbooked) THEN {r} ELSE {}
  IN  open' = open \ away /\ stopping' = stopping
RetireOnlyBooked(r, fills, unbooked) ==
  LET away == IF Retired(r, fills, unbooked) /\ unbooked # Unbooked THEN {r} ELSE {}
  IN  open' = open \ away /\ stopping' = stopping \ away

\* retire_run, which forgets the stop with the control
Retire(r, fills, unbooked) ==
  LET away == IF Retired(r, fills, unbooked) THEN {r} ELSE {}
  IN  open' = open \ away /\ stopping' = stopping \ away

-----------------------------------------------------------------------------
(***************************************************************************)
(* Handing files over: the webhook's request and the recheck's release call *)
(* the same enqueue, each between opening and sealing the job's run.        *)
(***************************************************************************)
Hand(p, j, step) == handing' = [handing EXCEPT ![p][j] = step]

\* Handler._admit opens the delivery's run before the first file.
Receive(r) ==
  /\ hook[r] = "new"
  /\ IF closed
     THEN /\ hook' = [hook EXCEPT ![r] = "failed"]
          /\ UNCHANGED <<open, filling>>
     ELSE /\ hook' = [hook EXCEPT ![r] = "filling"]
          /\ open' = open \cup {r} /\ filling' = filling \cup {r}
  /\ UNCHANGED <<files, queue, stopping, closed, records, toHand, handing, pass, owed>>

\* ... then takes its files one by one; a file that is not there is ignored.
TakeFile(j) ==
  /\ hook[RunOf[j]] = "filling"
  /\ j \in toHand[RunOf[j]]
  /\ \A i \in Jobs : RunOf[i] = RunOf[j] => handing["webhook"][i] = "none"
  /\ toHand' = [toHand EXCEPT ![RunOf[j]] = @ \ {j}]
  /\ IF PathOf[j] \in gone THEN UNCHANGED handing ELSE Hand("webhook", j, "opened")
  /\ UNCHANGED <<files, queue, controls, records, hook, pass, owed>>

\* enqueue's claim: a path with a job in the queue already is turned away.
Claim(p, j) ==
  /\ handing[p][j] = "opened"
  /\ IF PathOf[j] \in inflight
     THEN Hand(p, j, IF p = "webhook" THEN "none" ELSE "sealing") /\ UNCHANGED inflight
     ELSE Hand(p, j, "claimed") /\ inflight' = inflight \cup {PathOf[j]}
  /\ UNCHANGED <<files, stage, lane, skipped, controls, records, request, pass, owed>>

\* What submit refuses.
Admissible(j) == ~closed /\ RunOf[j] \in open

\* lifecycle.submit_import: the job waits in the queue, counted on its run.
Submit(p, j) ==
  /\ handing[p][j] = "claimed"
  /\ Admissible(j)
  /\ stage' = [stage EXCEPT ![j] = "queued"]
  /\ lane' = [lane EXCEPT ![j] = "probe"]
  /\ Hand(p, j, IF p = "webhook" THEN "none" ELSE "sealing")
  /\ UNCHANGED <<files, inflight, skipped, controls, records, request, pass, owed>>

\* A refused admission gives its claim back.  It ends the webhook's request,
\* unsealed; the recheck puts the file back (PutBack).
Refused(p, j) ==
  /\ handing[p][j] = "claimed"
  /\ ~Admissible(j)
  /\ inflight' = inflight \ {PathOf[j]}
  /\ Hand(p, j, IF p = "webhook" THEN "none" ELSE "refused")
  /\ hook' = IF p = "webhook" THEN [hook EXCEPT ![RunOf[j]] = "failed"] ELSE hook
  /\ UNCHANGED <<files, stage, lane, skipped, controls, records, toHand, pass, owed>>

\* lifecycle.seal, and the retirement it may bring
Seal(r) ==
  /\ filling' = filling \ {r}
  /\ Retire(r, filling \ {r}, Unbooked)
  /\ UNCHANGED closed

\* The delivery's run is sealed after its last file.
SealRequest(r) ==
  /\ hook[r] = "filling"
  /\ toHand[r] = {}
  /\ \A j \in Jobs : RunOf[j] = r => handing["webhook"][j] = "none"
  /\ hook' = [hook EXCEPT ![r] = "answered"]
  /\ Seal(r)
  /\ UNCHANGED <<files, queue, records, toHand, handing, pass, owed>>

-----------------------------------------------------------------------------
(***************************************************************************)
(* A worker's way through a job, in either lane.                            *)
(***************************************************************************)
Step(j, from, to) == stage[j] = from /\ stage' = [stage EXCEPT ![j] = to]

\* A worker takes the job, and _handle drops that of a stopping run and leaves a skipped one alone ...
LeaveAlone(j) ==
  /\ RunOf[j] \in stopping \/ j \in skipped
  /\ Step(j, "queued", "ending")
  /\ owed' = owed \ {PathOf[j]}
  /\ UNCHANGED <<files, inflight, lane, skipped, controls, records, request, handing,
                 pass>>

\* ... and looks at the file otherwise, whatever is asked of it from here on.
Check(j) ==
  /\ RunOf[j] \notin stopping /\ j \notin skipped
  /\ Step(j, "queued", "checked")
  /\ UNCHANGED <<files, inflight, lane, skipped, controls, records, request, handing,
                 pass, owed>>

Seeded(j) == parking /\ PathOf[j] \in linked \ gone

\* park: the record, then the file it is persisted in
Park(j) ==
  /\ Seeded(j)
  /\ Step(j, "checked", "saving")
  /\ parked' = [parked EXCEPT ![PathOf[j]] = j]
  /\ owed' = owed \cup {PathOf[j]}
  /\ UNCHANGED <<files, inflight, lane, skipped, controls, disk, unwritten, request,
                 handing, pass>>

\* Mutant: what is written is the set as it stood without this job.
SaveStale(written) ==
  /\ disk' = [p \in Paths |-> IF disk[p] = Nobody THEN Nobody ELSE written[p]]
  /\ unwritten' = FALSE

\* _save_parked: the lock covers the snapshot and the write, which may fail.
Save(written) == \/ disk' = written /\ unwritten' = FALSE
                 \/ UNCHANGED disk /\ unwritten' = TRUE

SaveParked(j) ==
  /\ Step(j, "saving", "ending")
  /\ Save(parked)
  /\ UNCHANGED <<files, inflight, lane, skipped, controls, parked, request, handing,
                 pass, owed>>

\* process: a discovery that needs a rewrite queues it, everything else is the
\* job's verdict.
Continues(j) ==
  /\ lane[j] = "probe" /\ PathOf[j] \notin gone
  /\ Step(j, "checked", "queued")
  /\ lane' = [lane EXCEPT ![j] = "work"]
Judged(j) == Step(j, "checked", "ending") /\ UNCHANGED lane

Process(j) ==
  /\ ~Seeded(j)
  /\ \/ Continues(j) /\ UNCHANGED owed
     \/ Judged(j) /\ owed' = owed \ {PathOf[j]}
  /\ UNCHANGED <<files, inflight, skipped, controls, records, request, handing, pass>>

\* The job's terminal callback books it once, which may retire its run ...
Book(j) ==
  /\ Step(j, "ending", "booked")
  /\ skipped' = skipped \ {j}
  /\ Retire(RunOf[j], filling, Unbooked \ {j})
  /\ UNCHANGED <<files, inflight, lane, filling, closed, records, request, handing, pass,
                 owed>>

\* Mutant: the claim on the path goes with the discovery, before the rewrite.
EarlyUnclaim(j) ==
  /\ IF stage[j] = "queued" THEN lane[j] = "work" /\ UNCHANGED stage ELSE Step(j, "booked", "absent")
  /\ inflight' = inflight \ {PathOf[j]}
  /\ UNCHANGED <<files, lane, skipped, controls, records, request, handing, pass, owed>>

\* ... and only then gives the path back.
Unclaim(j) ==
  /\ Step(j, "booked", "absent")
  /\ inflight' = inflight \ {PathOf[j]}
  /\ UNCHANGED <<files, lane, skipped, controls, records, request, handing, pass, owed>>

-----------------------------------------------------------------------------
(***************************************************************************)
(* The recheck thread.                                                     *)
(***************************************************************************)
InHand == {j \in Jobs : handing["recheck"][j] # "none"}

\* recheck_parked reads the setting once, and takes a list of what is parked,
\* under a producer's lease.
Begin ==
  /\ ~closed
  /\ recheck = "idle"
  /\ recheck' = IF parking THEN "unlinked" ELSE "all"
  /\ batch' = {parked[p] : p \in Paths} \ {Nobody}
  /\ UNCHANGED <<files, queue, controls, records, request, handing, dirty, owed>>

StaysParked(j) == recheck = "unlinked" /\ PathOf[j] \in linked \ gone

\* A job whose file is still seeded stays parked ...
LeaveParked(j) ==
  /\ recheck # "idle" /\ InHand = {}
  /\ j \in batch
  /\ StaysParked(j)
  /\ batch' = batch \ {j}
  /\ UNCHANGED <<files, queue, controls, records, request, handing, recheck, dirty, owed>>

\* Mutant: a file is looked at only while it is still there to be linked.
FindLinked(j) ==
  /\ recheck # "idle" /\ InHand = {}
  /\ j \in batch
  /\ ~StaysParked(j) /\ PathOf[j] \in linked
  /\ batch' = batch \ {j}
  /\ Hand("recheck", j, "found")
  /\ UNCHANGED <<files, queue, controls, records, request, recheck, dirty, owed>>

\* ... and one whose link is gone is released.
Find(j) ==
  /\ recheck # "idle" /\ InHand = {}
  /\ j \in batch
  /\ ~StaysParked(j)
  /\ batch' = batch \ {j}
  /\ Hand("recheck", j, "found")
  /\ UNCHANGED <<files, queue, controls, records, request, recheck, dirty, owed>>

\* The record goes first, whichever job it holds by now.
Pop(j) ==
  /\ handing["recheck"][j] = "found"
  /\ parked' = [parked EXCEPT ![PathOf[j]] = Nobody]
  /\ dirty' = TRUE
  /\ Hand("recheck", j, "popped")
  /\ UNCHANGED <<files, queue, controls, disk, unwritten, request, recheck, batch,
                 owed>>

\* A file that disappeared is dropped; the others reopen their delivery's run.
Vanished(j) ==
  /\ handing["recheck"][j] = "popped"
  /\ PathOf[j] \in gone
  /\ Hand("recheck", j, "none")
  /\ owed' = owed \ {PathOf[j]}
  /\ UNCHANGED <<files, queue, controls, records, request, pass>>

Reopen(j) ==
  /\ handing["recheck"][j] = "popped"
  /\ PathOf[j] \notin gone
  /\ IF closed
     THEN Hand("recheck", j, "refused") /\ UNCHANGED open
     ELSE Hand("recheck", j, "opened") /\ open' = open \cup {RunOf[j]}
  /\ UNCHANGED <<files, queue, filling, stopping, closed, records, request, pass, owed>>

\* The run is sealed again for this one file.
SealRelease(j) ==
  /\ handing["recheck"][j] = "sealing"
  /\ Hand("recheck", j, "none")
  /\ Seal(RunOf[j])
  /\ UNCHANGED <<files, queue, records, request, pass, owed>>

\* A refused file is put back, unless its path was parked again meanwhile, and
\* the pass ends.
PutBack(j) ==
  /\ handing["recheck"][j] = "refused"
  /\ parked' = [parked EXCEPT ![PathOf[j]] = IF @ = Nobody THEN j ELSE @]
  /\ batch' = {}
  /\ Hand("recheck", j, "none")
  /\ UNCHANGED <<files, queue, controls, disk, unwritten, request, recheck, dirty,
                 owed>>

\* The pass saves once, if it dropped anything.
Finish ==
  /\ recheck # "idle" /\ batch = {} /\ InHand = {}
  /\ recheck' = "idle"
  /\ dirty' = FALSE
  /\ IF dirty THEN Save(parked) ELSE UNCHANGED <<disk, unwritten>>
  /\ UNCHANGED <<files, queue, controls, parked, request, handing, batch, owed>>

-----------------------------------------------------------------------------
(***************************************************************************)
(* What happens around them: the download client, the operator, the end of  *)
(* the process.                                                            *)
(***************************************************************************)
Unlink(p) ==
  /\ p \in linked
  /\ linked' = linked \ {p}
  /\ UNCHANGED <<gone, parking, queue, controls, records, request, handing, pass, owed>>

Vanish(p) ==
  /\ p \notin gone
  /\ gone' = gone \cup {p}
  /\ UNCHANGED <<linked, parking, queue, controls, records, request, handing, pass, owed>>

SetParking ==
  /\ parking' = ~parking
  /\ UNCHANGED <<linked, gone, queue, controls, records, request, handing, pass, owed>>

StopRun(r) ==
  /\ r \in open \ stopping
  /\ stopping' = stopping \cup {r}
  /\ UNCHANGED <<files, queue, open, filling, closed, records, request, handing, pass,
                 owed>>

\* A command only names a file its run still has a task for.
SkipFile(j) ==
  /\ stage[j] \in {"queued", "checked", "saving"} /\ j \notin skipped
  /\ skipped' = skipped \cup {j}
  /\ UNCHANGED <<files, inflight, stage, lane, controls, records, request, handing, pass,
                 owed>>

\* lifecycle.shutdown closes the producers and the queue in one step.
Close ==
  /\ ~closed
  /\ closed' = TRUE
  /\ UNCHANGED <<files, queue, open, filling, stopping, records, request, handing, pass,
                 owed>>

\* The process dies, at any moment, and starts again from parked.json.
Restart ==
  /\ inflight' = {} /\ skipped' = {}
  /\ stage' = [j \in Jobs |-> "absent"] /\ lane' = [j \in Jobs |-> "probe"]
  /\ open' = {} /\ filling' = {} /\ stopping' = {} /\ closed' = FALSE
  /\ parked' = disk /\ unwritten' = FALSE
  /\ hook' = [r \in Runs |-> IF hook[r] = "new" THEN "new" ELSE "failed"]
  /\ toHand' = [r \in Runs |-> IF hook[r] = "new" THEN toHand[r] ELSE {}]
  /\ handing' = [p \in Producers |-> [j \in Jobs |-> "none"]]
  /\ recheck' = "idle" /\ batch' = {} /\ dirty' = FALSE
  /\ owed' = {p \in owed : disk[p] # Nobody}
  /\ UNCHANGED <<files, disk>>

-----------------------------------------------------------------------------
Init ==
  /\ linked \in SUBSET Paths /\ gone = {} /\ parking = TRUE
  /\ inflight = {} /\ skipped = {}
  /\ stage = [j \in Jobs |-> "absent"] /\ lane = [j \in Jobs |-> "probe"]
  /\ open = {} /\ filling = {} /\ stopping = {} /\ closed = FALSE
  /\ parked = [p \in Paths |-> Nobody] /\ disk = parked /\ unwritten = FALSE
  /\ hook = [r \in Runs |-> "new"]
  /\ toHand = [r \in Runs |-> {j \in Jobs : RunOf[j] = r}]
  /\ handing = [p \in Producers |-> [j \in Jobs |-> "none"]]
  /\ recheck = "idle" /\ batch = {} /\ dirty = FALSE
  /\ owed = {}

HandOver(p, j) == Claim(p, j) \/ Submit(p, j) \/ Refused(p, j)

Webhook == \/ \E r \in Runs : Receive(r) \/ SealRequest(r)
           \/ \E j \in Jobs : TakeFile(j) \/ HandOver("webhook", j)

Work(j) == \/ LeaveAlone(j) \/ Check(j) \/ Park(j) \/ SaveParked(j)
           \/ Process(j) \/ Book(j) \/ Unclaim(j)
Release(j) == Pop(j) \/ Vanished(j) \/ Reopen(j) \/ SealRelease(j) \/ PutBack(j)
Rechecking == \/ Begin \/ Finish
              \/ \E j \in Jobs : \/ LeaveParked(j) \/ Find(j) \/ Release(j)
                               \/ HandOver("recheck", j)
Around == \/ \E p \in Paths : Unlink(p) \/ Vanish(p)
          \/ SetParking
          \/ \E r \in Runs : StopRun(r)
          \/ \E j \in Jobs : SkipFile(j)
          \/ Close

Next == Webhook \/ (\E j \in Jobs : Work(j)) \/ Rechecking \/ Around \/ Restart

Spec == Init /\ [][Next]_vars

-----------------------------------------------------------------------------
(***************************************************************************)
(* Properties.                                                             *)
(***************************************************************************)

\* Every variable holds what the code puts there.
TypeOK ==
  /\ linked \subseteq Paths /\ gone \subseteq Paths /\ parking \in BOOLEAN
  /\ inflight \subseteq Paths /\ skipped \subseteq Jobs
  /\ stage \in [Jobs -> {"absent", "queued", "checked", "saving", "ending",
                         "booked"}]
  /\ lane \in [Jobs -> {"probe", "work"}]
  /\ open \subseteq Runs /\ filling \subseteq Runs /\ stopping \subseteq open
  /\ closed \in BOOLEAN
  /\ parked \in [Paths -> Jobs \cup {Nobody}] /\ disk \in [Paths -> Jobs \cup {Nobody}]
  /\ unwritten \in BOOLEAN
  /\ hook \in [Runs -> {"new", "filling", "answered", "failed"}]
  /\ toHand \in [Runs -> SUBSET Jobs]
  /\ handing \in [Producers -> [Jobs -> {"none", "found", "popped", "opened", "claimed",
                                          "sealing", "refused"}]]
  /\ recheck \in {"idle", "unlinked", "all"} /\ batch \subseteq Jobs /\ dirty \in BOOLEAN
  /\ owed \subseteq Paths

\* The ways a job can hold a claim on its path, from enqueue to its callback.
Claims(j) == {p \in Producers : handing[p][j] = "claimed"}
               \cup (IF stage[j] = "absent" THEN {} ELSE {"queue"})

\* _inflight is what keeps a path to one job and a job to one admission, from
\* whichever delivery or recheck it comes, through discovery, rewrite and booking.
OneJobPerPath ==
  /\ inflight = {PathOf[j] : j \in {i \in Jobs : Claims(i) # {}}}
  /\ \A i, j \in Jobs : Claims(i) # {} /\ Claims(j) # {} /\ PathOf[i] = PathOf[j] => i = j
  /\ \A j \in Jobs : \A p, q \in Claims(j) : p = q

\* parked.json is the parked set, unless a thread is on its way to save it or the
\* last write failed: a restart loses no parked delivery (_save_parked, load_parked).
DiskFollowsMemory ==
  disk = parked \/ unwritten \/ dirty \/ \E j \in Jobs : stage[j] = "saving"

\* While the service runs, a delivery's run stays on the overview only while it
\* is being filled, or has a job that was not booked, or is being handed one.
NoIdleRuns ==
  \A r \in open : \/ closed
                   \/ hook[r] = "filling"
                   \/ \E j \in Jobs : RunOf[j] = r /\ (j \in Unbooked \/ j \in InHand)

\* jobs._release says a parked record is "the only copy of a delivery nobody will
\* send again": until the file is judged, given up or gone, somebody holds it.
ParkedNeverStranded ==
  \A p \in owed : \/ parked[p] # Nobody
                   \/ \E j \in Jobs : PathOf[j] = p /\
                         (j \in InHand \/ stage[j] \in {"queued", "checked"}
                            \/ handing["webhook"][j] = "claimed")

\* webhook.py opens a delivery's run "before the first file" and seals it "after
\* the last": while the service runs, no file of the delivery is turned away.
DeliveryAdmittedWhole ==
  \A j \in Jobs : handing["webhook"][j] = "claimed" /\ ~closed => RunOf[j] \in open

-----------------------------------------------------------------------------
\* The recheck thread revisits the parked set for as long as the process lives,
\* and workers, callbacks and requests go on.
Fairness ==
  /\ WF_vars(Webhook) /\ WF_vars(Rechecking)
  /\ \A j \in Jobs : WF_vars(Work(j))

\* A parked file whose link is gone is released, unless the process ends first.
ParkedIsReleased ==
  \A p \in Paths : (parked[p] # Nobody /\ p \notin linked)
                     ~> (parked[p] = Nobody \/ closed)
=============================================================================
