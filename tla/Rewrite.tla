------------------------------- MODULE Rewrite -------------------------------
(***************************************************************************)
(* Rewriting one title: src/trackstarr/executor.py, with the slots and the  *)
(* edit in place of processing.py, the page's edit of retag.py and the      *)
(* header edit of mkvtag.py.                                                *)
(*                                                                         *)
(* A job judges the title's source and then rewrites it, remuxes it to the  *)
(* output's name, or edits its header in place.  Jobs of one process share a *)
(* registry of running ffmpegs and the ownership of the title; jobs of       *)
(* different processes share only the disk and the slot locks.  A file is    *)
(* the number of the write that made it, 0 where there is none: every write  *)
(* moves the size or the mtime a signature is made of.                       *)
(***************************************************************************)
EXTENDS Integers, FiniteSets

CONSTANTS
  Job,          \* phases of the queue and requests of a page, each with its Cancel
  Process,      \* serve, and a sweep run beside it
  Server,       \* the process that cleans the work directory as it starts
  Home,         \* job -> its process
  Kinds,        \* job -> what it may find there is to do
  Budget,       \* process -> MAX_CONCURRENT_REWRITES as it reads it
  Nobody,       \* no owner, no holder
  Cleaner,      \* the startup of Server, as a holder of slots
  MaxLandings,  \* bound on the outside writes
  MaxCrashes    \* bound on the crashes

Kind == {"rewrite", "remux", "tag", "edit"}

ASSUME RewriteAssumption ==
  /\ Home \in [Job -> Process] /\ Server \in Process
  /\ Kinds \in [Job -> SUBSET Kind]
  /\ Budget \in [Process -> Nat \ {0}]
  /\ {Nobody, Cleaner} \cap Job = {} /\ Nobody # Cleaner

VARIABLES
  at,         \* job -> how far its thread is
  kind,       \* job -> what it does to the title
  judged,     \* job -> the source it judged: the plan's src_signature
  asked,      \* jobs whose Cancel is marked
  committed,  \* jobs past the gate of their Cancel
  prevented,  \* jobs a skip was told it stopped in time
  skipping,   \* jobs a skip has marked and not yet looked up in the registry
  signalled,  \* jobs whose ffmpeg was sent SIGTERM
  mutated,    \* jobs that changed the library
  holder,     \* slot -> who has its lock
  slotFiles,  \* slots whose lock file exists
  temp,       \* job -> its staged file
  synced,     \* jobs whose staged file is on the disk, not only in its cache
  orphans,    \* jobs whose staged file outlived them
  owner,      \* process -> the job changing the title there
  file,       \* name -> the write that made the file
  latest,     \* the last write
  blind,      \* jobs whose last check is older than a write from outside their process
  soft,       \* names whose content is only in the disk's cache
  torn,       \* names a power cut left with half a file
  cleaner, exclusive, wanted, doomed,  \* the startup's progress and what it goes by
  landings, crashes                    \* bounded counters

gateVars == <<asked, committed, prevented, skipping, signalled, mutated>>
slotVars == <<holder, slotFiles>>
stagedVars == <<temp, synced, orphans>>
titleVars == <<owner, file, latest, blind, soft, torn>>
cleanVars == <<cleaner, exclusive, wanted, doomed>>
faultVars == <<landings, crashes>>
rewriteVars == <<at, kind, judged, gateVars, slotVars, stagedVars, titleVars, cleanVars, faultVars>>

Name == {"source", "output"}
Slot == UNION {0..(Budget[p] - 1) : p \in Process}
Stage == {"idle", "judged", "begun", "cleared", "slotted", "staged", "started",
          "registered", "encoding", "encoded", "verified", "owned", "tagging",
          "editing", "checked", "committed", "flushed", "landed", "published",
          "closing", "freeing", "leaving", "done"}

\* Whether the registry of running ffmpegs lists the job's.
Registered(j) == at[j] \in {"registered", "encoding"}
IsRewriting(p) == \E j \in Job : Home[j] = p /\ Registered(j)

\* Where a job that rewrites publishes.
Target(j) == IF kind[j] = "remux" THEN "output" ELSE "source"
TargetTaken(j) == kind[j] = "remux" /\ file["output"] # 0
SourceStands(j) == file["source"] = judged[j]
\* The edits of a page have no Cancel: nothing can stop them.
Stoppable(j) == kind[j] # "edit"

Go(j, stage) == at' = [at EXCEPT ![j] = stage]

\* Jobs past their last look at the files.
Late == {j \in Job : at[j] \in {"checked", "committed", "flushed", "landed", "published"}}
Blinds(p) == blind' = blind \cup {j \in Late : Home[j] # p}

Writes(name, p) ==
  /\ latest' = latest + 1
  /\ file' = [file EXCEPT ![name] = latest + 1]
  /\ Blinds(p)

(***************************************************************************)
(* Judging, and the ways out before the file starts changing.               *)
(***************************************************************************)
\* An observation begins once nobody owns the title; the plan is a read.
Judge(j) ==
  /\ at[j] = "idle" /\ owner[Home[j]] = Nobody /\ file["source"] # 0
  /\ Home[j] = Server => cleaner = "off"
  /\ \E k \in Kinds[j] : kind' = [kind EXCEPT ![j] = k]
  /\ judged' = [judged EXCEPT ![j] = file["source"]]
  /\ Go(j, "judged")
  /\ UNCHANGED <<gateVars, slotVars, stagedVars, titleVars, cleanVars, faultVars>>

\* A skip that arrived during the probe stops the job here.
Begin(j) ==
  /\ at[j] = "judged" /\ Stoppable(j)
  /\ Go(j, IF j \in asked THEN "leaving" ELSE "begun")
  /\ UNCHANGED <<kind, judged, gateVars, slotVars, stagedVars, titleVars, cleanVars, faultVars>>

\* A page's edit is refused if the file moved since the page read it, or an ffmpeg
\* of this process reads it.
Refusal(j) ==
  /\ at[j] = "judged" /\ ~Stoppable(j)
  /\ Go(j, IF SourceStands(j) /\ ~IsRewriting(Home[j]) THEN "cleared" ELSE "leaving")
  /\ UNCHANGED <<kind, judged, gateVars, slotVars, stagedVars, titleVars, cleanVars, faultVars>>

(***************************************************************************)
(* Slots.                                                                   *)
(***************************************************************************)
SlotsOf(j) == {s \in Slot : holder[s] = j}

\* Slots are tried in turn, which makes the files of those before; a lock taken for
\* a job that was skipped meanwhile is given back by Reject.
ClaimSlot(j) ==
  /\ at[j] = "begun" /\ kind[j] \in {"rewrite", "remux"} /\ j \notin asked
  /\ \E s \in 0..(Budget[Home[j]] - 1) :
       /\ holder[s] = Nobody
       /\ holder' = [holder EXCEPT ![s] = j]
       /\ slotFiles' = slotFiles \cup 0..s
  /\ Go(j, "slotted")
  /\ UNCHANGED <<kind, judged, gateVars, stagedVars, titleVars, cleanVars, faultVars>>

\* A job waiting for a slot, or for the title, hears a skip.
StopWaiting(j) ==
  /\ j \in asked
  /\ \/ at[j] = "begun" /\ (kind[j] # "tag" \/ owner[Home[j]] # Nobody)
     \/ at[j] = "verified" /\ owner[Home[j]] # Nobody
  /\ Go(j, IF at[j] = "begun" THEN "leaving" ELSE "closing")
  /\ UNCHANGED <<kind, judged, gateVars, slotVars, stagedVars, titleVars, cleanVars, faultVars>>

(***************************************************************************)
(* Staging and encoding.                                                    *)
(***************************************************************************)
StageFile(j) ==
  /\ at[j] = "slotted" /\ j \notin asked
  /\ ~TargetTaken(j) /\ SourceStands(j)
  /\ temp' = [temp EXCEPT ![j] = "live"]
  /\ Go(j, "staged")
  /\ UNCHANGED <<kind, judged, gateVars, slotVars, synced, orphans, titleVars, cleanVars, faultVars>>

\* Skipped, the target taken, the source moved, or no room to stage.
Reject(j) ==
  /\ at[j] = "slotted" /\ Go(j, "freeing")
  /\ UNCHANGED <<kind, judged, gateVars, slotVars, stagedVars, titleVars, cleanVars, faultVars>>

\* ffmpeg starts, and only then is registered; a failure between the two kills it.
StartFfmpeg(j) ==
  /\ at[j] \in {"staged", "started"}
  /\ Go(j, IF at[j] = "staged" THEN "started" ELSE "registered")
  /\ UNCHANGED <<kind, judged, gateVars, slotVars, stagedVars, titleVars, cleanVars, faultVars>>

AnswerSkipNever(j) ==
  /\ at[j] = "registered" /\ Go(j, "encoding")
  /\ UNCHANGED <<kind, judged, gateVars, slotVars, stagedVars, titleVars, cleanVars, faultVars>>

\* A skip whose signal found nothing registered is answered here.
AnswerSkip(j) ==
  /\ at[j] = "registered"
  /\ signalled' = IF j \in asked THEN signalled \cup {j} ELSE signalled
  /\ Go(j, "encoding")
  /\ UNCHANGED <<kind, judged, asked, committed, prevented, skipping, mutated,
                 slotVars, stagedVars, titleVars, cleanVars, faultVars>>

\* It ends well, even where a signal came too late for it, and its output verifies.
Encode(j) ==
  /\ \/ at[j] = "encoding" /\ Go(j, "encoded")
     \/ at[j] = "encoded" /\ temp[j] = "live" /\ Go(j, "verified")
  /\ UNCHANGED <<kind, judged, gateVars, slotVars, stagedVars, titleVars, cleanVars, faultVars>>

\* Killed, broken, timed out; a result that does not verify, a failed flush or copy.
Fail(j) ==
  /\ at[j] \in {"staged", "started", "encoding", "encoded", "committed", "flushed", "landed"}
  /\ Go(j, "closing")
  /\ UNCHANGED <<kind, judged, gateVars, slotVars, stagedVars, titleVars, cleanVars, faultVars>>

(***************************************************************************)
(* Owning the title and publishing.                                         *)
(***************************************************************************)
Own(j) ==
  /\ \/ at[j] = "verified" /\ Go(j, "owned")
     \/ at[j] = "begun" /\ kind[j] = "tag" /\ Go(j, "tagging")
     \/ at[j] = "cleared" /\ Go(j, "editing")
  /\ owner[Home[j]] = Nobody
  /\ owner' = [owner EXCEPT ![Home[j]] = j]
  /\ UNCHANGED <<kind, judged, gateVars, slotVars, stagedVars, file, latest, blind, soft, torn,
                 cleanVars, faultVars>>

RecheckTarget(j) ==
  /\ at[j] = "owned"
  /\ Go(j, IF ~TargetTaken(j) THEN "checked" ELSE "closing")
  /\ UNCHANGED <<kind, judged, gateVars, slotVars, stagedVars, titleVars, cleanVars, faultVars>>

\* The checks a wait may have made stale, made again under ownership.
Recheck(j) ==
  /\ at[j] = "owned"
  /\ Go(j, IF SourceStands(j) /\ ~TargetTaken(j) THEN "checked" ELSE "closing")
  /\ UNCHANGED <<kind, judged, gateVars, slotVars, stagedVars, titleVars, cleanVars, faultVars>>

MayCommitAnyway(j) == j \in Job

\* The gate: a skip is either before the mutation and prevents it, or after.
MayCommit(j) == j \notin asked \/ j \in committed

Commit(j) ==
  /\ at[j] = "checked"
  /\ committed' = IF MayCommit(j) THEN committed \cup {j} ELSE committed
  /\ Go(j, IF MayCommit(j) THEN "committed" ELSE "closing")
  /\ UNCHANGED <<kind, judged, asked, prevented, skipping, signalled, mutated,
                 slotVars, stagedVars, titleVars, cleanVars, faultVars>>

FlushLater(j) ==
  /\ at[j] = "committed" /\ temp[j] = "live" /\ Go(j, "flushed")
  /\ UNCHANGED <<kind, judged, gateVars, slotVars, stagedVars, titleVars, cleanVars, faultVars>>

Flush(j) ==
  /\ at[j] = "committed" /\ temp[j] = "live"
  /\ synced' = synced \cup {j}
  /\ Go(j, "flushed")
  /\ UNCHANGED <<kind, judged, gateVars, slotVars, temp, orphans, titleVars, cleanVars, faultVars>>

\* Onto another filesystem: copied beside the target, and flushed there.
CopyAcross(j) ==
  /\ at[j] = "flushed" /\ temp[j] = "live" /\ Go(j, "landed")
  /\ UNCHANGED <<kind, judged, gateVars, slotVars, stagedVars, titleVars, cleanVars, faultVars>>

Publish(j) ==
  /\ at[j] = "landed" \/ (at[j] = "flushed" /\ temp[j] = "live")
  /\ Writes(Target(j), Home[j])
  /\ soft' = IF j \in synced THEN soft \ {Target(j)} ELSE soft \cup {Target(j)}
  /\ temp' = [temp EXCEPT ![j] = "none"]
  /\ mutated' = mutated \cup {j}
  /\ Go(j, IF kind[j] = "remux" THEN "published" ELSE "closing")
  /\ UNCHANGED <<kind, judged, asked, committed, prevented, skipping, signalled, slotVars,
                 synced, orphans, owner, torn, cleanVars, faultVars>>

\* A source that cannot be removed is left to the next sweep.
RemoveSource(j) ==
  /\ at[j] = "published"
  /\ \/ file' = [file EXCEPT !["source"] = 0] /\ Blinds(Home[j])
     \/ UNCHANGED <<file, blind>>
  /\ Go(j, "closing")
  /\ UNCHANGED <<kind, judged, gateVars, slotVars, stagedVars, owner, latest, soft, torn,
                 cleanVars, faultVars>>

CloseSlotFirst(j) ==
  /\ at[j] = "closing"
  /\ holder' = [s \in Slot |-> IF holder[s] = j THEN Nobody ELSE holder[s]]
  /\ Go(j, "freeing")
  /\ UNCHANGED <<kind, judged, gateVars, slotFiles, stagedVars, titleVars, cleanVars, faultVars>>

\* The staged file goes before the slot that protects it, the title last.
Close(j) ==
  /\ at[j] = "closing"
  /\ temp' = [temp EXCEPT ![j] = "none"]
  /\ Go(j, "freeing")
  /\ UNCHANGED <<kind, judged, gateVars, slotVars, synced, orphans, titleVars, cleanVars, faultVars>>

FreeSlot(j) ==
  /\ at[j] = "freeing"
  /\ holder' = [s \in Slot |-> IF holder[s] = j THEN Nobody ELSE holder[s]]
  /\ Go(j, "leaving")
  /\ UNCHANGED <<kind, judged, gateVars, slotFiles, stagedVars, titleVars, cleanVars, faultVars>>

Disowned(jobs) == [p \in Process |-> IF owner[p] \in jobs THEN Nobody ELSE owner[p]]

Leave(j) ==
  /\ at[j] = "leaving"
  /\ owner' = Disowned({j})
  /\ Go(j, "done")
  /\ UNCHANGED <<kind, judged, gateVars, slotVars, stagedVars, file, latest, blind, soft, torn,
                 cleanVars, faultVars>>

(***************************************************************************)
(* Edits in place.                                                          *)
(***************************************************************************)
\* Hardlinked, no tools, or under an ffmpeg: the rewrite will write the tag.
TagOrRewrite(j) ==
  /\ at[j] = "tagging"
  /\ \/ ~IsRewriting(Home[j]) /\ Go(j, "editing") /\ UNCHANGED <<kind, owner>>
     \/ /\ owner' = Disowned({j})
        /\ kind' = [kind EXCEPT ![j] = "rewrite"]
        /\ Go(j, "begun")
  /\ UNCHANGED <<judged, gateVars, slotVars, stagedVars, file, latest, blind, soft, torn,
                 cleanVars, faultVars>>

\* The header is read again and written; a tool that fails may have written too.
EditTrack(j) ==
  /\ at[j] = "editing" /\ file["source"] # 0 /\ MayCommit(j)
  /\ committed' = IF Stoppable(j) THEN committed \cup {j} ELSE committed
  /\ mutated' = mutated \cup {j}
  /\ Writes("source", Home[j])
  /\ Go(j, "leaving")
  /\ UNCHANGED <<kind, judged, asked, prevented, skipping, signalled, slotVars, stagedVars,
                 owner, soft, torn, cleanVars, faultVars>>

\* Refused, found written already, stopped at the gate, or failed before it began.
LeaveTrack(j) ==
  /\ at[j] = "editing" /\ Go(j, "leaving")
  /\ UNCHANGED <<kind, judged, gateVars, slotVars, stagedVars, titleVars, cleanVars, faultVars>>

(***************************************************************************)
(* Skips and aborts.                                                        *)
(***************************************************************************)
\* Marks the jobs, and answers which of them it was in time for.
Ask(jobs) ==
  /\ asked' = asked \cup jobs
  /\ prevented' = prevented \cup (jobs \ committed)
  /\ skipping' = skipping \cup (jobs \ committed)
  /\ UNCHANGED <<at, kind, judged, committed, signalled, mutated, slotVars, stagedVars,
                 titleVars, cleanVars, faultVars>>

Active(j) == at[j] \notin {"idle", "done"} /\ Stoppable(j)

SkipPhase(j) == Active(j) /\ j \notin asked /\ Ask({j})

\* Every ffmpeg of the process, marked under the registry's lock.
Abort(p) ==
  LET running == {j \in Job : Home[j] = p /\ Registered(j)}
  IN running \ asked # {} /\ Ask(running)

\* What is registered is signalled; what is not yet will find its mark.
Signal(j) ==
  /\ j \in skipping
  /\ skipping' = skipping \ {j}
  /\ signalled' = IF Registered(j) THEN signalled \cup {j} ELSE signalled
  /\ UNCHANGED <<at, kind, judged, asked, committed, prevented, mutated, slotVars, stagedVars,
                 titleVars, cleanVars, faultVars>>

(***************************************************************************)
(* Startup: the work directory is cleaned, under every slot if it can be.   *)
(***************************************************************************)
Starting == \A j \in Job : Home[j] = Server => at[j] = "idle"

ListSlots ==
  /\ cleaner = "off" /\ Starting
  /\ wanted' = 0..(Budget[Server] - 1) \cup slotFiles
  /\ cleaner' = "locking"
  /\ UNCHANGED <<at, kind, judged, gateVars, slotVars, stagedVars, titleVars, exclusive, doomed, faultVars>>

TakeSlot ==
  /\ cleaner = "locking"
  /\ \E s \in wanted :
       /\ holder[s] = Nobody /\ \A t \in wanted : t < s => holder[t] = Cleaner
       /\ holder' = [holder EXCEPT ![s] = Cleaner]
       /\ slotFiles' = slotFiles \cup {s}
  /\ UNCHANGED <<at, kind, judged, gateVars, stagedVars, titleVars, cleanVars, faultVars>>

\* A slot held elsewhere gives them all up.
LoseSlots ==
  /\ cleaner = "locking" /\ \E s \in wanted : holder[s] \in Job
  /\ holder' = [s \in Slot |-> IF holder[s] = Cleaner THEN Nobody ELSE holder[s]]
  /\ cleaner' = "listing" /\ exclusive' = FALSE
  /\ UNCHANGED <<at, kind, judged, gateVars, slotFiles, stagedVars, titleVars, wanted, doomed, faultVars>>

HoldSlots ==
  /\ cleaner = "locking" /\ \A s \in wanted : holder[s] = Cleaner
  /\ cleaner' = "listing" /\ exclusive' = TRUE
  /\ UNCHANGED <<at, kind, judged, gateVars, slotVars, stagedVars, titleVars, wanted, doomed, faultVars>>

\* Without the slots only what is older than any encode may be goes.
ListWork ==
  /\ cleaner = "listing"
  /\ doomed' = IF exclusive THEN {j \in Job : temp[j] = "live"} ELSE {}
  /\ orphans' = IF exclusive THEN {} ELSE orphans
  /\ cleaner' = "sweeping"
  /\ UNCHANGED <<at, kind, judged, gateVars, slotVars, temp, synced, titleVars, exclusive, wanted, faultVars>>

Drop(j) ==
  /\ cleaner = "sweeping" /\ j \in doomed
  /\ doomed' = doomed \ {j}
  /\ temp' = [temp EXCEPT ![j] = IF @ = "live" THEN "gone" ELSE @]
  /\ UNCHANGED <<at, kind, judged, gateVars, slotVars, synced, orphans, titleVars,
                 cleaner, exclusive, wanted, faultVars>>

EndClean ==
  /\ cleaner = "sweeping" /\ doomed = {}
  /\ holder' = [s \in Slot |-> IF holder[s] = Cleaner THEN Nobody ELSE holder[s]]
  /\ cleaner' = "off" /\ exclusive' = FALSE /\ wanted' = {}
  /\ UNCHANGED <<at, kind, judged, gateVars, slotFiles, stagedVars, titleVars, doomed, faultVars>>

(***************************************************************************)
(* What comes from outside.                                                 *)
(***************************************************************************)
\* An *arr imports over the source, or beside it.
Land(name) ==
  /\ landings < MaxLandings /\ landings' = landings + 1
  /\ latest' = latest + 1
  /\ file' = [file EXCEPT ![name] = latest + 1]
  /\ blind' = blind \cup Late
  /\ UNCHANGED <<at, kind, judged, gateVars, slotVars, stagedVars, owner, soft, torn, cleanVars, crashes>>

\* Processes die, with their ffmpegs, memory and locks; a power cut takes all of
\* them and what the disk had not written.
Crash(gone) ==
  LET dead == {j \in Job : Home[j] \in gone}
      Reset(f, x) == [j \in Job |-> IF j \in dead THEN x ELSE f[j]]
  IN
  /\ crashes < MaxCrashes /\ crashes' = crashes + 1
  /\ at' = Reset(at, "idle") /\ temp' = Reset(temp, "none") /\ judged' = Reset(judged, 0)
  /\ orphans' = orphans \cup {j \in dead : temp[j] = "live"}
  /\ asked' = asked \ dead /\ committed' = committed \ dead /\ prevented' = prevented \ dead
  /\ skipping' = skipping \ dead /\ signalled' = signalled \ dead /\ mutated' = mutated \ dead
  /\ synced' = synced \ dead /\ blind' = blind \ dead
  /\ holder' = [s \in Slot |-> IF holder[s] \in dead \/ (holder[s] = Cleaner /\ Server \in gone)
                               THEN Nobody ELSE holder[s]]
  /\ IF Server \in gone
     THEN cleaner' = "off" /\ exclusive' = FALSE /\ wanted' = {} /\ doomed' = {}
     ELSE doomed' = doomed \ dead /\ UNCHANGED <<cleaner, exclusive, wanted>>
  /\ owner' = Disowned(dead)
  /\ torn' = IF gone = Process THEN torn \cup soft ELSE torn
  /\ UNCHANGED <<kind, slotFiles, file, latest, soft, landings>>

RewriteInit ==
  /\ at = [j \in Job |-> "idle"] /\ kind = [j \in Job |-> "rewrite"] /\ judged = [j \in Job |-> 0]
  /\ asked = {} /\ committed = {} /\ prevented = {} /\ skipping = {} /\ signalled = {}
  /\ mutated = {}
  /\ holder = [s \in Slot |-> Nobody] /\ slotFiles = {}
  /\ temp = [j \in Job |-> "none"] /\ synced = {} /\ orphans = {}
  /\ owner = [p \in Process |-> Nobody]
  /\ file = [name \in Name |-> IF name = "source" THEN 1 ELSE 0] /\ latest = 1
  /\ blind = {} /\ soft = {} /\ torn = {}
  /\ cleaner = "off" /\ exclusive = FALSE /\ wanted = {} /\ doomed = {}
  /\ landings = 0 /\ crashes = 0

Works(j) ==
  \/ Judge(j) \/ Begin(j) \/ Refusal(j) \/ ClaimSlot(j) \/ StopWaiting(j) \/ StageFile(j)
  \/ Reject(j) \/ StartFfmpeg(j) \/ AnswerSkip(j) \/ Encode(j) \/ Fail(j) \/ Own(j)
  \/ Recheck(j) \/ Commit(j) \/ Flush(j) \/ CopyAcross(j) \/ Publish(j) \/ RemoveSource(j)
  \/ Close(j) \/ FreeSlot(j) \/ Leave(j) \/ TagOrRewrite(j) \/ EditTrack(j) \/ LeaveTrack(j)

Cleans ==
  \/ ListSlots \/ TakeSlot \/ LoseSlots \/ HoldSlots \/ ListWork \/ EndClean
  \/ \E j \in Job : Drop(j)

RewriteNext ==
  \/ \E j \in Job : Works(j) \/ SkipPhase(j) \/ Signal(j)
  \/ \E p \in Process : Abort(p)
  \/ Cleans
  \/ \E name \in Name : Land(name)
  \/ \E gone \in {{p} : p \in Process} \cup {Process} : Crash(gone)

RewriteSpec == RewriteInit /\ [][RewriteNext]_rewriteVars

(***************************************************************************)
(* Properties.                                                              *)
(***************************************************************************)
RewriteTypeOK ==
  /\ at \in [Job -> Stage] /\ kind \in [Job -> Kind] /\ judged \in [Job -> Nat]
  /\ {asked, committed, prevented, skipping, signalled, mutated, synced, orphans, blind, doomed}
       \subseteq SUBSET Job
  /\ holder \in [Slot -> Job \cup {Nobody, Cleaner}] /\ slotFiles \subseteq Slot
  /\ temp \in [Job -> {"none", "live", "gone"}]
  /\ owner \in [Process -> Job \cup {Nobody}]
  /\ file \in [Name -> Nat] /\ latest \in Nat /\ {soft, torn} \subseteq SUBSET Name
  /\ cleaner \in {"off", "locking", "listing", "sweeping"} /\ exclusive \in BOOLEAN
  /\ wanted \subseteq Slot /\ landings \in Nat /\ crashes \in Nat

\* A skip that was told it came in time has: the job it stopped changes nothing in
\* the library, whether it was probing, waiting, encoding or about to rename (the
\* gate of executor.Cancel).
SkipsAreHonest == prevented \cap mutated = {}

\* A skip in time stops the encode: whenever ffmpeg runs on, it has been signalled or
\* the skip is about to look it up, however the skip fell between the process's start
\* and its registration (executor._run_ffmpeg against terminate_phase).
SkipsReachFfmpeg ==
  \A j \in prevented : at[j] = "encoding" => j \in signalled \cup skipping

\* A rename or a removal never takes what the job did not judge: an upgrade or an edit
\* that landed while it waited, encoded or waited to own the title.  Only what another
\* process writes after the job's last check can be lost.
NothingNewerLost ==
  [][\A j \in Job :
       /\ at[j] \in {"flushed", "landed"} /\ j \in mutated' \ mutated =>
            j \in blind \/ (SourceStands(j) /\ ~TargetTaken(j))
       /\ at[j] = "published" /\ at'[j] = "closing" /\ file'["source"] = 0 =>
            j \in blind \/ SourceStands(j)]_rewriteVars

\* The library has the title whole under one of its names after any failure, crash or
\* power cut between staging, rename and the removal of a remuxed source.
TitleStaysWhole == torn = {} /\ \E name \in Name : file[name] # 0

\* A staged file in use is covered by its writer's slot, so a startup that holds every
\* slot finds none to drop; except one under a slot whose lock file did not exist when
\* the startup listed them, of a process with a larger budget (all_slots_held).
CleanupSparesWriters ==
  \A j \in Job : temp[j] = "live" =>
    /\ SlotsOf(j) # {}
    /\ j \in doomed => SlotsOf(j) \cap wanted = {}
=============================================================================
