# A TLA+ model of trackstarr

trackstarr keeps the audio and subtitle tracks of a media library tidy. Radarr
and Sonarr deliver imported files over a webhook, a sweep walks the library on a
schedule, and both put files through one queue: a probe decides what a file
needs, a rewrite does it. This directory models the parts of
`src/src/trackstarr` where threads, processes and restarts meet, and the rules
that decide what a file becomes; checks them with TLC on small instances; and
proves with TLAPS, for every instance, what matters most of each of them.

## The system

| Part | State it keeps | Operations | Interacts with |
|---|---|---|---|
| Shared work queue (`work.py`) | tasks by run and path, candidate heaps, parked and reserved keys, lanes, active paths, run controls, ranks and one undo, the settlement counter | submit, continue, complete, claim, execute, stop, skip, pause selection, move to top, hurry, undo, close, drain, shutdown | everything that processes a file; one condition variable |
| Run registry (`runs.py`) | per run: total, done, filling, active files, telemetry | open, add, tally, drop, seal, retire | called under the queue's lock |
| Lifecycle (`lifecycle.py`) | service pause and its file, producers' leases | open/seal/close run, hold, stop, skip, pause, shutdown | queue, registry, pauses, cache flush |
| Import jobs (`jobs.py`) | in-flight paths, parked files, `parked.json` | enqueue, handle, park, recheck, release, restore | queue, lifecycle, webhook, processing |
| Webhook (`webhook.py`) | none between requests | open a run, hand over files, seal | jobs, lifecycle, cache (removed, renamed) |
| Verdict cache (`sweep_cache.py`, `verdict_store.py`) | revisions and owners of observed paths, live walks, unwritten batches, the store file | watch, changing, publish, move, carry, checkpoint, save, flush, clear | sweep, jobs, retag, library |
| Executor (`executor.py`, `command.py`) | running ffmpeg by cancel switch, each switch's mark and commit | ask, commit, run, verify, publish, clean up | processing, skip and abort |
| Processing (`processing.py`, `mkvtag.py`, `retag.py`) | rewrite slots (file locks) | plan, claim a slot, rewrite, re-judge | executor, cache, pauses, rewrites |
| Sweep (`sweep.py`) | a walk's outstanding and finished files, its report | list, discover, queue, book, checkpoint, prune | queue, cache, lifecycle |
| File pauses (`pauses.py`) | the pause store, its memo | place, resume, look up | processing, API, pause selection |
| Queue pages (`queue_view.py`) | rows per run with three stamps | add, drop, hide, capture, page | queue, API |
| Planner and policy (`planner.py`, `policy.py`, `tracks.py`, `langs.py`, `media.py`) | none | pure rules | processing |
| Records (`rewrites.py`, `events.py`, `estimate.py`, `runlog.py`) | JSON stores, an append-only log | record, move, read backwards | processing, API |
| Settings (`config.py`, `settings.py`, `keystore.py`) | settings file, key file | read, validate, update, seal | everything |
| Accounts (`users.py`, `sessions.py`, `auth.py`) | account, session and secret files, login throttle | sign in, revoke, lock | API |
| Views and clients (`library.py`, `links.py`, `covers.py`, `ratings.py`, `arr.py`, `media_server.py`, `connections.py`, `client.py`, `api.py`, `notify.py`, `assets.py`) | caches of answers, open streams | HTTP in and out | everything, read-only |
| Entry points (`app.py`, `cli.py`, `cron.py`) | threads | start, schedule | lifecycle, sweep |

What makes each hard, and what correct means:

- **Queue.** Dispatcher, workers, callbacks, walks, deliveries, pages and
  shutdown take the same lock at any moment, and callbacks run after it is
  released. Correct: one worker per file; nobody is lost between the heaps and
  the parking lot; the claim order is the queue order whatever was moved,
  skipped or paused; every admission has exactly one terminal callback; runs
  retire after their last file was booked, not before; a drained process has
  nothing left to do.
- **Deliveries.** A job's claim on its path outlives two phases and a callback;
  parking drops out of the queue into a file; a recheck takes a record away
  before it knows that the queue will have it; the process may die anywhere.
  Correct: one job per path; `parked.json` is the parked set; no parked file is
  lost; no run stays on the overview for nothing.
- **Verdict cache.** Probes, in-place edits, renames, walks and deferred writes
  meet on one file. Correct: a stored verdict never describes a file that has
  been edited since; an accepted verdict survives concurrent walks and flushes.
- **Executor and slots.** Skips race ffmpeg's start, its registration and the
  rename; slots are shared by processes. Correct: a skip either prevents the
  mutation or finds it done; nobody cleans a file in use.
- **Pauses.** Two processes share a store, each with a memo of it; a batch is
  placed whole or not at all under a limit; pauses lapse. Correct: no file is
  rewritten under a pause that stood before its worker asked.
- **Queue pages.** A page walks rows without the lock while they are claimed,
  hidden and rebuilt. Correct: it sees one moment of the queue.
- **Rules.** A rewrite's output is judged again, under settings and answers that
  change. Correct: a file comes to rest, keeps the languages its owner listed,
  and has the layouts they asked for.
- **Settings.** A save is judged once it is in force, and taken back; two
  processes mint one key; an owner edits the file by hand. Correct: what is in
  force is what a start would load and accept.
- **Clocks.** Months, leap days, and hours that come twice or never. Correct: no
  run of a schedule is passed over, nor slept past but where a wake-up is late.
- **Accounts.** Stores of one process under one lock each.

The hazards these amount to are listed line by line in `PROJECT.json`, each with
the properties that would catch it.

## Modules

| Module | Models |
|---|---|
| `FileQueue` | What the queue promises: a worker takes the first file, in queue order, that may start; commands change order, abandonment, holds and pauses at will; nothing else puts a file on a worker. |
| `Scheduler` | `work.py` with the run controls and the registry it retires runs through. One action per critical section. |
| `MCScheduler`, `MCQueue` | A sweep of two files and a delivery of one of them, one worker per lane, and the sub-relations the runs use; the two scenes of `QueueCommands`. |
| `SchedulerProofs` | The theorems about `Scheduler`. |
| `Imports` | `jobs.py`, with the webhook's handover, the recheck thread, `parked.json`, shutdown and restart. |
| `MCImports` | Two deliveries of one file; one delivery of two files. |
| `ImportsProofs` | The theorems about `Imports`. |
| `SweepCache` | `sweep_cache.py`, with what walks (`sweep.py`), deliveries (`jobs.py`), edits (`processing.py`, `retag.py`) and the rename (`executor.py`) do with an observation. |
| `MCSweepCache` | Scenes of at most two observations, walks and files. |
| `SweepCacheProofs` | The theorems about `SweepCache`. |
| `Rewrite` | `executor.py`, with the slots and the edit in place of `processing.py`, `retag.py` and `mkvtag.py`: two processes, skips, crashes and power cuts. |
| `RewriteProofs` | The theorems about `Rewrite`. |
| `Pauses` | `pauses.py`, the question of `processing.py` whether a file may be rewritten, and the service's pause flag of `lifecycle.py`. |
| `QueueView` | `queue_view.py`: one run's rows as pages read them. |
| `QueueViewProofs` | The theorems about `QueueView`. |
| `Planner` | `planner.py`, over `policy.py`, `tracks.py`, `langs.py`, `media.py` and `command.py`: what a file needs, and the file its rewrite leaves. |
| `PlannerProofs` | The theorems about `Planner`. |
| `Settings` | `settings.py`, `config.py`'s reading, `keystore.py`'s key and the refusals of startup. |
| `StoresProofs` | The theorems about the two stores a page writes, `Pauses` and `Settings`. |
| `Schedule` | The scheduler's thread of `sweep.py` and the expressions of `cron.py`. |
| `ScheduleProofs` | The theorems about `Schedule`. |
| `MCSchedule` | Nights around a leap day, a year's end, and the changes of the clocks. |
| `MCParts` | The six from `Rewrite` on as scenes of one run: each part moves in its own, the others stand still. They share no variable. |

### Scheduler

State maps to the code one to one, with these abstractions. A heap holds stale
entries beside the live one and tells them apart by comparing with `entries`;
only live entries are kept, so a heap is the set of `indexed` keys in one lane
and one abandonment, ordered by `Before`. `parked` is the dictionary by path, as
a set. `undo` maps admissions to ranks. What an admission number (`Handle`) is
for, telling two admissions of one key apart, is `handle`. `tails` are phases
that left their lane and whose thread is still between the critical section of
`_execute` (or `complete_file`) and `_settled`; their callbacks are an action of
their own. `delivered` and `concluded` remember which admissions had their result
published and their terminal callback run.

`owed` is an import's `total - done`, and `Retires` the condition of
`runs.retire`. `group` is the walk's `Group`: it is open from the run's opening,
refuses registration once closed, and is drained when `Group.drain` returns.
`Reserve`, `Commit` and `Release` are the three critical sections of
`pause_selection`; a write that raised goes from `Reserve` to `Release`.
`EnterHold` is a sweep's call finding the service paused (`lifecycle.hold`): it
keeps its worker until the resume or its run's stop.

Not modelled: rows and counts published for pages, the revision number, the
expected seconds and compaction of stale heap entries. What a run publishes to
pages is `QueueView`'s, and what a skip does to a running rewrite is `Rewrite`'s;
neither is composed with `Scheduler`.

### Imports

The queue appears as each job's `stage`: queued, checked (a worker passed the
stop and skip tests), saving (parked in memory, not yet on disk), ending (the
call returned), booked (the callback booked it and still holds the path's claim),
absent. `handing` is the handover both producers make: found and popped (recheck
only), opened, claimed in `_inflight`, sealing, refused. `linked` and `gone` are
the file system. `unwritten` says the last write of `parked.json` failed, which
the code logs and goes on from. `owed` remembers the files that were parked and
not judged, given up or gone since.

A pass of the recheck goes by the setting as it stood when the pass began
(`recheck`), whatever is saved meanwhile; reading it and listing what is parked
are one step.

Not modelled: language resolution, the probe and rewrite themselves (a job is
judged, or goes on to its rewrite), and jobs without a run.

### SweepCache

An `Observer` is one `Observation`, from `Begin` (the rules are taken, the file
is not yet) to `Release`; its `stage` says how far its thread is. A revision's
version only answers whether a stamp is still current, so an observation keeps
the set `fresh` of paths for which it is, and whatever advances a version empties
it there (`Fence`); `Take` alone puts a path back after that. `owner` is
`_Revision.owner`. A `Walk` is one `SweepCache`, with `_previous`, `_next`,
`_external` (on `heard`), `_dropped`, `_dirty` and `_superseded` by name. `pending`
is the batch and `disk` the store. `todo` is what the walk has yet to begin on; a
walk may observe a listed file again, as it does to rewrite it.

A file is its `content` and the `key` its stat gives. A header edit changes the
content and may keep the key; everything else moves both. An entry is the content
and key it was judged from, and whether it answers for the file: `good`, `failed`
(shown, and retried) or `stale` (of other rules). `HitsAreTrue` compares contents,
which the code never sees.

The writer lock and the state mutex make a publication, a checkpoint, a save, a
flush and a clear one step each. A publication's last stat is in the same step;
in the code another program may write between the two, which moves the key and
so leaves an entry that answers for nothing. The coalescing window is the freedom
of when `Flush` comes. A page's copy of a walk lags behind it (`publish_view`,
the memo of `library.py`); `View` is what it is once it has caught up.

`intact` is cleared when something is lost that the code accepts losing: a failed
write, or a walk that left before it wrote. It is also cleared by `Unchanged`, the
one place where a fence is stepped over: an edit in place waits for another, takes
the file, finds the tag there already, and publishes the verdict of its own probe
under the stamp it has just taken. Where the other edit kept size and mtime, that
verdict describes the file as it was before (`processing.py:368`, `HitsAreTrue`
without `intact`). `HitsAreTrue` is for rules that do not change: the entries an
edit leaves behind may be the store's under rules changed away from and back,
where `close` is refused and the old entry stays.

Not modelled: `move` and `remove` of renamed and departed files, several stores,
several processes, a crash, the retry count and its ceiling (a failure out of
attempts is one of the ways `Abandon` stands for). Nor is a store that is there and
cannot be read or parsed: where no batch is waiting, and until a walk writes over it,
`_for_update` has nothing to change, so publications and invalidations outside a walk
are refused (`sweep_cache.py:581`), also while one is live, and readers find no entries.
What such a refusal leaves standing, should the store become readable again,
`HitsAreTrue` does not speak of.

### Rewrite

A job is a phase of the queue, or a page's edit, with its `Cancel`; `at` is how
far its thread is. Jobs of one process share the registry of running ffmpegs
(`Registered`) and the title's `owner`; jobs of two processes share the disk and
the slots. A file is the number of the write that made it, which is all a
signature (size and mtime) tells apart; a write that moved neither, such as a
header edit that keeps both, is `SweepCache`'s concern, not a signature's.

`Cancel` is `asked` and `committed`; what a skip was told is `prevented`. A skip
marks its job (`SkipPhase`), then looks it up in the registry (`Signal`):
whichever of the two falls before the registration, the other half of the pair
(`AnswerSkip`) stops the encode. A staged file is `live`, `gone` once a startup
dropped it, and an orphan once its process died. `soft` names are those renamed
to from a file that was never flushed, `torn` those a power cut then took.
`Writes` and `Land` mark as `blind` the jobs past their last look at the files
whose process cannot see the writer: what they lose is the one thing
`NothingNewerLost` excuses, as the code does.

`MaxLandings` bounds writes from outside, `MaxCrashes` deaths. `Fail` stands for
every error after the slot is taken. Not modelled: what verification looks for,
`_free_space`'s arithmetic, progress, the rename of sidecars, history and rescans.
`_tag_in_place` writes to the track its plan numbered without looking at the
source's signature again; `Rewrite` has the write, not the track.

### Pauses

A pause is the moment it lapses, `Absent` or `Never`; `client` is a request in
its transaction, `found` what it read. `saves` counts writes and so stands for
the store's mark (size and mtime): two writes with one mark are left out, as the
code's `write_json` renames a new file with its own mtime over the old. A reader
takes the mark (`Stat`), asks its process's memo, reads the file on a miss, and
remembers what it read under the mark it took before. `standing` is a ghost: the
places whose pause has stood, unchanged, since the reader took that mark.
`LeaveStore` is every way out of a transaction without a write.

`flag`, `flagFile`, `writer`, `record` are `lifecycle.py`'s pause: the live flag
moves first, the file is written under the same lock, and a write may fail.

### QueueView

A list is an object: `lists` has every list that was ever the block, and a
capture keeps the number of the one it took, which later appends go on changing
and a rebuild does not. Three stamps of a row (`added`, `hidden`, `retired`)
against a capture's generation decide whether its walk shows it. `Relist` is the
republication of all rows at new ranks (a move, an undo), `Settle` the rebuild of
an overgrown block. A walk is the merge of two ordered lists, given as the set of
what they hold (`Walked`) put in order; that both are in order and share no row,
without which a merge would show something else, is checked (`Mergeable`). The
rows' text, and the merge of several runs into one page, are left out.

### Planner

A film is the streams a probe reports (`File`, `Probed`), with what the rules tell
apart: kind, channels, codec, language, rate, the settings a track was made at, its
role, and whether its title names things the rules look for. `Codec` is the names
of codecs there are; a rewrite may leave only those (`PlannerTypeOK`). `FromConfig` is the policy of
settings as stated, `Valid` what startup and a save accept, `Whole` the two passes
of `plan`, `Audio` what the audio rules make of one, field by field in the code's
order, each reading what the ones before it kept, `Skip`, `Refused` and `Needed` its ways not to act, and `Apply` the file
the command line leaves. `rewrites` counts them since the settings and the
answer of an *arr last changed. The sorts of `_apply_rules` are `Sorted`: what has a
key stands behind as many as have a lower one, keys being compared like Python's
tuples, at the first place they differ.

Left out: prose, chapters, the match of titles as text (a stream's `role` and
`names` say what a match found), the spelling of mkv tags, sampling of frames.

### Settings

A setting's text is one of the few values the constants tell apart: one its
parser refuses (`Unreadable`), one startup refuses (`Unfit`), pairs it refuses
together (`Clash`). `update` is a chain of steps, each of which may fail or be the
last before a death: `BeginSave`, the key (`LookForKey`, `CreateKey`, `FillKey`),
`WriteMerged`, `LoadMerged`, `JudgeSave`, `Undo`, `Reload`. `RivalMints` is another
process minting the key of the same volume, `Tamper` an owner's hand, `Start` a
start that refuses or not. `tainted` and `keyLost` mark what `SavesAreWhole`
excuses: a file changed by hand, a roll-back that failed or was cut short, a key
file taken away.

### Schedule

The clock counts units of fifteen seconds from 1 March 2000 by the offset in force
when a night opens; within a night the zone's clocks change once at most. `walk`
is `next_run`'s locals, one step per stride. `Timestamp` is what `timestamp()`
makes of a naive time: the first of its two moments, or, where it never comes,
the moment it would have been. `fresh` is how long a schedule has yet to stand
before the thread is sure to have read it: one saved less than a slice before its
slot may be missed, in the code as here. A schedule is any list of fields, a field
any list of pieces but the empty one (`Field`), which `part.split(",")` never gives;
a piece is told from another by what it says, so that `*/`, which the code reads
as `*` but takes for a restriction, is the one spelling left out.

`time.sleep` promises a shortest time only. `Pass` lets time go on under a sleeping
thread for as long as the night lasts, and `Wake` comes at the end asked for or any
time after it, which stands for a loaded machine as for the time the loop itself
takes between reading the clock and sleeping. `SlotsAreKept` says what the code then
still keeps, and no more: a slot may be lost between the end a sleep was asked to
have and the moment the thread runs again, never within what was asked.

The day's calendar is checked against
itself by whole cycles of 400 years only in `NoRunPassedOver`'s last line, which
asks of a schedule given up whether any date matches.

## Runs

| Run | Question | Bounds |
|---|---|---|
| `QueueCommands` | Do claims, stops, skips, pauses, pause commands, moves, undos and promotions keep what runs, what waits, the reservations, the ranks, the heaps and the counters consistent, and does the dispatcher implement `FileQueue`? | 3 keys on 2 paths, 2 pause commands (symmetric), 3 admissions; 1 front rank among commands, 2 among reorders; callbacks run at once |
| `QueueShutdown` | Do runs, groups and the service wind down with nothing left and nothing twice? | 3 keys, 2 admissions; callbacks interleave with everything |
| `QueueLiveness` | Does a stopped queue drain, and is a waiter taken? | a sweep and a delivery of one file, 2 admissions, 1 pause command |
| `SkipWhilePaused` | Is a skipped file dispatched under a pause? (violated) | a sweep of 2 files |
| `Deliveries` | Do claims, parking and runs stay consistent through failures and restarts? | 2 deliveries of one file |
| `ParkedReleased` | Is a parked file released? | 2 deliveries of one file |
| `ParkedLost` | Is a parked delivery always held by somebody? (violated) | 2 deliveries of one file |
| `SealedEarly` | Is a delivery admitted whole? (violated) | 1 delivery of 2 files |
| `VerdictFences` | Do concurrent walks agree, do entries describe their files, and do only verdicts change what is shown? | six scenes: 2 observations and a walk; 2 walks of one file that changes, and under rules that change; a walk that remuxes; 2 observations of 2 files, and of one that changes twice |
| `SavePrunes` | Does a completed walk keep the entries of what it visited? (violated) | 1 walk, 1 file, 1 change of the rules |
| `Parts` | Do rewrites, pauses, pages, plans, saves and the schedule each keep their promises? | nine scenes, below |
| `RepeatedHour` | Does the scheduler's thread outlive the hour that comes twice? (violated) | the night of 5 April 2026 in Auckland, 4 schedules |

The scenes of `Parts`: `rewrites`, a job of serve and one of a sweep run beside
it, either kind of rewrite or a tag, with a startup that cleans and a crash;
`skips`, a job and a page's edit in one process, skipped and aborted; `upgrade`, a
job whose source is replaced under it, with a crash; `pauses`, two requests in two
processes and a reader over a folder and a file in it, of which one may be paused;
`flag`, two commands and a restart; `pages`, three rows, one reader, three
rebuilds; `plans`, every film of one or two audio tracks of the kinds listed in
`MCTracks`, an mp4 of two such behind an untagged 5.1, or one track with a stream
of every other kind, under five usable drafts of settings, an edit and a change of
answer, with four drafts that are refused;
`settings`, two saves out of twelve, four deploys, one change by hand, one death;
`clock`, five nights with two to five schedules each, one saved schedule.

Why the bounds are enough. Two paths give a shared and an unshared one; a sweep
and an import are the two kinds of run; one worker per lane makes the limit bite
with two files, and two lanes still run two files at once. Three admissions let a
key leave and come back while another waits, two pause commands on one path let
one command's release wake what the other still holds, and two front ranks
cover one move of two files, or a move and a promotion. `MaxSequence` and `MaxFront` are
the only bounds on behaviour: they stop `Submit`, `ContinueFile` and `Front`.
`Deliveries` has every pair of handovers on one path; a file of another path
shares only its run, which `SealedEarly` has. `Deliveries` compares states
without `owed` (`MCView`): no guard or other variable reads it.

A process with one slot and one with two are the budgets that differ, which is
when a lock file may not exist yet as a startup lists them; one landing and one
crash at any point meet every stage of a job. A capacity of one makes the limit
bite with the second place, and a clock of two moments lets a pause lapse between
any two steps. Three rows with no loose ones allowed rebuild the block at every
row out of order and still leave one captured, one arriving and one claimed. Two
saves let one build on what the other left. The longest chain of rewrites in the
instance is four: an MP4 becomes Matroska, there the regenerate rule sees a poor
stereo track and drops it, then the one untagged track can be told for the
original's, and then a downmix be made of it. The nights open a
few minutes before what they are about, since the thread sleeps at most a slice.

A scene of `VerdictFences` bounds what starts (`InScene`), never what a thread
that has started may do: writes fail, a clear, an outside change, a walk that dies
and every way out of an observation come at any moment, within its counts. Two observations
are one that probes and one that edits, or two that edit; a third would meet the
same fences. Two walks share what each is told by the other; one file is enough
for the two to disagree, and two for a rewrite to another name. `MaxWrites` and
`MaxRules` stop `Outside`, `EditInPlace`, `Rewrite` and `ChangeRules`. Observations
and walks are symmetric: the choice of a walk to show is a choice among equals by
`WalksAgree`.

Deadlock is not checked: a service with nothing to do, a closed one and a bounded
number of admissions all stop.

The runs leave actions out where the question does not need them (`MCScheduler`,
`MCImports` say which); between them every action of every module fires.

### Fairness

`Fairness` of `Scheduler` is weak fairness of the dispatcher thread, of each
worker's call returning (a call in `hold` returns only when the pause ends or its
run stops), of callbacks, of the decision that a discovery's callback makes, and
of a pause command ending its write. Nothing obliges an operator to resume, stop,
skip or close, nor a walk to submit. Each of these is a thread that is never
blocked for ever by another while its action stays enabled. `WaitersAreTaken`
excuses a file that a pause command holds: a client may re-issue the command for
ever. It also excuses a paused and a halted service, where nothing is promised.

`Fairness` of `Imports` is weak fairness of the webhook's requests, of the recheck
loop and of each job's worker. `ParkedIsReleased` counts the record's removal as
its release; whether it then reaches the queue is `ParkedNeverStranded`.

The parts of `Parts` are checked for safety only. `RepeatedHour` asks whether a
thread is dead, which needs no fairness.

### What the violated runs show

- `SkipWhilePaused`: a skip under the pause is dispatched only if its lane has a
  free worker. Sweep calls that were claimed before the pause wait in `hold` and
  keep theirs, so the skipped file waits for the resume after all.
- `ParkedLost`: `park` runs inside the job, before its callback gives the path's
  claim back. A recheck between the two finds the link gone, drops the record,
  and `enqueue` returns `False`, which `_release` does not tell from success.
- `SealedEarly`: a file parked early in a delivery is rechecked while the same
  request hands over the rest. `_release` seals the run for its one file; the
  request's next file finds the run retired and the request fails.
- `SavePrunes`: a walk keeps the rules it began under. Once the settings change,
  its workers observe under the new ones, `publish` refuses what they judged, and
  the files are in neither `_next` nor what the walk heard; `save` then drops
  their stored entries as unvisited. A walk answered from the cache carries the
  entry and loses nothing, so this is for re-checks and for sweeps of stale
  entries, which a first change of the rules makes all of them. `PruneNext` leaves
  out the exceptions `_judge` catches, which end the same way.
- `RepeatedHour`: in the second pass of a repeated hour, `next_run` finds a slot
  still ahead by the wall clock, and `timestamp()` takes the naive time for the
  first pass. The delay is negative, `time.sleep` raises outside the loop's `try`,
  and no scheduled sweep runs until a restart.

### What else the modelling showed

Not findings, since the code says nothing to the contrary or what it says is only
loosely worded:

- `planner.py:7` promises that every rule is idempotent, "apply, re-plan, get an
  empty plan". One rule is; together they chain, up to four rewrites here.
- The regenerate rule may drop the last track of a listed language when the only
  bigger source is of another (`ListedLanguagesStayHeard` excuses what it judges;
  `test_planner.py:354` expects it).
- A layout may stay unmade for good under `RULE_REGENERATE=alongside` and
  `REGENERATE_SCOPE=all`. Beside an English 5.1 and a poor untagged stereo track, the
  deciding pass orders an English downmix; in the whole pass the untagged track is
  dropped and claims that downmix (`_claim_replacement`: "an untagged drop is claimed
  by any match in its layout"), which is then recorded under the rule that rides. No
  reason is left, `needed` is false, and no rewrite comes. `docs/rules.md:65` promises
  "the requested downmix layouts where sources exist". The same happens where all of
  a language's bigger tracks would be made again themselves. `Withheld` describes
  these files, and `SettledFilesAreServed` excuses no others; the proof attempt
  found them, and the instance has one since.
- `all_slots_held` says a slot's file exists: a process with a larger budget may
  make one after the startup listed them (`CleanupSparesWriters` says which).
- Between `LoadMerged` and `Undo` other threads read settings that will be taken
  back; a death there leaves them in the file, and the next start refuses.
- A file with a bad hand edit refuses every later save that the edit's problem is
  not already known to, and the roll-back of such a save puts the edit in force.
- A process that dies between creating the key file and filling it leaves an empty
  one, which refuses every later save of a credential.
- A slice that ends late may lose a slot. With a little more than `_TICK` to go,
  the thread sleeps a slice, `time.sleep` returns no earlier than asked and mostly a
  little later, and where that is past the slot `next_run`, which looks strictly
  ahead, takes the one after. With `0 3 * * *` no sweep runs that night. The
  comment on `_TICK` only says that a schedule saved a minute ahead "can fire". A
  sleep that ends late with its run due costs nothing but the lateness.
- A slot in an hour the clocks skip runs as if the clocks had not changed, or the
  next day; the horizon's comment in `cron.py` speaks of dates with weekdays, which
  the two day fields, being alternatives, never need.

## Proofs

A proof module has one lemma per action and part of an invariant the action can
disturb, and ends in its theorems. Where an invariant says more than the property
it is for, what it adds is said here.

`SchedulerProofs`, from `SchedulerAssumption` (imports are runs, keys are a
finite set of run and path pairs, each lane has at least one worker), in four
layers, each inductive on top of the one before:

- `TypeCorrect`: `Spec => []TypeOK`.
- `DispatchHolds`: the inductive invariant `DispatchInv`, which is `TypeOK`,
  `OneWorkerPerFile`, `EveryWaiterIsReachable` and `ReservedFilesWait` together
  (theorems `WorkersNeverShare`, `WaitersStayReachable`, `ReservationsHold`).
  None is inductive alone: a worker's end wakes the keys of its path, which is
  right only because `activePaths` is exactly the workers' paths; a parked key
  stays blocked only because reservations are the commands' selections; a
  reservation outlives every other step only because claims pass over reserved
  keys and every command refuses them.
- `IndexesAlwaysAgree`: each counter is the cardinality of what it counts, so a
  step that moves one key moves one count by one (`CountByOne`); heaps and
  parking lot share out the waiting keys.
- `LifeHolds`: admissions from their opening to their last callback (`LifeInv`).
  `HandlesApart` and `TailsApart` say that an admission is live or leaves at most
  one final phase, `ImportsAreBooked` that what an import still expects is its
  live files and those ending. From it `AdmissionsConcludeOnce`,
  `DrainAlwaysCovers`, `RunsOutlive`, `DrainedStaysEmpty`, and of steps
  `QuietStaysFinal` and `HoldersDecide`.
- `OrderHolds`: ranks are handed out at both ends, and an undo remembers ranks
  nobody else was given since (`RanksInRange`, `UndoIsApart`); hence
  `RanksStayDistinct`.
- `ClaimsFollowTheOrder`: the dispatcher implements `FileQueue`, under the mapping
  that forgets heaps, parking lot, counters and books and keeps of a task its
  stage, lane, order and whether it is abandoned or held. Initial states map to
  initial states, and each action maps to an action of `FileQueue` or a stutter;
  for `Claim` this is that what the heaps offer, parking and priorities
  considered, is the first file in queue order that may start.

`ImportsProofs`, from nothing but the assumption that jobs have a run and a file:

- `DeliveryHolds`: the inductive invariant `DeliveryInv`, which is `TypeOK`,
  `OneJobPerPath`, `DiskFollowsMemory` and `PassKnows`. `OneJobPerPath` counts
  claims of jobs that are being handed over as well as of queued ones.
  `PassKnows` is what makes `PutBack` safe: a pass that dropped a record is
  dirty until it saves.
- `ImportsTypeCorrect`, `OneJobHasThePath`, `ParkedIsOnDisk`: its parts.
- `OpenRunsAreBusy`, by `IdleInv`: a run being filled is filled by a request that
  has not ended, and each open one has that or a job that keeps it.

`SweepCacheProofs`, from `SweepCacheAssumption` and `NoneIsNothing` (`None` is no
observation, walk, rule, number, entry or store; there is a file and a rule):

- `CacheTypeCorrect`, by `TypeInv`: an observation's stages come in the order of
  its code, and no key is from the future. That a probe found a content under the
  key it took needs the second: what it could not find has no key any more.
- `WalksAlwaysAgree`, by `WalkInv`: two walks that count hold the same entries
  because every publication reaches each of them and each joins on what another
  holds, or on the store. `Walkers` says that an observation's walk is walking,
  `LoadedFresh` and `SavedStored` tie a walk's ends to the store.
- `NothingElseShows`: joining, checkpoints, saves, flushes and the ends of walks
  leave what a page shows alone. It needs both ends of a step, and that some walk
  is in force whenever one counts.
- `HitsStayTrue`, by `HitInv`, while nothing is lost and the rules stay: an entry
  that would answer wrongly is of a file whose owner still has it to answer for
  (`LiesOwned`); an owner answers as long as its stamp is current or the entry is
  gone (`Kept`); what a probe judged is the file's content as long as stamp and
  key both stand (`Judged`).

`RewriteProofs`, from `RewriteAssumption` (jobs have a process and kinds of work,
processes a positive number of slots, and the two markers are no jobs). Each
theorem has its own strengthening, and one lemma that every step keeps it:

- `RewriteTypeCorrect`: the types.
- `GateStands`, and with it `SkipsStayHonest`: a job that changed the library is
  past the gate or was never stoppable, whoever is past it was not prevented, and
  a job that has not begun is neither marked nor past it.
- `SkipsAlwaysReach`: a marked job whose ffmpeg runs was registered before the
  mark or answered at its registration.
- `TitleSurvives`: a job that publishes has flushed what it publishes, and one
  that removes a source has published; so no name is soft, and one has a file.
- `NothingNewerIsLost`: past its last look a job's files stand as it judged them,
  unless it is blind. In its own process the owner of the title is what keeps
  every other job from writing between the look and the rename.
- `CleanupIsSafe`: a job with a live staged file has a slot, and a startup that
  lists work to drop holds every slot it wanted until it has dropped it.

`StoresProofs`, of pauses from `PausesAssumption` (requests and readers have a process,
readers a file, places are finitely many, and `Free` is nobody and no record):

- `PausesTypeCorrect`: the types.
- `BatchesStayWhole`: a request in its transaction has the lock, and what it read
  is the store; the batch is counted with what it read.
- `PausedFilesAlwaysRest`: `MemoHolds`. A memo under a mark may be newer than the
  mark, never older: it has every pause that has stood since a reader took that
  mark or an earlier one. Remembering under the mark taken before the read is what
  makes it so, and what a reader then goes by has every pause that stands for it.
- `FlagAlwaysSurvives`: whoever has a record to write has the flag's lock, and
  the record is what is live.

and of settings from `SettingsAssumption` (`TZ` is a setting and no credential, the
page names settings, and startup judges no credential's text):

- `SettingsTypeCorrect`, by `NamesInv`: what a save would go back to is a file like
  the one in place.
- `SavesStayWhole`, by `WholeInv`. `KeyInv`: one process at a time fills a key
  file, which is empty until then. `SealInv`: every credential in the file, in
  what a save would go back to and in what it is about to write is plain or
  sealed under the key in force, unless a key file was taken away. `SaveInv`: in
  every state of a save, what it would go back to is what a start takes. It is
  here that a save begins from settings in force without problems, and so none is
  known to it beforehand.

`QueueViewProofs`, from `QueueViewAssumption` (admissions are a finite set of
positive numbers):

- `CapturesAlwaysStandStill`, by `ViewInv` (`ViewInvHolds`). `BlockInv`: the block
  and what stands beside it are in order, share no row, are stamped within the
  generation in force, and hold every row that waits from `queuedFrom` on, every
  one on offer from `shownFrom` on. `CaptureInv`: a captured block is only ever
  appended to, by rows whose stamps are later than the capture's generation, and
  a row it took is restamped later as well. `KnownInv` is that a row not yet
  published stands nowhere.

`PlannerProofs`, from `PlannerAssumption` (films are files, `aac`, `ac3` and `srt` are
codecs, a spelling leads to a code that is its own, an *arr answers with a code, and
settings as stated have the entries `config.py` parses into lists):

- Of the operators: a non-empty set of tracks of any size has a `Best`, from which
  the fallback of `_choose_downmixes` is made; keys of one length that differ have
  an order (`Lower`), so that `Sorted` gives each of finitely many things a place
  and no two the same one. This is a permutation: what a rewrite leaves is what
  `Outputs` names, each once. Neither needs an induction, since a place is a count,
  not a step of a sort.
- `PlannerTypeCorrect`: the types, through the sort, the copy and the encode of each
  stream. It needs that every accepted row states a codec and a rate, which is what
  `SplitEntry` fills in from `Stock`, and that files stay sequences.
- `SettledFilesAlwaysServed`: let a settled file have something at least the size of
  a layout in a wanted language, and no track of just that size. Then the whole pass
  chooses a downmix for it, from a track it kept, unless all of them are stale; that
  fires the downmix rule, which never rides, or regenerate where a stale track claims
  it, which orders nothing only if it rides; and the deciding pass, where nothing
  rides, fires too. What remains is `Withheld`.
- `ListedLanguagesAlwaysHeard`: a track of a listed language survives the language
  rule, the commentary rule spares it, and what each later rule drops or makes again
  is what `Expendable` says: tracks trackstarr made, sizes put up for removal, and
  any track of a layout's size where regenerate judges all (`UnexpendableIsCopied`).
  A copy keeps its language, or is tagged as the original's. That some
  audio is left (`SomethingKept`) is the fallback of each rule that would take the
  last track.

`ScheduleProofs`, from `ScheduleAssumption` (nights open before they close, zones
change by whole minutes, schedules are lists of fields as `Field` has them):

- Of the calendar, for all days: a day of the 400-year cycle is the *r*-th of a
  year of four years of a century (`EveryDayIsDated`), from which `Year` and
  `DayOfYear` compute just that (`DatesOfCycle`); a day of the year comes again
  within nine years (`DateRecurs`: 29 February across 2100), and so does a weekday
  in a month (`WeekdayRecurs`). `MatchesRecur`, that a date which matches comes
  again before `_HORIZON`, follows for every expression that parses.
- `ScheduleTypeCorrect`, by `Turns`: a walk that has begun is of an expression with
  minutes, so never `NoWalk`, and a sleep takes time or has a run due at its end.
- `RunsAreNeverPassedOver`, by `WalkInv`: no time of the expression lies between
  the first minute to come and where the walk is; a stride to the next day, hour
  or minute keeps it so (`Strides`).
- `SlotsAreAlwaysKept`, by `SleepInv`: no slot of the schedule in force lies
  within what was asked of a sleep but at its end, where a run is then due, unless
  the schedule is fresh until then. How late the sleep ends is not assumed.
  `HourForward` is: that clocks go forward by an hour and on the hour, and nothing
  of how they go back. The proof needs it in one place: a wall time the clocks
  skip is taken for a later moment than a slot at the gap's end, which is harmless
  only because an expression has the same minutes in every hour. In Lord Howe's half hour it is not: the thread
  sleeping towards a 02:15 that does not come passes over the 02:30 of
  "15,30 2 * * *" (a later slot it still meets, since it reads the clock again
  after each slice).

Only model-checked:

- liveness (`StoppedQueueDrains`, `WaitersAreTaken`, `ParkedIsReleased`), which is
  out of the prover's reach;
- `RewritesSettle`: that a chain of rewrites ends needs a measure that every rule
  lowers, and the bound, four, is that of the instance: with more tracks there are
  more to tag and to make;
- `PartsTypeOK`, which only puts the parts' types side by side; each is a theorem of
  its part (`QueueView`'s within `ViewInvHolds`);
- the properties of the violated runs.

## Not modelled

- Rewrite records, estimates and history: stores read and written whole under one
  lock, an append-only log, and arithmetic over their sums. `rewrites.rekey` moves
  whatever record the old name has, also one of an earlier file.
- Accounts and sessions: stores of one process, each under its lock; the sign-in
  throttle is a count in memory that nothing else reads.
- Library, links and artwork, the HTTP API and its pages, the web UI: answers
  computed from what others keep, caches of them, and I/O.
- Of modelled parts: a sweep's totals and report, which add up what the modelled
  steps return; audit lines; the wiring of threads and the command line; the clock
  being set by hand or by NTP.

## Plan

What could follow, in this order:

1. `SweepCache`, further: `move` and `remove`, a crash between an edit and its
   flush, and an abstract store that always holds the last accepted verdict.
2. `Scheduler` composed with `QueueView`, whose rows follow its admissions, and
   with `Rewrite`, whose jobs are its workers.
3. A sweep's booking, and the producers' leases in shutdown.
4. Theorems: the abstract store of (1) as a refinement, and a measure of a file that
   every rewrite lowers, for `RewritesSettle`.
