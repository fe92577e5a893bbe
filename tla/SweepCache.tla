------------------------------ MODULE SweepCache ------------------------------
(***************************************************************************)
(* The verdict cache: src/trackstarr/sweep_cache.py, with the walks of      *)
(* sweep.py and the workers and edits of processing.py, jobs.py and retag.py *)
(* that use it.                                                             *)
(*                                                                         *)
(* A verdict is what a probe concluded about a file.  Walks keep verdicts   *)
(* in memory and write the store at checkpoints; everything else publishes  *)
(* into a batch that a flusher writes.  An observation fences a verdict: it *)
(* is accepted only if no other observation has changed the file since this *)
(* one began to look.  Stores, walks and batches all stand for one STATE_DIR.*)
(*                                                                         *)
(* A revision's version only ever answers whether an observation's stamp is *)
(* still its own, so the model keeps that answer: `fresh`.                  *)
(***************************************************************************)
EXTENDS Integers, FiniteSets

CONSTANTS
  Path,       \* library files
  Observer,   \* observations of files, each made once
  Walk,       \* sweeps and re-checks, each run once
  Policy,     \* fingerprints of the rules
  None,       \* no entry, no file, no owner, no walk, no store
  MaxWrites,  \* bound on how often files change
  MaxRules    \* bound on how often the rules change

ASSUME SweepCacheAssumption ==
  /\ MaxWrites \in Nat /\ MaxRules \in Nat
  /\ Path # {} /\ Policy # {}
  /\ None \notin Observer \cup Walk \cup Policy
  /\ None \notin Nat

VARIABLES
  files,     \* path -> what is there: its content and the key a stat gives it
  clock,     \* how often a file has changed, which numbers contents and keys
  rules,     \* the fingerprint of the settings in force
  changes,   \* how often the rules changed
  owner,     \* path -> the observation changing it
  observer,  \* observer -> its observation
  walks,     \* walk -> its SweepCache
  pending,   \* the unwritten batch
  disk,      \* the store
  intact     \* no write has failed, no walk has died before it wrote, and no probe
             \* overtaken by an edit has passed for one made after it

vars == <<files, clock, rules, changes, owner, observer, walks, pending, disk, intact>>

Stamp == 0..MaxWrites
Content == [content : Stamp, key : Stamp]
\* Only a good entry answers for a file: a stale one was judged under other rules,
\* and a failed one is kept for display and retried.
Entry == [content : Stamp, key : Stamp, mark : {"good", "failed", "stale"}]
Entries == [Path -> Entry \cup {None}]
Store == [policy : Policy, entries : Entries]
Empty == [p \in Path |-> None]

ASSUME NoneIsNothing == None \notin Content /\ None \notin Entry /\ None \notin Store

Observation == [
  stage : {"idle", "new", "open", "keyed", "judged", "owning", "spoiled",
           "closing", "leaving", "over"},
  path : Path, target : Path, policy : Policy, walk : Walk \cup {None},
  fresh : SUBSET Path,       \* paths held whose stamp is still the revision's
  changing : SUBSET Path,    \* paths it owns
  inPlace : BOOLEAN, wrote : BOOLEAN, published : BOOLEAN, edited : BOOLEAN,
  key : Stamp \cup {None}, content : Stamp \cup {None}]

Cache == [
  stage : {"idle", "loaded", "live", "walking", "saved", "over"},
  policy : Policy, superseded : BOOLEAN, dirty : BOOLEAN,
  previous : Entries, next : Entries,
  heard : SUBSET Path, external : Entries,   \* _external, a map on `heard`
  dropped : SUBSET Path,
  scope : SUBSET Path,   \* its folders' files, there or not
  listed : SUBSET Path, todo : SUBSET Path]   \* what it found, and has yet to look at

NotObserving == [
  stage |-> "idle", path |-> CHOOSE p \in Path : TRUE, target |-> CHOOSE p \in Path : TRUE,
  policy |-> CHOOSE r \in Policy : TRUE, walk |-> None, fresh |-> {}, changing |-> {},
  inPlace |-> FALSE, wrote |-> FALSE, published |-> FALSE, edited |-> FALSE,
  key |-> None, content |-> None]

NotWalking == [
  stage |-> "idle", policy |-> CHOOSE r \in Policy : TRUE, superseded |-> FALSE,
  dirty |-> FALSE, previous |-> Empty, next |-> Empty, heard |-> {}, external |-> Empty,
  dropped |-> {}, scope |-> {}, listed |-> {}, todo |-> {}]
-----------------------------------------------------------------------------
(* Views of the cache *)

Live == {w \in Walk : walks[w].stage \in {"live", "walking", "saved"}}
\* The walks whose memory counts: the others neither publish nor write.
Current == {w \in Live : ~walks[w].superseded}

MergeExternal(w, entries) ==
  [p \in Path |-> IF p \in walks[w].heard THEN walks[w].external[p] ELSE entries[p]]

\* The previous walk's entries less this walk's drops, plus its verdicts and
\* what other walks and publications told it.
Standing(w) ==
  MergeExternal(w, [p \in Path |-> IF walks[w].next[p] # None THEN walks[w].next[p]
                                   ELSE IF p \in walks[w].dropped THEN None
                                   ELSE walks[w].previous[p]])

\* Mutant: readers and publications see what the flusher has written, no later.
StoredOnDisk == disk

\* The store as a reader or writer in this process sees it: the batch first.
Stored == IF pending # None THEN pending ELSE disk

\* A store's entries under other rules than its own are stale.
Marked(store, policy) ==
  IF store = None THEN Empty
  ELSE [p \in Path |-> IF store.entries[p] = None \/ store.policy = policy
                       THEN store.entries[p]
                       ELSE [store.entries[p] EXCEPT !.mark = "stale"]]

\* What a page is shown, once it has caught up: a walk's verdicts while there is
\* one under the rules in force, and the store otherwise.
Viewed == {w \in Current : walks[w].policy = rules}
View == IF Viewed # {} THEN Standing(CHOOSE w \in Viewed : TRUE)
        ELSE Marked(Stored, rules)

\* A hit's entry goes forward untouched, unless this walk dropped it.
Carry(w, p) ==
  LET c == walks[w]
      entry == IF p \in c.heard THEN c.external[p]
               ELSE IF c.next[p] # None THEN c.next[p] ELSE c.previous[p]
  IN IF p \in c.dropped \/ entry = None THEN walks
     ELSE [walks EXCEPT ![w].next[p] = entry]
-----------------------------------------------------------------------------
(* Shared mutations *)

\* Source and output replaced in one mutation: `set` emptied, the output given e.
Replace(entries, set, output, e) ==
  [p \in Path |-> IF p \notin set THEN entries[p] ELSE IF p = output THEN e ELSE None]

\* A change of these paths fences every observation of them.
Fence(obs, set) == [o \in Observer |-> [obs[o] EXCEPT !.fresh = @ \ set]]

\* Mutant: walks hear of edits outside them, and not of one another.
ShareEdits(ws, source, policy, set, entries) ==
  [w \in Walk |-> IF w \in Live /\ source = None /\ ws[w].policy = policy
                  THEN [ws[w] EXCEPT !.heard = @ \cup set,
                          !.external = [p \in Path |-> IF p \in set THEN entries[p] ELSE @[p]]]
                  ELSE ws[w]]

\* Every other live walk under these rules is told of the change.
Share(ws, source, policy, set, entries) ==
  [w \in Walk |-> IF w \in Live /\ w # source /\ ws[w].policy = policy
                  THEN [ws[w] EXCEPT !.heard = @ \cup set,
                          !.external = [p \in Path |-> IF p \in set THEN entries[p] ELSE @[p]]]
                  ELSE ws[w]]

\* Mutant: nobody else has the files, whoever has had them since.
AcceptsUnstamped(o, set) == \A p \in set : owner[p] \in {None, o}

Accepts(o, set) ==
  /\ set \subseteq observer[o].fresh
  /\ \A p \in set : owner[p] \in {None, o}

\* A walk's own publication: its memory only, and the other walks'.
Installs(o, w, set) ==
  /\ Accepts(o, set)
  /\ walks[w].policy = observer[o].policy
  /\ ~walks[w].superseded

Installed(w, set, entries) ==
  [Share(walks, w, walks[w].policy, set, entries) EXCEPT
     ![w].heard = @ \ set,
     ![w].external = [p \in Path |-> IF p \in set THEN None ELSE @[p]],
     ![w].next = [p \in Path |-> IF p \in set THEN entries[p] ELSE @[p]],
     ![w].dropped = {p \in @ \cup set : p \notin set \/ entries[p] = None},
     ![w].dirty = TRUE]

\* An edit of the store outside a walk is refused under rules that are neither
\* in force nor what the store and every live walk were judged under.
Edits(o, set) ==
  LET policy == observer[o].policy IN
  /\ Accepts(o, set)
  /\ \/ policy = rules
     \/ /\ Stored = None \/ Stored.policy = policy
        /\ \A w \in Live : walks[w].policy = policy

\* A live walk's standing view is edited instead of the file, and walks under
\* other rules are superseded.
EditStore(o, set, output, e) ==
  LET policy == observer[o].policy
      before == Marked(Stored, policy)
      told == {w \in Current : walks[w].policy = policy}
      base == IF told = {} THEN before ELSE Standing(CHOOSE w \in told : TRUE)
      after == Replace(base, set, output, e)
      rivals == {w \in Live : walks[w].policy # policy}
      shared == Share(walks, None, policy, set, after)
  IN /\ walks' = [w \in Walk |-> IF w \in rivals THEN [shared[w] EXCEPT !.superseded = TRUE]
                                 ELSE shared[w]]
     /\ pending' = IF after = before THEN pending ELSE [policy |-> policy, entries |-> after]
-----------------------------------------------------------------------------
(* Observations *)

Set(o, changed) == observer' = [observer EXCEPT ![o] = changed]

\* An observation takes the rules in force before it waits for its file.  A
\* walk's observe what it listed, to judge it and again to rewrite it; deliveries
\* and edits from a page, any file.
Begin(o, p, w) ==
  /\ observer[o].stage = "idle"
  /\ w # None => walks[w].stage = "walking" /\ p \in walks[w].listed
  /\ Set(o, [NotObserving EXCEPT !.stage = "new", !.path = p, !.target = p,
                                    !.policy = rules, !.walk = w])
  /\ walks' = IF w = None THEN walks ELSE [walks EXCEPT ![w].todo = @ \ {p}]
  /\ UNCHANGED <<files, clock, rules, changes, owner, pending, disk, intact>>

\* Nobody else is changing these files.
Settled(o, set) == \A p \in set : owner[p] \in {None, o}

Watch(o) ==
  /\ observer[o].stage = "new"
  /\ Settled(o, {observer[o].path})
  /\ Set(o, [observer[o] EXCEPT !.stage = "open", !.fresh = {observer[o].path}])
  /\ UNCHANGED <<files, clock, rules, changes, owner, walks, pending, disk, intact>>

\* A skip ends the wait: the walk carries what is stored, and observes nothing.
StopWaiting(o) ==
  /\ observer[o].stage = "new"
  /\ ~Settled(o, {observer[o].path})
  /\ Set(o, [observer[o] EXCEPT !.stage = "leaving"])
  /\ walks' = IF observer[o].walk = None THEN walks
              ELSE Carry(observer[o].walk, observer[o].path)
  /\ UNCHANGED <<files, clock, rules, changes, owner, pending, disk, intact>>

\* cache_key, before the probe.
Stat(o) ==
  LET file == files[observer[o].target] IN
  /\ observer[o].stage = "open"
  /\ Set(o, [observer[o] EXCEPT !.stage = "keyed",
                                !.key = IF file = None THEN None ELSE file.key])
  /\ UNCHANGED <<files, clock, rules, changes, owner, walks, pending, disk, intact>>

\* An observation on its way out has forgotten what it found.
Over(obs) == [obs EXCEPT !.stage = "closing", !.target = obs.path, !.inPlace = FALSE,
                         !.edited = FALSE, !.key = None, !.content = None]

\* A walk's lookup answers from the last walk's entry, or what it heard since.
Hit(o) ==
  LET w == observer[o].walk
      p == observer[o].path
      entry == IF p \in walks[w].heard THEN walks[w].external[p] ELSE walks[w].previous[p]
  IN /\ observer[o].stage = "keyed" /\ w # None /\ ~observer[o].edited
     /\ entry # None
     /\ entry.mark = "good" /\ entry.key = observer[o].key
     /\ Set(o, Over(observer[o]))
     /\ walks' = Carry(w, p)
     /\ UNCHANGED <<files, clock, rules, changes, owner, pending, disk, intact>>

Probe(o) ==
  LET file == files[observer[o].target] IN
  /\ observer[o].stage = "keyed"
  /\ Set(o, [observer[o] EXCEPT !.stage = "judged",
                                !.content = IF file = None THEN None ELSE file.content])
  /\ UNCHANGED <<files, clock, rules, changes, owner, walks, pending, disk, intact>>

\* Mutant: a file that is gone has the key of a file that could not be read.
KeyStandsGone(o) ==
  observer[o].key = IF files[observer[o].target] = None THEN None
                    ELSE files[observer[o].target].key

\* The file's stat is taken again before its verdict is accepted.
KeyStands(o) ==
  /\ observer[o].key # None
  /\ files[observer[o].target] # None
  /\ files[observer[o].target].key = observer[o].key

Touched(o) == {observer[o].path, observer[o].target}

\* A publication of entry e, or of no verdict where e is None.
Publication(o, set, output, e) ==
  LET w == observer[o].walk
      inWalk == w # None
      accepted == IF inWalk THEN Installs(o, w, set) ELSE Edits(o, set)
      after == Replace(Empty, set, output, e)
      obs == [observer EXCEPT ![o] = [Over(observer[o]) EXCEPT !.published = @ \/ accepted]]
  IN /\ observer' = IF accepted THEN Fence(obs, set) ELSE obs
     /\ IF ~accepted THEN UNCHANGED <<walks, pending>>
        ELSE IF inWalk THEN walks' = Installed(w, set, after) /\ UNCHANGED pending
        ELSE EditStore(o, set, output, e)

Verdict(o, mark) ==
  [content |-> observer[o].content, key |-> observer[o].key, mark |-> mark]

\* The verdict of a file as it stands, or of a failure, which is kept for display.
Publish(o, mark) ==
  /\ observer[o].stage \in {"judged", "spoiled"}
  /\ mark = "good" => observer[o].stage = "judged" /\ observer[o].content # None
  /\ IF KeyStands(o)
     THEN Publication(o, Touched(o), observer[o].target, Verdict(o, mark))
     ELSE Set(o, Over(observer[o])) /\ UNCHANGED <<walks, pending>>
  /\ UNCHANGED <<files, clock, rules, changes, owner, disk, intact>>

\* A deferred file has no verdict, nor has a rewrite's output that would not be
\* probed; what is stored for the source goes.
PublishNothing(o) ==
  /\ observer[o].stage \in {"judged", "spoiled"}
  /\ observer[o].content # None \/ (observer[o].stage = "judged" /\ observer[o].edited)
  /\ Publication(o, {observer[o].path}, observer[o].path, None)
  /\ UNCHANGED <<files, clock, rules, changes, owner, disk, intact>>

\* The ways out without a publication: one stopped by a skip carries what is
\* stored, as does a failure out of attempts; an exception carries nothing.
Abandon(o, carries) ==
  /\ observer[o].stage \in {"open", "keyed", "judged", "owning", "spoiled"}
  /\ Set(o, Over(observer[o]))
  /\ walks' = IF observer[o].walk = None \/ ~carries THEN walks
              ELSE Carry(observer[o].walk, observer[o].path)
  /\ UNCHANGED <<files, clock, rules, changes, owner, pending, disk, intact>>
-----------------------------------------------------------------------------
(* Changing files *)

\* An edit in place takes its file, a rewrite its source and output, both at
\* once; a rewrite says it wrote as it takes them, an edit once it has.
Take(o, output, inPlace) ==
  LET set == {observer[o].path, output}
      obs == Fence(observer, set)
  IN /\ \/ observer[o].stage = "judged"
        \/ observer[o].stage = "open" /\ inPlace /\ observer[o].walk = None
        \/ observer[o].stage = "spoiled" /\ ~inPlace
     /\ ~observer[o].edited
     /\ inPlace => output = observer[o].path
     /\ Settled(o, set)
     /\ owner' = [p \in Path |-> IF p \in set THEN o ELSE owner[p]]
     /\ observer' = [obs EXCEPT ![o].stage = "owning", ![o].fresh = @ \cup set,
                                ![o].changing = set, ![o].inPlace = inPlace,
                                ![o].target = output, ![o].wrote = @ \/ ~inPlace]
     /\ UNCHANGED <<files, clock, rules, changes, walks, pending, disk, intact>>

\* A header edit, which may leave size and mtime as they were.
EditInPlace(o, keeps, stage) ==
  LET p == observer[o].path IN
  /\ observer[o].stage = "owning" /\ observer[o].inPlace
  /\ files[p] # None /\ clock < MaxWrites
  /\ files' = [files EXCEPT ![p].content = clock + 1,
                            ![p].key = IF keeps THEN @ ELSE clock + 1]
  /\ clock' = clock + 1
  /\ Set(o, [observer[o] EXCEPT !.stage = stage, !.wrote = TRUE, !.edited = TRUE])
  /\ UNCHANGED <<rules, changes, owner, walks, pending, disk, intact>>

\* The source is as it was planned and no other file stands where a remux lands;
\* the source of a remux may fail to go.
Rewrite(o) ==
  LET p == observer[o].path
      q == observer[o].target
  IN /\ observer[o].stage = "owning" /\ ~observer[o].inPlace
     /\ files[p] # None /\ clock < MaxWrites
     /\ files[p].key = observer[o].key
     /\ p = q \/ files[q] = None
     /\ \E left \in {None, files[p]} :
          files' = [files EXCEPT ![p] = left,
                                 ![q] = [content |-> clock + 1, key |-> clock + 1]]
     /\ clock' = clock + 1
     /\ Set(o, [observer[o] EXCEPT !.stage = "open", !.edited = TRUE])
     /\ UNCHANGED <<rules, changes, owner, walks, pending, disk, intact>>

\* A change turned away after it took its files: nothing is written, but the
\* observation says it wrote, and reaches a failure or no verdict at all.
Rejected(o) ==
  /\ observer[o].stage = "owning"
  /\ Set(o, [observer[o] EXCEPT !.stage = "spoiled", !.wrote = TRUE, !.edited = TRUE,
                                !.target = observer[o].path])
  /\ UNCHANGED <<files, clock, rules, changes, owner, walks, pending, disk, intact>>

\* The file cannot be edited in place: it is given back, and rewritten instead.
Refused(o) ==
  /\ observer[o].stage = "owning" /\ observer[o].inPlace
  /\ observer[o].content # None
  /\ owner' = [p \in Path |-> IF p \in observer[o].changing THEN None ELSE owner[p]]
  /\ Set(o, [observer[o] EXCEPT !.stage = "spoiled", !.changing = {}])
  /\ UNCHANGED <<files, clock, rules, changes, walks, pending, disk, intact>>

\* The tag is there already: another edit wrote it since this one's probe, whose
\* verdict is published all the same, under the stamp taken since.
Unchanged(o) ==
  LET file == files[observer[o].path] IN
  /\ observer[o].stage = "owning" /\ observer[o].inPlace
  /\ observer[o].content # None
  /\ file # None /\ file.content # observer[o].content
  /\ intact' = (intact /\ file.key # observer[o].key)
  /\ Set(o, [observer[o] EXCEPT !.stage = "judged", !.edited = TRUE])
  /\ UNCHANGED <<files, clock, rules, changes, owner, walks, pending, disk>>

Changing(o) == \/ \E q \in Path, inPlace \in BOOLEAN : Take(o, q, inPlace)
               \/ \E keeps \in BOOLEAN, stage \in {"open", "spoiled"} :
                    EditInPlace(o, keeps, stage)
               \/ Rewrite(o) \/ Rejected(o) \/ Refused(o) \/ Unchanged(o)
-----------------------------------------------------------------------------
(* Closing an observation *)

\* Mutant: an edit in place whose verdict does not arrive keeps the stored one.
InvalidatesRemuxes(o) ==
  Cardinality(observer[o].changing) = 2 /\ observer[o].wrote /\ ~observer[o].published

\* A change that published nothing takes the stored entries with it, unless the
\* rules moved and the store is no longer this observation's to edit.
Invalidates(o) ==
  observer[o].changing # {} /\ observer[o].wrote /\ ~observer[o].published

Invalidate(o) ==
  LET set == observer[o].changing
      obs == [observer EXCEPT ![o].stage = "leaving", ![o].published = Edits(o, set)]
  IN /\ observer[o].stage = "closing"
     /\ Invalidates(o)
     /\ IF Edits(o, set)
        THEN EditStore(o, set, observer[o].path, None) /\ observer' = Fence(obs, set)
        ELSE observer' = obs /\ UNCHANGED <<walks, pending>>
     /\ UNCHANGED <<files, clock, rules, changes, owner, disk, intact>>

Release(o) ==
  /\ \/ observer[o].stage = "leaving"
     \/ observer[o].stage = "closing" /\ ~Invalidates(o)
  /\ owner' = [p \in Path |-> IF owner[p] = o THEN None ELSE owner[p]]
  /\ Set(o, [NotObserving EXCEPT !.stage = "over"])
  /\ UNCHANGED <<files, clock, rules, changes, walks, pending, disk, intact>>

Observe(o) ==
  \/ \E p \in Path, w \in Walk \cup {None} : Begin(o, p, w)
  \/ Watch(o) \/ StopWaiting(o) \/ Stat(o) \/ Hit(o) \/ Probe(o)
  \/ \E mark \in {"good", "failed"} : Publish(o, mark)
  \/ \E carries \in BOOLEAN : Abandon(o, carries)
  \/ PublishNothing(o) \/ Invalidate(o) \/ Release(o)
-----------------------------------------------------------------------------
(* Walks *)

Drained(w) == \A o \in Observer : observer[o].walk # w

\* The rules are fixed before the library is listed.
Load(w) ==
  /\ walks[w].stage = "idle"
  /\ walks' = [walks EXCEPT ![w] = [NotWalking EXCEPT !.stage = "loaded", !.policy = rules]]
  /\ UNCHANGED <<files, clock, rules, changes, owner, observer, pending, disk, intact>>

\* Mutant: a walk that joins gives way to nobody and supersedes nobody.
RivalsNone(w) == {}

Rivals(w) == {v \in Current : walks[v].policy # walks[w].policy}

\* Registered against other walks: it starts from theirs if they share its rules,
\* and of two sets of rules the one in force supersedes the other.
Join(w) ==
  LET policy == walks[w].policy
      late == policy # rules
      peers == {v \in Current : walks[v].policy = policy}
      previous == IF peers = {} THEN Marked(Stored, policy)
                  ELSE Standing(CHOOSE v \in peers : TRUE)
  IN /\ walks[w].stage = "loaded"
     /\ walks' = [v \in Walk |->
          IF v = w THEN [walks[w] EXCEPT !.stage = "live", !.previous = previous,
                                         !.superseded = late]
          ELSE IF v \in Rivals(w) /\ ~late THEN [walks[v] EXCEPT !.superseded = TRUE]
          ELSE walks[v]]
     /\ UNCHANGED <<files, clock, rules, changes, owner, observer, pending, disk, intact>>

\* The listing: the files there are under the folders it was given.
List(w, scope) ==
  LET found == {p \in scope : files[p] # None} IN
  /\ walks[w].stage = "live"
  /\ walks' = [walks EXCEPT ![w].stage = "walking", ![w].scope = scope,
                            ![w].listed = found, ![w].todo = found]
  /\ UNCHANGED <<files, clock, rules, changes, owner, observer, pending, disk, intact>>

\* A walk's view is written whole, and the batch it carries is forgotten.
Write(w, entries, written) ==
  IF walks[w].superseded \/ ~written
  THEN /\ UNCHANGED <<disk, pending>>
       /\ intact' = (intact /\ walks[w].superseded)
  ELSE /\ disk' = [policy |-> walks[w].policy, entries |-> entries]
       /\ pending' = None
       /\ UNCHANGED intact

\* checkpoint, while walking; keep, at the end of a walk that prunes nothing.
Keep(w, stage, written) ==
  /\ walks[w].stage = "walking"
  /\ stage = "walking" => walks[w].dirty
  /\ stage = "saved" => Drained(w)
  /\ walks' = [walks EXCEPT ![w].stage = stage, ![w].dirty = FALSE]
  /\ Write(w, Standing(w), written)
  /\ UNCHANGED <<files, clock, rules, changes, owner, observer>>

\* Entries under the folders that the walk brought nothing forward for.
Pruned(w) ==
  {p \in walks[w].scope : Standing(w)[p] # None /\ MergeExternal(w, walks[w].next)[p] = None}

\* A completed walk drops them, here and in the other walks.
Save(w, written) ==
  /\ walks[w].stage = "walking" /\ walks[w].todo = {} /\ Drained(w)
  /\ IF walks[w].superseded
     THEN walks' = [walks EXCEPT ![w].stage = "saved"] /\ UNCHANGED <<observer, disk, pending, intact>>
     ELSE LET gone == Pruned(w) IN
          /\ walks' = [Share(walks, w, walks[w].policy, gone, Empty) EXCEPT
                         ![w].stage = "saved", ![w].dropped = @ \cup gone]
          /\ observer' = Fence(observer, gone)
          /\ Write(w, Replace(Standing(w), gone, None, None), written)
  /\ UNCHANGED <<files, clock, rules, changes, owner>>

\* The end of live(), whether or not the walk reached its own end.
Leave(w) ==
  /\ walks[w].stage \in {"live", "walking", "saved"}
  /\ Drained(w)
  /\ walks' = [walks EXCEPT ![w] = [NotWalking EXCEPT !.stage = "over"]]
  /\ intact' = (intact /\ (walks[w].stage = "saved" \/ walks[w].superseded))
  /\ UNCHANGED <<files, clock, rules, changes, owner, observer, pending, disk>>

Walking(w) ==
  \/ Load(w) \/ Join(w) \/ Leave(w)
  \/ \E scope \in SUBSET Path : List(w, scope)
  \/ \E written \in BOOLEAN : \/ Save(w, written)
                              \/ \E stage \in {"walking", "saved"} : Keep(w, stage, written)
-----------------------------------------------------------------------------
(* The batch, and commands *)

\* The flusher's window, and the flush of a shutdown: the batch goes either way.
Flush(written) ==
  /\ pending # None
  /\ disk' = IF written THEN pending ELSE disk
  /\ pending' = None
  /\ intact' = (intact /\ written)
  /\ UNCHANGED <<files, clock, rules, changes, owner, observer, walks>>

\* Everything stored goes, and every observation of any file is fenced.
Clear ==
  /\ disk' = None /\ pending' = None
  /\ observer' = Fence(observer, Path)
  /\ walks' = [w \in Walk |-> IF w \notin Live THEN walks[w] ELSE
       [walks[w] EXCEPT !.previous = Empty, !.next = Empty, !.heard = {},
                        !.external = Empty, !.dropped = {}]]
  /\ UNCHANGED <<files, clock, rules, changes, owner, intact>>

ChangeRules(policy) ==
  /\ policy # rules /\ changes < MaxRules
  /\ rules' = policy /\ changes' = changes + 1
  /\ UNCHANGED <<files, clock, owner, observer, walks, pending, disk, intact>>

\* Another program replaces, adds or removes a file, which changes its key.
Outside(p) ==
  /\ clock < MaxWrites
  /\ clock' = clock + 1
  /\ \/ files' = [files EXCEPT ![p] = [content |-> clock + 1, key |-> clock + 1]]
     \/ files[p] # None /\ files' = [files EXCEPT ![p] = None]
  /\ UNCHANGED <<rules, changes, owner, observer, walks, pending, disk, intact>>
-----------------------------------------------------------------------------
\* What an earlier sweep stored of the files there are.
Earlier(there) ==
  [p \in Path |-> IF there[p] = None THEN None
                  ELSE [content |-> 0, key |-> 0, mark |-> "good"]]

Init ==
  /\ files \in [Path -> {None, [content |-> 0, key |-> 0]}]
  /\ disk \in {None} \cup [policy : Policy, entries : {Earlier(files)}]
  /\ clock = 0 /\ changes = 0 /\ rules \in Policy
  /\ owner = Empty
  /\ observer = [o \in Observer |-> NotObserving]
  /\ walks = [w \in Walk |-> NotWalking]
  /\ pending = None /\ intact = TRUE

Next ==
  \/ \E o \in Observer : Observe(o) \/ Changing(o)
  \/ \E w \in Walk : Walking(w)
  \/ \E written \in BOOLEAN : Flush(written)
  \/ Clear
  \/ \E policy \in Policy : ChangeRules(policy)
  \/ \E p \in Path : Outside(p)

Spec == Init /\ [][Next]_vars
-----------------------------------------------------------------------------
(* Properties *)

\* Every variable keeps its type: in particular no stored entry lacks the key and
\* the content it was judged from.
TypeOK ==
  /\ files \in [Path -> Content \cup {None}]
  /\ clock \in Stamp /\ rules \in Policy /\ changes \in 0..MaxRules
  /\ owner \in [Path -> Observer \cup {None}]
  /\ observer \in [Observer -> Observation]
  /\ walks \in [Walk -> Cache]
  /\ pending \in Store \cup {None} /\ disk \in Store \cup {None}
  /\ intact \in BOOLEAN

\* The walks that count judge under one set of rules, however the settings change
\* between a walk's rules, its listing and its registration (live, _edit_store),
\* and hold the same entries, so that neither's checkpoint writes over the other's
\* verdicts or brings back what it dropped (_share, _standing).
WalksAgree ==
  \A v, w \in Current :
    walks[v].policy = walks[w].policy /\ Standing(v) = Standing(w)

\* While the rules stay and nothing is lost, an entry that would answer for a file
\* describes the file as it is, unless an observation is changing it.  A header
\* edit may leave size and mtime alone, and still neither the verdict from before
\* it nor one from a probe it overtook answers (changing, accepts, close).
HitsAreTrue ==
  (intact /\ changes = 0) =>
    \A p \in Path :
      (/\ View[p] # None /\ files[p] # None /\ owner[p] = None
       /\ View[p].mark = "good" /\ View[p].key = files[p].key)
      => View[p].content = files[p].content

\* What changes an entry a page is shown: a publication, an invalidation, a
\* completed walk's prune, a clear.
Accounted ==
  \/ \E o \in Observer : observer[o].stage \in {"judged", "spoiled", "closing"}
                         /\ observer'[o].stage # observer[o].stage
  \/ \E w \in Walk : walks[w].stage = "walking" /\ walks'[w].stage = "saved" /\ Pruned(w) # {}
  \/ Clear
Shown == [p \in Path |-> IF View[p] = None THEN None ELSE <<View[p].content, View[p].key>>]

\* Nothing else shows or hides a verdict while nothing is lost and the walks are
\* under the rules in force: a page reads the same entries from a walk's memory,
\* the batch and the store as walks join, checkpoint and end and the batch is
\* flushed (live, keep, _write, _persist, read, live_view).
OnlyChangesShow ==
  [][intact' /\ ~Accounted /\ rules' = rules /\ Current = Viewed
     => Shown' = Shown]_vars

\* A completed walk drops no entry of a file it visited: save says it persists "a
\* completed walk, dropping entries it never visited" (sweep_cache.py:863).
PrunesOnlyUnvisited ==
  [][\A w \in Walk, written \in BOOLEAN :
       (Save(w, written) /\ ~walks[w].superseded)
       => Pruned(w) \cap (walks[w].listed \ walks[w].todo) = {}]_vars
===============================================================================
