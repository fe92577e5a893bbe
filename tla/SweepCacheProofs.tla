--------------------------- MODULE SweepCacheProofs ---------------------------
(***************************************************************************)
(* What holds of the verdict cache for any files, observations, walks and    *)
(* rules.                                                                  *)
(***************************************************************************)
EXTENDS SweepCache, TLAPS

-----------------------------------------------------------------------------
(***************************************************************************)
(* Lemmas about the helpers.                                               *)
(***************************************************************************)

LEMMA IdleFields ==
  /\ NotObserving.key = None /\ NotObserving.path = NotObserving.target
  /\ NotObserving.edited = FALSE /\ NotObserving.wrote = FALSE
  /\ NotObserving.published = FALSE
  /\ NotObserving.changing = {} /\ NotObserving.fresh = {}
  BY DEF NotObserving

\* What an observation and a walk are before they begin.
LEMMA IdleTypes == /\ Empty \in Entries
                   /\ NotObserving \in Observation
                   /\ NotWalking \in Cache
  <1>1. /\ (CHOOSE p \in Path : TRUE) \in Path
        /\ (CHOOSE r \in Policy : TRUE) \in Policy
    BY SweepCacheAssumption
  <1>2. Empty \in Entries
    BY DEF Empty, Entries
  <1> DEFINE p == CHOOSE p \in Path : TRUE
             r == CHOOSE r \in Policy : TRUE
  <1> HIDE DEF p, r
  <1>3. [stage |-> "idle", path |-> p, target |-> p, policy |-> r, walk |-> None,
         fresh |-> {}, changing |-> {}, inPlace |-> FALSE, wrote |-> FALSE,
         published |-> FALSE, edited |-> FALSE, key |-> None, content |-> None] \in Observation
    BY <1>1 DEF Observation, p, r
  <1>4. [stage |-> "idle", policy |-> r, superseded |-> FALSE, dirty |-> FALSE,
         previous |-> Empty, next |-> Empty, heard |-> {}, external |-> Empty,
         dropped |-> {}, scope |-> {}, listed |-> {}, todo |-> {}] \in Cache
    BY <1>1, <1>2 DEF Cache, r
  <1> QED
    BY <1>2, <1>3, <1>4 DEF NotObserving, NotWalking, p, r

\* A walk's view is made of entries.
LEMMA StandingTypes ==
  ASSUME walks \in [Walk -> Cache], NEW w \in Walk
  PROVE  /\ Standing(w) \in Entries
         /\ \A entries \in Entries : MergeExternal(w, entries) \in Entries
  <1>1. /\ walks[w].previous \in Entries /\ walks[w].next \in Entries
        /\ walks[w].external \in Entries
    BY DEF Cache
  <1>2. \A entries \in Entries : MergeExternal(w, entries) \in Entries
    BY <1>1 DEF MergeExternal, Entries
  <1> QED
    BY <1>1, <1>2 DEF Standing, Entries

\* A store seen under other rules is made of entries.
LEMMA MarkedTypes ==
  ASSUME NEW store \in Store \cup {None}, NEW policy
  PROVE  Marked(store, policy) \in Entries
  <1>1. CASE store = None
    BY <1>1, IdleTypes DEF Marked
  <1>2. CASE store # None
    <2>1. store.entries \in [Path -> Entry \cup {None}]
      BY <1>2 DEF Store, Entries
    <2>2. \A e \in Entry : [e EXCEPT !.mark = "stale"] \in Entry
      BY DEF Entry
    <2> QED
      BY <1>2, <2>1, <2>2 DEF Marked, Entries
  <1> QED
    BY <1>1, <1>2

\* Entries stay entries as one of them is replaced.
LEMMA ReplaceTypes ==
  ASSUME NEW entries \in Entries, NEW set, NEW output, NEW e \in Entry \cup {None}
  PROVE  Replace(entries, set, output, e) \in Entries
  BY DEF Replace, Entries

\* A fence only takes stamps away.
LEMMA FenceTypes ==
  ASSUME NEW obs \in [Observer -> Observation], NEW set
  PROVE  /\ Fence(obs, set) \in [Observer -> Observation]
         /\ \A o \in Observer : Fence(obs, set)[o] = [obs[o] EXCEPT !.fresh = @ \ set]
  <1>1. \A b \in Observation : [b EXCEPT !.fresh = @ \ set] \in Observation
    BY DEF Observation
  <1> QED
    BY <1>1 DEF Fence

\* Telling a walk keeps it a walk.
LEMMA ShareTypes ==
  ASSUME NEW ws \in [Walk -> Cache], NEW source, NEW policy, NEW set \in SUBSET Path,
         NEW entries \in Entries
  PROVE  Share(ws, source, policy, set, entries) \in [Walk -> Cache]
  <1>1. ASSUME NEW c \in Cache
        PROVE  [c EXCEPT !.heard = @ \cup set,
                         !.external = [p \in Path |-> IF p \in set THEN entries[p] ELSE @[p]]]
                 \in Cache
    <2>1. [p \in Path |-> IF p \in set THEN entries[p] ELSE c.external[p]] \in Entries
      BY <1>1 DEF Entries, Cache
    <2> QED
      BY <1>1, <2>1 DEF Cache
  <1> QED
    BY <1>1 DEF Share

\* A carried entry is one of the walk's own.
LEMMA CarryTypes ==
  ASSUME walks \in [Walk -> Cache], NEW w \in Walk, NEW p \in Path
  PROVE  Carry(w, p) \in [Walk -> Cache]
  <1> DEFINE c == walks[w]
             entry == IF p \in c.heard THEN c.external[p]
                      ELSE IF c.next[p] # None THEN c.next[p] ELSE c.previous[p]
  <1>1. c \in Cache /\ entry \in Entry \cup {None}
    BY DEF Cache, Entries
  <1>2. [c.next EXCEPT ![p] = entry] \in Entries
    BY <1>1 DEF Cache, Entries
  <1>3. [c EXCEPT !.next = [c.next EXCEPT ![p] = entry]] \in Cache
    BY <1>1, <1>2 DEF Cache
  <1>4. Carry(w, p) \in {walks, [walks EXCEPT ![w] = [c EXCEPT !.next = [c.next EXCEPT ![p] = entry]]]}
    BY DEF Carry
  <1> HIDE DEF entry, c
  <1> QED
    BY <1>3, <1>4

\* A walk's publication keeps every walk a walk.
LEMMA InstalledTypes ==
  ASSUME walks \in [Walk -> Cache], NEW w \in Walk, NEW set \in SUBSET Path,
         NEW entries \in Entries
  PROVE  Installed(w, set, entries) \in [Walk -> Cache]
  <1> DEFINE ws == Share(walks, w, walks[w].policy, set, entries)
             c == ws[w]
  <1>1. ws \in [Walk -> Cache]
    BY ShareTypes
  <1> HIDE DEF ws
  <1>2. /\ [p \in Path |-> IF p \in set THEN None ELSE c.external[p]] \in Entries
        /\ [p \in Path |-> IF p \in set THEN entries[p] ELSE c.next[p]] \in Entries
    BY <1>1 DEF Cache, Entries
  <1>3. Installed(w, set, entries) = [ws EXCEPT ![w] =
          [c EXCEPT !.heard = @ \ set,
                    !.external = [p \in Path |-> IF p \in set THEN None ELSE @[p]],
                    !.next = [p \in Path |-> IF p \in set THEN entries[p] ELSE @[p]],
                    !.dropped = {p \in @ \cup set : p \notin set \/ entries[p] = None},
                    !.dirty = TRUE]]
    BY <1>1 DEF Installed, ws
  <1>4. [c EXCEPT !.heard = @ \ set,
                  !.external = [p \in Path |-> IF p \in set THEN None ELSE @[p]],
                  !.next = [p \in Path |-> IF p \in set THEN entries[p] ELSE @[p]],
                  !.dropped = {p \in @ \cup set : p \notin set \/ entries[p] = None},
                  !.dirty = TRUE] \in Cache
    <2>1. \A x \in Cache, heard, dropped \in SUBSET Path, external, next \in Entries :
            [x EXCEPT !.heard = heard, !.external = external, !.next = next,
                      !.dropped = dropped, !.dirty = TRUE] \in Cache
      BY ZenonT(40) DEF Cache
    <2>2. /\ c \in Cache /\ c.heard \ set \in SUBSET Path
          /\ {p \in c.dropped \cup set : p \notin set \/ entries[p] = None} \in SUBSET Path
      BY <1>1 DEF Cache
    <2> HIDE DEF c
    <2> QED
      BY <1>2, <2>1, <2>2
  <1> QED
    BY <1>1, <1>3, <1>4

\* The store a reader sees is a store.
LEMMA StoredTypes == TypeOK => Stored \in Store \cup {None}
  BY DEF TypeOK, Stored

\* The view an edit of the store starts from, and what it leaves.
EditBase(o) ==
  LET told == {w \in Current : walks[w].policy = observer[o].policy}
  IN  IF told = {} THEN Marked(Stored, observer[o].policy)
                   ELSE Standing(CHOOSE w \in told : TRUE)
EditAfter(o, set, output, e) == Replace(EditBase(o), set, output, e)

\* What a walk is told, and what becomes of one under other rules.
Hears(c, set, entries) ==
  [c EXCEPT !.heard = @ \cup set,
            !.external = [p \in Path |-> IF p \in set THEN entries[p] ELSE @[p]]]
GivesWay(c) == [c EXCEPT !.superseded = TRUE]

LEMMA HearsTypes ==
  ASSUME NEW c \in Cache, NEW set \in SUBSET Path, NEW entries \in Entries
  PROVE  /\ Hears(c, set, entries) \in Cache
         /\ Hears(c, set, entries).heard = c.heard \cup set
         /\ \A p \in Path : Hears(c, set, entries).external[p] =
                              IF p \in set THEN entries[p] ELSE c.external[p]
         /\ Hears(c, set, entries).stage = c.stage
         /\ Hears(c, set, entries).policy = c.policy
         /\ Hears(c, set, entries).superseded = c.superseded
         /\ Hears(c, set, entries).previous = c.previous
         /\ Hears(c, set, entries).next = c.next
         /\ Hears(c, set, entries).dropped = c.dropped
  <1> DEFINE external == [p \in Path |-> IF p \in set THEN entries[p] ELSE c.external[p]]
  <1>1. external \in Entries
    BY DEF Entries, Cache
  <1>2. \A p \in Path : external[p] = IF p \in set THEN entries[p] ELSE c.external[p]
    OBVIOUS
  <1>3. Hears(c, set, entries) = [c EXCEPT !.heard = c.heard \cup set, !.external = external]
    BY DEF Hears
  <1> HIDE DEF external
  <1>4. /\ Hears(c, set, entries) \in Cache
        /\ Hears(c, set, entries).heard = c.heard \cup set
        /\ Hears(c, set, entries).external = external
    BY <1>1, <1>3 DEF Cache
  <1>5. /\ Hears(c, set, entries).stage = c.stage
        /\ Hears(c, set, entries).policy = c.policy
        /\ Hears(c, set, entries).superseded = c.superseded
        /\ Hears(c, set, entries).previous = c.previous
        /\ Hears(c, set, entries).next = c.next
        /\ Hears(c, set, entries).dropped = c.dropped
    BY <1>3 DEF Cache
  <1> QED
    BY <1>2, <1>4, <1>5

LEMMA GivesWayTypes ==
  ASSUME NEW c \in Cache
  PROVE  /\ GivesWay(c) \in Cache /\ GivesWay(c).superseded
         /\ GivesWay(c).stage = c.stage /\ GivesWay(c).policy = c.policy
         /\ GivesWay(c).next = c.next /\ GivesWay(c).heard = c.heard
         /\ GivesWay(c).dropped = c.dropped
  BY DEF GivesWay, Cache

\* Every other live walk under the same rules is told, and no other.
LEMMA ShareTells ==
  ASSUME NEW ws, NEW source, NEW policy, NEW set, NEW entries, NEW w \in Walk
  PROVE  Share(ws, source, policy, set, entries)[w] =
           IF w \in Live /\ w # source /\ ws[w].policy = policy
           THEN Hears(ws[w], set, entries) ELSE ws[w]
  BY DEF Share, Hears

LEMMA EditBaseTypes ==
  ASSUME TypeOK, NEW o
  PROVE  EditBase(o) \in Entries
  <1> DEFINE told == {w \in Current : walks[w].policy = observer[o].policy}
  <1>1. Current \subseteq Walk
    BY DEF Current, Live
  <1>2. CASE told = {}
    BY <1>2, MarkedTypes, StoredTypes DEF EditBase
  <1>3. CASE told # {}
    <2>1. (CHOOSE w \in told : TRUE) \in Walk
      BY <1>1, <1>3
    <2> QED
      BY <1>3, <2>1, StandingTypes DEF EditBase, TypeOK
  <1> QED
    BY <1>2, <1>3

\* An edit of the store: live walks under its rules hear of it, those under others
\* are superseded, and what it leaves is in the batch or was there before.
LEMMA EditMoves ==
  ASSUME TypeOK, NEW o \in Observer, NEW set, NEW output, NEW e, EditStore(o, set, output, e)
  PROVE  /\ \A w \in Walk :
              walks'[w] = IF w \notin Live THEN walks[w]
                          ELSE IF walks[w].policy = observer[o].policy
                          THEN Hears(walks[w], set, EditAfter(o, set, output, e))
                          ELSE GivesWay(walks[w])
         /\ \/ /\ EditAfter(o, set, output, e) = Marked(Stored, observer[o].policy)
               /\ pending' = pending
            \/ pending' = [policy |-> observer[o].policy,
                           entries |-> EditAfter(o, set, output, e)]
         /\ walks' = [w \in Walk |-> walks'[w]]
  <1> DEFINE policy == observer[o].policy
             after == EditAfter(o, set, output, e)
             shared == Share(walks, None, policy, set, after)
             rivals == {w \in Live : walks[w].policy # policy}
  <1>1. /\ walks' = [w \in Walk |-> IF w \in rivals THEN [shared[w] EXCEPT !.superseded = TRUE]
                                    ELSE shared[w]]
        /\ pending' = IF after = Marked(Stored, policy) THEN pending
                      ELSE [policy |-> policy, entries |-> after]
    BY DEF EditStore, EditAfter, EditBase
  <1> HIDE DEF after
  <1>2. \A w \in Walk : shared[w] = IF w \in Live /\ walks[w].policy = policy
                                    THEN Hears(walks[w], set, after) ELSE walks[w]
    BY ShareTells, SweepCacheAssumption
  <1> HIDE DEF shared
  <1>3. \A w \in Walk : walks'[w] = IF w \in rivals THEN GivesWay(shared[w]) ELSE shared[w]
    BY <1>1 DEF GivesWay
  <1>4. walks' = [w \in Walk |-> walks'[w]]
    BY <1>1
  <1>5. \A w \in Walk : walks'[w] = IF w \notin Live THEN walks[w]
                                    ELSE IF walks[w].policy = policy
                                    THEN Hears(walks[w], set, after)
                                    ELSE GivesWay(walks[w])
    BY <1>2, <1>3
  <1> QED
    BY <1>1, <1>4, <1>5 DEF after

\* It keeps walks walks and the batch a store.
LEMMA EditTypes ==
  ASSUME TypeOK, NEW o \in Observer, NEW set \in SUBSET Path, NEW output,
         NEW e \in Entry \cup {None}, EditStore(o, set, output, e)
  PROVE  walks' \in [Walk -> Cache] /\ pending' \in Store \cup {None}
  <1> DEFINE policy == observer[o].policy
             after == EditAfter(o, set, output, e)
  <1>1. after \in Entries
    BY EditBaseTypes, ReplaceTypes DEF EditAfter
  <1>2. policy \in Policy
    BY DEF TypeOK, Observation
  <1>3. walks' \in [Walk -> Cache]
    <2>1. \A c \in Cache : GivesWay(c) \in Cache /\ Hears(c, set, after) \in Cache
      BY <1>1, HearsTypes, GivesWayTypes
    <2>2. \A w \in Walk : walks[w] \in Cache
      BY DEF TypeOK
    <2>3. \A w \in Walk : walks'[w] \in {walks[w], Hears(walks[w], set, after), GivesWay(walks[w])}
      BY EditMoves
    <2> HIDE DEF after
    <2>4. \A w \in Walk : walks'[w] \in Cache
      BY <2>1, <2>2, <2>3
    <2> QED
      BY <2>4, EditMoves
  <1>4. pending' \in Store \cup {None}
    <2>1. [policy |-> policy, entries |-> after] \in Store
      BY <1>1, <1>2 DEF Store
    <2>2. pending' \in {pending, [policy |-> policy, entries |-> after]}
      BY EditMoves
    <2> HIDE DEF after, policy
    <2> QED
      BY <2>1, <2>2 DEF TypeOK
  <1> QED
    BY <1>3, <1>4

\* An observation on its way out keeps its file, its rules, its walk and what it owns.
Leaves(b, c) ==
  /\ c.stage = "closing" /\ c.target = b.path
  /\ ~c.inPlace /\ ~c.edited /\ c.key = None /\ c.content = None
  /\ c.path = b.path /\ c.policy = b.policy /\ c.walk = b.walk
  /\ c.changing = b.changing /\ c.wrote = b.wrote

LEMMA OverLeaves ==
  ASSUME NEW b \in Observation
  PROVE  /\ Over(b) \in Observation /\ Leaves(b, Over(b))
         /\ Over(b).fresh = b.fresh /\ Over(b).published = b.published
  BY DEF Over, Observation, Leaves

\* What a publication does, accepted or not: its own observation is on its way
\* out, and the others lose their stamps of what it changed.
Publishes(o, set, output, e, accepted) ==
  /\ accepted => Accepts(o, set)
  /\ ~accepted => UNCHANGED <<walks, pending>>
  /\ accepted /\ observer[o].walk # None =>
       /\ Installs(o, observer[o].walk, set)
       /\ walks' = Installed(observer[o].walk, set, Replace(Empty, set, output, e))
       /\ UNCHANGED pending
  /\ accepted /\ observer[o].walk = None => Edits(o, set) /\ EditStore(o, set, output, e)
  /\ \A x \in Observer \ {o} :
       observer'[x] = [observer[x] EXCEPT !.fresh = @ \ (IF accepted THEN set ELSE {})]
  /\ Leaves(observer[o], observer'[o])
  /\ observer'[o].fresh = observer[o].fresh \ (IF accepted THEN set ELSE {})
  /\ observer'[o].published <=> (observer[o].published \/ accepted)

LEMMA PublicationObserves ==
  ASSUME TypeOK, NEW o \in Observer, NEW set, NEW output, NEW e,
         Publication(o, set, output, e)
  PROVE  /\ observer' \in [Observer -> Observation]
         /\ \E accepted \in BOOLEAN : Publishes(o, set, output, e, accepted)
  <1> DEFINE accepted == IF observer[o].walk # None THEN Installs(o, observer[o].walk, set)
                                                    ELSE Edits(o, set)
             obs == [observer EXCEPT ![o] = [Over(observer[o]) EXCEPT !.published = @ \/ accepted]]
  <1>1. accepted \in BOOLEAN
    BY DEF Installs, Edits
  <1>2. PICK a \in BOOLEAN : a <=> accepted
    BY <1>1
  <1>3. accepted => Accepts(o, set)
    BY DEF Installs, Edits
  <1>4. /\ observer' = IF accepted THEN Fence(obs, set) ELSE obs
        /\ ~accepted => UNCHANGED <<walks, pending>>
        /\ accepted => IF observer[o].walk # None
                       THEN /\ walks' = Installed(observer[o].walk, set,
                                                  Replace(Empty, set, output, e))
                            /\ UNCHANGED pending
                       ELSE EditStore(o, set, output, e)
    BY DEF Publication
  <1>5. accepted => IF observer[o].walk # None THEN Installs(o, observer[o].walk, set)
                                               ELSE Edits(o, set)
    OBVIOUS
  <1> HIDE DEF accepted
  <1>6. \A x \in Observer : observer[x] \in Observation
    BY DEF TypeOK
  <1>7. /\ obs \in [Observer -> Observation]
        /\ \A x \in Observer \ {o} : obs[x] = observer[x]
        /\ Leaves(observer[o], obs[o])
        /\ obs[o].fresh = observer[o].fresh
        /\ obs[o].published <=> (observer[o].published \/ a)
    <2> DEFINE over == Over(observer[o])
               new == [over EXCEPT !.published = @ \/ accepted]
    <2>1. /\ over \in Observation /\ Leaves(observer[o], over)
          /\ over.fresh = observer[o].fresh /\ over.published = observer[o].published
      BY <1>6, OverLeaves
    <2>2. obs = [observer EXCEPT ![o] = new]
      OBVIOUS
    <2> HIDE DEF over
    <2>3. /\ new \in Observation
          /\ new.fresh = over.fresh /\ (new.published <=> (over.published \/ a))
          /\ Leaves(observer[o], new)
      BY <1>2, <2>1 DEF Observation, Leaves
    <2> HIDE DEF new, obs
    <2>4. /\ obs \in [Observer -> Observation] /\ obs[o] = new
          /\ \A x \in Observer \ {o} : obs[x] = observer[x]
      BY <2>2, <2>3 DEF TypeOK
    <2> QED
      BY <2>1, <2>3, <2>4
  <1> HIDE DEF obs
  <1>8. /\ observer' \in [Observer -> Observation]
        /\ \A x \in Observer : observer'[x] = [obs[x] EXCEPT !.fresh = @ \ (IF a THEN set ELSE {})]
    <2>1. CASE a
      BY <1>2, <1>4, <1>7, <2>1, FenceTypes
    <2>2. CASE ~a
      <3>1. \A x \in Observer : obs[x] = [obs[x] EXCEPT !.fresh = @ \ {}]
        BY <1>7 DEF Observation
      <3> QED
        BY <1>2, <1>4, <1>7, <2>2, <3>1
    <2> QED
      BY <2>1, <2>2
  <1>9. \A x \in Observer \ {o} :
          observer'[x] = [observer[x] EXCEPT !.fresh = @ \ (IF a THEN set ELSE {})]
    BY <1>7, <1>8
  <1>10. /\ Leaves(observer[o], observer'[o])
         /\ observer'[o].fresh = observer[o].fresh \ (IF a THEN set ELSE {})
         /\ observer'[o].published <=> (observer[o].published \/ a)
    BY <1>7, <1>8 DEF Observation, Leaves
  <1>11. Publishes(o, set, output, e, a)
    BY <1>2, <1>3, <1>4, <1>5, <1>9, <1>10 DEF Publishes
  <1> QED
    BY <1>8, <1>11

-----------------------------------------------------------------------------
(***************************************************************************)
(* Types.  A verdict has the key and the content it was judged from because  *)
(* a probe that found no file cannot be published: a file that comes back    *)
(* has another key.  So the invariant follows the keys, and the order in     *)
(* which an observation goes about its work.                                 *)
(***************************************************************************)

\* What an observation has done at each of its stages.
InOrder(b) ==
  /\ b.stage \in {"idle", "new", "over"} => b.changing = {} /\ b.fresh = {}
  /\ b.stage \in {"new", "open"} /\ ~b.edited => b.key = None
  /\ ~b.edited /\ b.stage # "owning" => b.target = b.path
  /\ ~b.edited /\ b.stage \in {"new", "open", "keyed", "judged", "spoiled"} => ~b.wrote
  /\ b.stage = "spoiled" => b.target = b.path
  /\ b.stage = "owning" => ~b.edited /\ b.changing = {b.path, b.target}
  /\ b.stage = "owning" /\ b.inPlace => ~b.wrote /\ b.target = b.path
  /\ b.published => b.stage \in {"closing", "leaving"}
  /\ b.changing # {} /\ b.stage \in {"open", "keyed", "judged", "spoiled"} => b.edited

\* The file an observation's key is about.
Subject(b) == IF b.stage = "owning" THEN b.path ELSE b.target

\* A key was taken of a file there was, and of none that has come since.
KeyIsOld(b, n) == b.key # None => b.key <= n
KeyIsGone(b, there) ==
  (b.stage \in {"judged", "owning", "spoiled"} /\ b.key # None /\ b.content = None)
    => there[Subject(b)] = None \/ there[Subject(b)].key # b.key

KeysAreOld == \A p \in Path : files[p] # None => files[p].key <= clock

\* The inductive invariant of types.
TypeInv ==
  /\ TypeOK
  /\ KeysAreOld
  /\ \A o \in Observer : /\ InOrder(observer[o])
                         /\ KeyIsOld(observer[o], clock)
                         /\ KeyIsGone(observer[o], files)

\* The types of one observation's parts, and of the numbers it is judged by.
LEMMA ObservationTypes ==
  ASSUME TypeOK
  PROVE  /\ clock \in Nat /\ MaxWrites \in Nat
         /\ \A p \in Path : files[p] # None => /\ files[p] \in Content
                                               /\ files[p].key \in Nat
                                               /\ files[p].content \in Nat
                                               /\ files[p].key # None
                                               /\ files[p].content # None
         /\ \A o \in Observer :
              LET b == observer[o]
              IN  /\ b \in Observation /\ b.path \in Path /\ b.target \in Path
                  /\ b.policy \in Policy /\ b.walk \in Walk \cup {None}
                  /\ b.fresh \in SUBSET Path /\ b.changing \in SUBSET Path
                  /\ b.key \in Nat \cup {None} /\ b.content \in Nat \cup {None}
  <1>1. clock \in Nat /\ MaxWrites \in Nat /\ Stamp \subseteq Nat
    BY SweepCacheAssumption DEF TypeOK, Stamp
  <1>2. \A p \in Path : files[p] # None => /\ files[p] \in Content
                                           /\ files[p].key \in Nat
                                           /\ files[p].content \in Nat
    BY <1>1 DEF TypeOK, Content
  <1>3. \A o \in Observer : observer[o] \in Observation
    BY DEF TypeOK
  <1>4. \A b \in Observation : /\ b.path \in Path /\ b.target \in Path
                               /\ b.policy \in Policy /\ b.walk \in Walk \cup {None}
                               /\ b.fresh \in SUBSET Path /\ b.changing \in SUBSET Path
                               /\ b.key \in Nat \cup {None} /\ b.content \in Nat \cup {None}
    BY <1>1 DEF Observation
  <1> QED
    BY <1>1, <1>2, <1>3, <1>4, SweepCacheAssumption

\* Losing stamps changes nothing an observation knows of its file.
LEMMA FencedInOrder ==
  ASSUME NEW b \in Observation, NEW c, NEW set, c = [b EXCEPT !.fresh = @ \ set]
  PROVE  /\ c \in Observation
         /\ InOrder(b) => InOrder(c)
         /\ KeyIsOld(b, clock) => KeyIsOld(c, clock)
         /\ KeyIsGone(b, files) => KeyIsGone(c, files)
  <1>1. /\ c \in Observation /\ c.fresh = b.fresh \ set
        /\ c.stage = b.stage /\ c.path = b.path /\ c.target = b.target
        /\ c.changing = b.changing /\ c.inPlace = b.inPlace /\ c.wrote = b.wrote
        /\ c.published = b.published /\ c.edited = b.edited
        /\ c.key = b.key /\ c.content = b.content
    BY DEF Observation
  <1> QED
    BY <1>1 DEF InOrder, KeyIsOld, KeyIsGone, Subject

\* One observation moves, others may lose stamps, and no file changes.
LEMMA ObserverMoves ==
  ASSUME TypeInv, NEW o \in Observer,
         observer' \in [Observer -> Observation],
         \A x \in Observer \ {o} :
           \E set : observer'[x] = [observer[x] EXCEPT !.fresh = @ \ set],
         InOrder(observer'[o]), KeyIsOld(observer'[o], clock), KeyIsGone(observer'[o], files),
         walks' \in [Walk -> Cache], owner' \in [Path -> Observer \cup {None}],
         pending' \in Store \cup {None}, disk' \in Store \cup {None}, intact' \in BOOLEAN,
         UNCHANGED <<files, clock, rules, changes>>
  PROVE  TypeInv'
  <1>1. TypeOK'
    BY DEF TypeInv, TypeOK
  <1>2. KeysAreOld'
    BY DEF TypeInv, KeysAreOld
  <1>3. \A x \in Observer : /\ InOrder(observer'[x]) /\ KeyIsOld(observer'[x], clock)
                            /\ KeyIsGone(observer'[x], files)
    BY FencedInOrder DEF TypeInv, TypeOK
  <1>4. \A x \in Observer : /\ InOrder(observer[x])' /\ KeyIsOld(observer[x], clock)'
                            /\ KeyIsGone(observer[x], files)'
    BY <1>3 DEF InOrder, KeyIsOld, KeyIsGone, Subject
  <1> QED
    BY <1>1, <1>2, <1>4 DEF TypeInv

\* The same, when no other observation is touched.
LEMMA SetMoves ==
  ASSUME TypeInv, NEW o \in Observer, NEW b \in Observation, Set(o, b),
         InOrder(b), KeyIsOld(b, clock), KeyIsGone(b, files),
         walks' \in [Walk -> Cache], owner' \in [Path -> Observer \cup {None}],
         intact' \in BOOLEAN,
         UNCHANGED <<files, clock, rules, changes, pending, disk>>
  PROVE  TypeInv'
  <1>1. /\ observer' = [observer EXCEPT ![o] = b]
        /\ observer \in [Observer -> Observation]
    BY DEF Set, TypeInv, TypeOK
  <1>2. /\ observer' \in [Observer -> Observation] /\ observer'[o] = b
        /\ \A x \in Observer \ {o} : observer'[x] = observer[x]
    BY <1>1
  <1>3. \A x \in Observer : observer[x] = [observer[x] EXCEPT !.fresh = @ \ {}]
    BY <1>1 DEF Observation
  <1>4. \A x \in Observer \ {o} :
          observer'[x] = [observer[x] EXCEPT !.fresh = @ \ {}]
    BY <1>2, <1>3
  <1>5. pending' \in Store \cup {None} /\ disk' \in Store \cup {None}
    BY DEF TypeInv, TypeOK
  <1> QED
    BY <1>2, <1>4, <1>5, ObserverMoves

\* Initially nothing is observed, and an earlier sweep's entries have keys.
LEMMA InitTypes == Init => TypeInv
  <1> SUFFICES ASSUME Init PROVE TypeInv
    OBVIOUS
  <1>1. 0 \in Stamp /\ 0 \in 0..MaxRules /\ [content |-> 0, key |-> 0] \in Content
    BY SweepCacheAssumption DEF Stamp, Content
  <1>2. files \in [Path -> Content \cup {None}]
    BY <1>1 DEF Init
  <1>3. Earlier(files) \in Entries
    <2>1. [content |-> 0, key |-> 0, mark |-> "good"] \in Entry
      BY <1>1 DEF Entry
    <2> QED
      BY <2>1 DEF Earlier, Entries
  <1>4. disk \in Store \cup {None}
    BY <1>3 DEF Init, Store
  <1>5. owner \in [Path -> Observer \cup {None}]
    BY DEF Init, Empty
  <1>6. /\ observer \in [Observer -> Observation] /\ walks \in [Walk -> Cache]
        /\ \A o \in Observer : observer[o] = NotObserving
    BY IdleTypes DEF Init
  <1>7. TypeOK
    BY <1>1, <1>2, <1>4, <1>5, <1>6 DEF Init, TypeOK
  <1>8. KeysAreOld
    BY DEF Init, KeysAreOld
  <1>9. InOrder(NotObserving) /\ KeyIsOld(NotObserving, clock) /\ KeyIsGone(NotObserving, files)
    BY DEF InOrder, KeyIsOld, KeyIsGone, NotObserving
  <1> QED
    BY <1>6, <1>7, <1>8, <1>9 DEF TypeInv

\* A publication sends its observation on its way out; the batch or the walks it
\* reaches stay what they are.
LEMMA PublicationTypes ==
  ASSUME TypeInv, NEW o \in Observer, NEW set \in SUBSET Path, NEW output,
         NEW e \in Entry \cup {None}, Publication(o, set, output, e),
         observer[o].stage \in {"judged", "spoiled"},
         UNCHANGED <<files, clock, rules, changes, owner, disk, intact>>
  PROVE  TypeInv'
  <1>1. /\ TypeOK /\ walks \in [Walk -> Cache] /\ observer[o].walk \in Walk \cup {None}
        /\ owner' \in [Path -> Observer \cup {None}] /\ disk' \in Store \cup {None}
        /\ intact' \in BOOLEAN /\ pending \in Store \cup {None}
    BY ObservationTypes DEF TypeInv, TypeOK
  <1>2. PICK accepted \in BOOLEAN : Publishes(o, set, output, e, accepted)
    BY <1>1, PublicationObserves
  <1>3. observer' \in [Observer -> Observation]
    BY <1>1, PublicationObserves
  <1>4. walks' \in [Walk -> Cache] /\ pending' \in Store \cup {None}
    <2>1. CASE ~accepted
      BY <1>1, <1>2, <2>1 DEF Publishes
    <2>2. CASE accepted /\ observer[o].walk # None
      <3>1. Replace(Empty, set, output, e) \in Entries
        BY IdleTypes, ReplaceTypes
      <3>2. walks' = Installed(observer[o].walk, set, Replace(Empty, set, output, e))
            /\ pending' = pending
        BY <1>2, <2>2 DEF Publishes
      <3> QED
        BY <1>1, <2>2, <3>1, <3>2, InstalledTypes
    <2>3. CASE accepted /\ observer[o].walk = None
      BY <1>1, <1>2, <2>3, EditTypes DEF Publishes
    <2> QED
      BY <2>1, <2>2, <2>3
  <1>5. \A x \in Observer \ {o} :
          \E s : observer'[x] = [observer[x] EXCEPT !.fresh = @ \ s]
    BY <1>2 DEF Publishes
  <1>6. InOrder(observer'[o]) /\ KeyIsOld(observer'[o], clock) /\ KeyIsGone(observer'[o], files)
    BY <1>2 DEF Publishes, InOrder, KeyIsOld, KeyIsGone, Leaves
  <1> QED
    BY <1>1, <1>3, <1>4, <1>5, <1>6, ObserverMoves

\* What is published with a key is a verdict: the file it is about is the one
\* that was probed, or one that was probed and found.
LEMMA VerdictTypes ==
  ASSUME TypeInv, NEW o \in Observer, NEW mark \in {"good", "failed"},
         observer[o].stage \in {"judged", "spoiled"}, KeyStands(o)
  PROVE  Verdict(o, mark) \in Entry
  <1>1. observer[o].key # None /\ observer[o].content # None
    BY DEF TypeInv, KeyStands, KeyIsGone, Subject
  <1>2. observer[o].key \in Stamp /\ observer[o].content \in Stamp
    BY <1>1 DEF TypeInv, TypeOK, Observation
  <1> QED
    BY <1>2 DEF Verdict, Entry

\* An observation that publishes nothing more goes out the same way.
LEMMA OverInOrder ==
  ASSUME TypeInv, NEW o \in Observer,
         observer[o].stage \in {"open", "keyed", "judged", "owning", "spoiled"}
  PROVE  /\ Over(observer[o]) \in Observation
         /\ InOrder(Over(observer[o])) /\ KeyIsOld(Over(observer[o]), clock)
         /\ KeyIsGone(Over(observer[o]), files)
  <1>1. observer[o] \in Observation
    BY DEF TypeInv, TypeOK
  <1>2. Over(observer[o]) \in Observation /\ Leaves(observer[o], Over(observer[o]))
        /\ Over(observer[o]).published = observer[o].published
    BY <1>1, OverLeaves
  <1> QED
    BY <1>2 DEF TypeInv, InOrder, KeyIsOld, KeyIsGone, Leaves

\* What an invalidation does, accepted or not.
Invalidated(o, accepted) ==
  LET b == observer[o] IN
  /\ accepted => Edits(o, b.changing) /\ EditStore(o, b.changing, b.path, None)
  /\ ~accepted => ~Edits(o, b.changing) /\ UNCHANGED <<walks, pending>>
  /\ \A x \in Observer \ {o} :
       observer'[x] = [observer[x] EXCEPT !.fresh = @ \ (IF accepted THEN b.changing ELSE {})]
  /\ observer'[o].stage = "leaving"
  /\ observer'[o].path = b.path /\ observer'[o].target = b.target
  /\ observer'[o].policy = b.policy /\ observer'[o].walk = b.walk
  /\ observer'[o].changing = b.changing /\ observer'[o].wrote = b.wrote
  /\ observer'[o].key = b.key
  /\ observer'[o].edited = b.edited
  /\ observer'[o].fresh = b.fresh \ (IF accepted THEN b.changing ELSE {})

LEMMA InvalidateObserves ==
  ASSUME TypeOK, NEW o \in Observer, Invalidate(o)
  PROVE  /\ observer' \in [Observer -> Observation]
         /\ \E accepted \in BOOLEAN : Invalidated(o, accepted)
  <1> DEFINE b == observer[o]
             new == [b EXCEPT !.stage = "leaving", !.published = Edits(o, b.changing)]
             obs == [observer EXCEPT ![o] = new]
  <1>1. PICK a \in BOOLEAN : a <=> Edits(o, b.changing)
    BY DEF Edits
  <1>2. b \in Observation /\ observer \in [Observer -> Observation]
    BY DEF TypeOK
  <1>3. /\ new \in Observation /\ new.stage = "leaving"
        /\ new.path = b.path /\ new.target = b.target /\ new.policy = b.policy
        /\ new.walk = b.walk /\ new.changing = b.changing /\ new.wrote = b.wrote
        /\ new.key = b.key /\ new.edited = b.edited /\ new.fresh = b.fresh
    BY <1>1, <1>2 DEF Observation, Edits
  <1>4. /\ observer' = IF Edits(o, b.changing) THEN Fence(obs, b.changing) ELSE obs
        /\ Edits(o, b.changing) => EditStore(o, b.changing, b.path, None)
        /\ ~Edits(o, b.changing) => UNCHANGED <<walks, pending>>
    <2>1. [observer EXCEPT ![o].stage = "leaving", ![o].published = Edits(o, b.changing)] = obs
      BY <1>2 DEF Observation
    <2> HIDE DEF obs
    <2> QED
      BY <2>1 DEF Invalidate
  <1> HIDE DEF new
  <1>5. /\ obs \in [Observer -> Observation] /\ obs[o] = new
        /\ \A x \in Observer \ {o} : obs[x] = observer[x]
    BY <1>2, <1>3
  <1> HIDE DEF obs
  <1>6. /\ observer' \in [Observer -> Observation]
        /\ \A x \in Observer :
             observer'[x] = [obs[x] EXCEPT !.fresh = @ \ (IF a THEN b.changing ELSE {})]
    <2>1. CASE a
      BY <1>1, <1>4, <1>5, <2>1, FenceTypes
    <2>2. CASE ~a
      <3>1. \A x \in Observer : obs[x] = [obs[x] EXCEPT !.fresh = @ \ {}]
        BY <1>5 DEF Observation
      <3> QED
        BY <1>1, <1>4, <1>5, <2>2, <3>1
    <2> QED
      BY <2>1, <2>2
  <1> DEFINE after == observer'[o]
  <1>7. /\ after.stage = "leaving"
        /\ after.path = b.path /\ after.target = b.target /\ after.policy = b.policy
        /\ after.walk = b.walk /\ after.changing = b.changing /\ after.wrote = b.wrote
        /\ after.key = b.key /\ after.edited = b.edited
        /\ after.fresh = b.fresh \ (IF a THEN b.changing ELSE {})
    BY <1>3, <1>5, <1>6 DEF Observation
  <1>8. Invalidated(o, a)
    BY <1>1, <1>4, <1>5, <1>6, <1>7 DEF Invalidated
  <1> QED
    BY <1>6, <1>8

\* An invalidation takes entries away, and its observation is done.
LEMMA InvalidateTypes ==
  ASSUME TypeInv, NEW o \in Observer, Invalidate(o)
  PROVE  TypeInv'
  <1>1. /\ TypeOK /\ walks \in [Walk -> Cache] /\ observer[o].changing \in SUBSET Path
        /\ pending \in Store \cup {None}
        /\ InOrder(observer[o]) /\ KeyIsOld(observer[o], clock)
        /\ owner \in [Path -> Observer \cup {None}] /\ disk \in Store \cup {None}
        /\ intact \in BOOLEAN
    BY ObservationTypes DEF TypeInv, TypeOK
  <1>2. PICK a \in BOOLEAN : Invalidated(o, a)
    BY <1>1, InvalidateObserves
  <1>3. observer' \in [Observer -> Observation]
    BY <1>1, InvalidateObserves
  <1>4. walks' \in [Walk -> Cache] /\ pending' \in Store \cup {None}
    BY <1>1, <1>2, EditTypes DEF Invalidated
  <1>5. \A x \in Observer \ {o} :
          \E s : observer'[x] = [observer[x] EXCEPT !.fresh = @ \ s]
    BY <1>2 DEF Invalidated
  <1>6. InOrder(observer'[o]) /\ KeyIsOld(observer'[o], clock) /\ KeyIsGone(observer'[o], files)
    <2>1. observer[o].stage = "closing"
      BY DEF Invalidate
    <2> QED
      BY <1>1, <1>2, <2>1 DEF Invalidated, InOrder, KeyIsOld, KeyIsGone
  <1>7. UNCHANGED <<files, clock, rules, changes, owner, disk, intact>>
    BY DEF Invalidate
  <1> QED
    BY <1>1, <1>3, <1>4, <1>5, <1>6, <1>7, ObserverMoves

\* Observing, from the start to the way out, keeps the types.
LEMMA ObserveTypes ==
  ASSUME TypeInv, NEW o \in Observer, Observe(o)
  PROVE  TypeInv'
  <1> DEFINE b == observer[o]
  <1>0. /\ TypeOK /\ walks \in [Walk -> Cache] /\ b \in Observation
        /\ observer \in [Observer -> Observation]
        /\ b.path \in Path /\ b.target \in Path /\ b.walk \in Walk \cup {None}
        /\ owner \in [Path -> Observer \cup {None}] /\ intact \in BOOLEAN
        /\ rules \in Policy /\ pending \in Store \cup {None} /\ disk \in Store \cup {None}
        /\ InOrder(b) /\ KeyIsOld(b, clock) /\ KeyIsGone(b, files)
    BY ObservationTypes DEF TypeInv, TypeOK
  <1>1. ASSUME NEW p \in Path, NEW w \in Walk \cup {None}, Begin(o, p, w) PROVE TypeInv'
    <2> DEFINE new == [NotObserving EXCEPT !.stage = "new", !.path = p, !.target = p,
                                           !.policy = rules, !.walk = w]
    <2>1. /\ new \in Observation /\ new.stage = "new" /\ new.target = new.path
          /\ ~new.edited /\ ~new.wrote /\ ~new.published /\ new.changing = {}
          /\ new.fresh = {} /\ new.key = None
      <3>1. /\ NotObserving \in Observation /\ NotObserving.key = None
            /\ ~NotObserving.edited /\ ~NotObserving.wrote /\ ~NotObserving.published
            /\ NotObserving.changing = {} /\ NotObserving.fresh = {}
        BY IdleTypes, IdleFields
      <3>2. p \in Path /\ rules \in Policy /\ w \in Walk \cup {None}
        BY <1>0
      <3>3. \A x \in Observation : [x EXCEPT !.stage = "new", !.path = p, !.target = p,
                                          !.policy = rules, !.walk = w] \in Observation
        BY <3>2 DEF Observation
      <3>4. \A x \in Observation : LET y == [x EXCEPT !.stage = "new", !.path = p, !.target = p,
                                                    !.policy = rules, !.walk = w]
              IN /\ y.stage = "new" /\ y.path = p /\ y.target = p
                 /\ y.edited = x.edited /\ y.wrote = x.wrote /\ y.published = x.published
                 /\ y.changing = x.changing /\ y.fresh = x.fresh /\ y.key = x.key
        BY DEF Observation
      <3> QED
        BY <3>1, <3>3, <3>4
    <2>2. walks' \in [Walk -> Cache]
      <3>1. \A c \in Cache : [c EXCEPT !.todo = @ \ {p}] \in Cache
        BY DEF Cache
      <3>2. walks' = IF w = None THEN walks
                     ELSE [walks EXCEPT ![w] = [walks[w] EXCEPT !.todo = @ \ {p}]]
        BY <1>0, <1>1 DEF Begin
      <3> QED
        BY <1>0, <3>1, <3>2
    <2>3. Set(o, new)
      BY <1>1 DEF Begin
    <2> HIDE DEF new
    <2>4. InOrder(new) /\ KeyIsOld(new, clock) /\ KeyIsGone(new, files)
      BY <2>1 DEF InOrder, KeyIsOld, KeyIsGone
    <2> QED
      BY <1>0, <1>1, <2>1, <2>2, <2>3, <2>4, SetMoves DEF Begin
  <1>2. ASSUME Watch(o) PROVE TypeInv'
    <2> DEFINE new == [b EXCEPT !.stage = "open", !.fresh = {b.path}]
    <2>1. new \in Observation
      BY <1>0 DEF Observation
    <2>2. InOrder(new) /\ KeyIsOld(new, clock) /\ KeyIsGone(new, files)
      BY <1>0, <1>2 DEF Observation, Watch, InOrder, KeyIsOld, KeyIsGone
    <2>3. Set(o, new)
      BY <1>2 DEF Watch
    <2> HIDE DEF new
    <2> QED
      BY <1>0, <1>2, <2>1, <2>2, <2>3, SetMoves DEF Watch
  <1>3. ASSUME StopWaiting(o) PROVE TypeInv'
    <2> DEFINE new == [b EXCEPT !.stage = "leaving"]
    <2>1. new \in Observation
      BY <1>0 DEF Observation
    <2>2. InOrder(new) /\ KeyIsOld(new, clock) /\ KeyIsGone(new, files)
      BY <1>0, <1>3 DEF Observation, StopWaiting, InOrder, KeyIsOld, KeyIsGone
    <2>3. Set(o, new) /\ walks' \in [Walk -> Cache]
      BY <1>0, <1>3, CarryTypes DEF StopWaiting
    <2> HIDE DEF new
    <2> QED
      BY <1>0, <1>3, <2>1, <2>2, <2>3, SetMoves DEF StopWaiting
  <1>4. ASSUME Stat(o) PROVE TypeInv'
    <2> DEFINE key == IF files[b.target] = None THEN None ELSE files[b.target].key
               new == [b EXCEPT !.stage = "keyed", !.key = key]
    <2>1. key \in Stamp \cup {None} /\ (key # None => key <= clock)
      BY <1>0 DEF TypeInv, TypeOK, KeysAreOld, Content
    <2>2. Set(o, new)
      BY <1>4 DEF Stat
    <2> HIDE DEF key
    <2>3. new \in Observation
      BY <1>0, <2>1 DEF Observation
    <2>4. InOrder(new) /\ KeyIsOld(new, clock) /\ KeyIsGone(new, files)
      BY <1>0, <1>4, <2>1 DEF Observation, Stat, InOrder, KeyIsOld, KeyIsGone
    <2> HIDE DEF new
    <2> QED
      BY <1>0, <1>4, <2>2, <2>3, <2>4, SetMoves DEF Stat
  <1>5. ASSUME Hit(o) PROVE TypeInv'
    <2>1. b.stage = "keyed" /\ Set(o, Over(b)) /\ b.walk \in Walk
          /\ walks' = Carry(b.walk, b.path)
      BY <1>0, <1>5 DEF Hit
    <2>2. walks' \in [Walk -> Cache]
      BY <1>0, <2>1, CarryTypes
    <2> QED
      BY <1>0, <1>5, <2>1, <2>2, OverInOrder, SetMoves DEF Hit
  <1>6. ASSUME Probe(o) PROVE TypeInv'
    <2> DEFINE content == IF files[b.target] = None THEN None ELSE files[b.target].content
               new == [b EXCEPT !.stage = "judged", !.content = content]
    <2>1. content \in Stamp \cup {None} /\ (content = None => files[b.target] = None)
      BY <1>0, ObservationTypes DEF TypeOK, Content
    <2>2. Set(o, new)
      BY <1>6 DEF Probe
    <2> HIDE DEF content
    <2>3. new \in Observation
      BY <1>0, <2>1 DEF Observation
    <2>4. InOrder(new) /\ KeyIsOld(new, clock) /\ KeyIsGone(new, files)
      BY <1>0, <1>6, <2>1 DEF Observation, Probe, InOrder, KeyIsOld, KeyIsGone, Subject
    <2> HIDE DEF new
    <2> QED
      BY <1>0, <1>6, <2>2, <2>3, <2>4, SetMoves DEF Probe
  <1>7. ASSUME NEW mark \in {"good", "failed"}, Publish(o, mark) PROVE TypeInv'
    <2>1. b.stage \in {"judged", "spoiled"}
          /\ UNCHANGED <<files, clock, rules, changes, owner, disk, intact>>
      BY <1>7 DEF Publish
    <2>2. CASE KeyStands(o)
      <3>1. Publication(o, Touched(o), b.target, Verdict(o, mark))
        BY <1>7, <2>2 DEF Publish
      <3>2. Touched(o) \in SUBSET Path
        BY <1>0 DEF Touched
      <3> QED
        BY <2>1, <2>2, <3>1, <3>2, VerdictTypes, PublicationTypes
    <2>3. CASE ~KeyStands(o)
      <3>1. Set(o, Over(b)) /\ UNCHANGED <<walks, pending>>
        BY <1>7, <2>3 DEF Publish
      <3> QED
        BY <1>0, <2>1, <3>1, OverInOrder, SetMoves
    <2> QED
      BY <2>2, <2>3
  <1>8. ASSUME NEW carries \in BOOLEAN, Abandon(o, carries) PROVE TypeInv'
    <2>1. /\ b.stage \in {"open", "keyed", "judged", "owning", "spoiled"} /\ Set(o, Over(b))
          /\ walks' = IF b.walk = None \/ ~carries THEN walks ELSE Carry(b.walk, b.path)
          /\ UNCHANGED <<files, clock, rules, changes, owner, pending, disk, intact>>
      BY <1>8 DEF Abandon
    <2>2. walks' \in [Walk -> Cache]
      BY <1>0, <2>1, CarryTypes
    <2> QED
      BY <1>0, <2>1, <2>2, OverInOrder, SetMoves
  <1>9. ASSUME PublishNothing(o) PROVE TypeInv'
    BY <1>0, <1>9, PublicationTypes DEF PublishNothing
  <1>10. ASSUME Invalidate(o) PROVE TypeInv'
    BY <1>10, InvalidateTypes
  <1>11. ASSUME Release(o) PROVE TypeInv'
    <2> DEFINE new == [NotObserving EXCEPT !.stage = "over"]
    <2>1. /\ new \in Observation /\ new.stage = "over" /\ new.target = new.path
          /\ ~new.edited /\ ~new.wrote /\ ~new.published /\ new.changing = {}
          /\ new.fresh = {} /\ new.key = None
      <3>1. /\ NotObserving \in Observation /\ NotObserving.key = None
            /\ NotObserving.path = NotObserving.target
            /\ ~NotObserving.edited /\ ~NotObserving.wrote /\ ~NotObserving.published
            /\ NotObserving.changing = {} /\ NotObserving.fresh = {}
        BY IdleTypes, IdleFields
      <3>2. \A x \in Observation : LET y == [x EXCEPT !.stage = "over"]
              IN /\ y \in Observation /\ y.stage = "over" /\ y.path = x.path
                 /\ y.target = x.target
                 /\ y.edited = x.edited /\ y.wrote = x.wrote /\ y.published = x.published
                 /\ y.changing = x.changing /\ y.fresh = x.fresh /\ y.key = x.key
        BY DEF Observation
      <3> QED
        BY <3>1, <3>2
    <2>2. Set(o, new)
      BY <1>11 DEF Release
    <2> HIDE DEF new
    <2>3. InOrder(new) /\ KeyIsOld(new, clock) /\ KeyIsGone(new, files)
      BY <2>1 DEF InOrder, KeyIsOld, KeyIsGone
    <2>4. owner' \in [Path -> Observer \cup {None}]
      BY <1>0, <1>11 DEF Release
    <2> QED
      BY <1>0, <1>11, <2>1, <2>2, <2>3, <2>4, SetMoves DEF Release
  <1> QED
    BY <1>1, <1>2, <1>3, <1>4, <1>5, <1>6, <1>7, <1>8, <1>9, <1>10, <1>11 DEF Observe

\* What a change takes: its files, and everyone else's stamps of them.
Taken(o, output, inPlace) ==
  LET b == observer[o]
      c == observer'[o]
      set == {b.path, output}
  IN
  /\ \A x \in Observer \ {o} : observer'[x] = [observer[x] EXCEPT !.fresh = @ \ set]
  /\ c.stage = "owning" /\ c.path = b.path /\ c.target = output /\ c.changing = set
  /\ c.fresh = b.fresh \cup set /\ c.walk = b.walk /\ c.policy = b.policy
  /\ c.inPlace = inPlace /\ c.edited = b.edited /\ c.published = b.published
  /\ c.key = b.key /\ c.content = b.content
  /\ c.wrote <=> (b.wrote \/ ~inPlace)

LEMMA TakeObserves ==
  ASSUME TypeOK, NEW o \in Observer, NEW output \in Path, NEW inPlace \in BOOLEAN,
         Take(o, output, inPlace)
  PROVE  observer' \in [Observer -> Observation] /\ Taken(o, output, inPlace)
  <1> DEFINE b == observer[o]
             set == {b.path, output}
             obs == Fence(observer, set)
             f == obs[o]
             new == [f EXCEPT !.stage = "owning", !.fresh = f.fresh \cup set,
                              !.changing = set, !.inPlace = inPlace, !.target = output,
                              !.wrote = f.wrote \/ ~inPlace]
  <1>1. /\ obs \in [Observer -> Observation] /\ b.path \in Path
        /\ \A x \in Observer : obs[x] = [observer[x] EXCEPT !.fresh = @ \ set]
        /\ b \in Observation
    BY FenceTypes, ObservationTypes DEF TypeOK
  <1>2. observer' = [obs EXCEPT ![o] = new]
    <2> HIDE DEF obs
    <2>1. observer' = [obs EXCEPT ![o].stage = "owning", ![o].fresh = obs[o].fresh \cup set,
                                  ![o].changing = set, ![o].inPlace = inPlace,
                                  ![o].target = output, ![o].wrote = obs[o].wrote \/ ~inPlace]
      BY DEF Take, obs
    <2> QED
      BY <1>1, <2>1 DEF Observation
  <1> HIDE DEF obs
  <1>3. /\ f \in Observation /\ f.fresh = b.fresh \ set /\ f.path = b.path
        /\ f.walk = b.walk /\ f.policy = b.policy /\ f.edited = b.edited
        /\ f.published = b.published /\ f.key = b.key /\ f.content = b.content
        /\ f.wrote = b.wrote
    BY <1>1 DEF Observation
  <1> HIDE DEF f
  <1>4. /\ new \in Observation
        /\ new.stage = "owning" /\ new.path = f.path /\ new.target = output
        /\ new.changing = set /\ new.fresh = f.fresh \cup set /\ new.walk = f.walk
        /\ new.policy = f.policy /\ new.inPlace = inPlace /\ new.edited = f.edited
        /\ new.published = f.published /\ new.key = f.key /\ new.content = f.content
        /\ new.wrote <=> (f.wrote \/ ~inPlace)
    BY <1>1, <1>3, ZenonT(40) DEF Observation
  <1> HIDE DEF new
  <1>5. /\ observer' \in [Observer -> Observation] /\ observer'[o] = new
        /\ \A x \in Observer \ {o} : observer'[x] = obs[x]
    BY <1>1, <1>2, <1>4
  <1> QED
    BY <1>1, <1>3, <1>4, <1>5 DEF Taken

\* One observation moves as a file changes under new numbers, or keeps its key.
LEMMA FilesMove ==
  ASSUME TypeInv, NEW o \in Observer, NEW b \in Observation, Set(o, b),
         InOrder(b), KeyIsOld(b, clock'), KeyIsGone(b, files'),
         files' \in [Path -> Content \cup {None}], clock' \in Stamp, clock <= clock',
         \A p \in Path : \/ files'[p] = None
                         \/ files[p] # None /\ files'[p].key = files[p].key
                         \/ clock < files'[p].key /\ files'[p].key <= clock',
         UNCHANGED <<rules, changes, owner, walks, pending, disk, intact>>
  PROVE  TypeInv'
  <1>1. /\ observer \in [Observer -> Observation]
        /\ observer' = [observer EXCEPT ![o] = b] /\ clock \in Nat /\ clock' \in Nat
    BY SweepCacheAssumption DEF Set, TypeInv, TypeOK, Stamp
  <1>2. /\ observer' \in [Observer -> Observation] /\ observer'[o] = b
        /\ \A x \in Observer \ {o} : observer'[x] = observer[x]
    BY <1>1
  <1>3. TypeOK'
    BY <1>2 DEF TypeInv, TypeOK
  <1>4. \A p \in Path : /\ files[p] # None => files[p].key \in Nat
                        /\ files'[p] # None => files'[p].key \in Nat
    BY ObservationTypes, <1>3, SweepCacheAssumption DEF TypeInv, TypeOK, Content, Stamp
  <1>5. KeysAreOld'
    BY <1>1, <1>4 DEF TypeInv, KeysAreOld
  <1>6. ASSUME NEW x \in Observer \ {o}
        PROVE  InOrder(observer[x])' /\ KeyIsOld(observer[x], clock)' /\ KeyIsGone(observer[x], files)'
    <2> DEFINE c == observer[x]
    <2>1. /\ c.key \in Nat \cup {None} /\ Subject(c) \in Path
          /\ InOrder(c) /\ KeyIsOld(c, clock) /\ KeyIsGone(c, files) /\ observer'[x] = c
      BY <1>2, <1>6, ObservationTypes DEF TypeInv, Subject
    <2>2. InOrder(observer[x])'
      BY <2>1 DEF InOrder
    <2>3. KeyIsOld(observer[x], clock)'
      BY <1>1, <2>1 DEF KeyIsOld
    <2> DEFINE p == Subject(c)
    <2>4. KeyIsGone(observer[x], files)'
      <3> SUFFICES ASSUME c.stage \in {"judged", "owning", "spoiled"}, c.key # None,
                          c.content = None, files'[p] # None
                   PROVE  files'[p].key # c.key
        BY <2>1 DEF KeyIsGone, Subject
      <3>1. files[p] = None \/ files[p].key # c.key
        BY <2>1 DEF KeyIsGone
      <3>2. c.key <= clock /\ c.key \in Nat
        BY <2>1 DEF KeyIsOld
      <3> HIDE DEF c, p
      <3> QED
        BY <1>1, <1>4, <2>1, <3>1, <3>2 DEF p, c
    <2> QED
      BY <2>2, <2>3, <2>4
  <1>7. InOrder(observer[o])' /\ KeyIsOld(observer[o], clock)' /\ KeyIsGone(observer[o], files)'
    BY <1>2 DEF InOrder, KeyIsOld, KeyIsGone, Subject
  <1> QED
    BY <1>3, <1>5, <1>6, <1>7 DEF TypeInv

\* Changing files keeps the types.
LEMMA ChangingTypes ==
  ASSUME TypeInv, NEW o \in Observer, Changing(o)
  PROVE  TypeInv'
  <1> DEFINE b == observer[o]
  <1>0. /\ TypeOK /\ walks \in [Walk -> Cache] /\ b \in Observation
        /\ observer \in [Observer -> Observation]
        /\ b.path \in Path /\ b.target \in Path
        /\ owner \in [Path -> Observer \cup {None}] /\ intact \in BOOLEAN
        /\ pending \in Store \cup {None} /\ disk \in Store \cup {None}
        /\ InOrder(b) /\ KeyIsOld(b, clock) /\ KeyIsGone(b, files)
        /\ b.key \in Nat \cup {None}
        /\ files \in [Path -> Content \cup {None}] /\ clock \in Nat
    BY ObservationTypes DEF TypeInv, TypeOK
  <1>1. ASSUME NEW q \in Path, NEW inPlace \in BOOLEAN, Take(o, q, inPlace) PROVE TypeInv'
    <2>1. observer' \in [Observer -> Observation] /\ Taken(o, q, inPlace)
      BY <1>0, <1>1, TakeObserves
    <2>2. /\ b.stage \in {"judged", "open", "spoiled"} /\ ~b.edited
          /\ inPlace => q = b.path
      BY <1>1 DEF Take
    <2>3. \A x \in Observer \ {o} :
            \E s : observer'[x] = [observer[x] EXCEPT !.fresh = @ \ s]
      BY <2>1 DEF Taken
    <2>4. b.target = b.path /\ ~b.wrote
      BY <1>0, <2>2 DEF InOrder
    <2>5. InOrder(observer'[o]) /\ KeyIsOld(observer'[o], clock) /\ KeyIsGone(observer'[o], files)
      BY <1>0, <2>1, <2>2, <2>4 DEF Taken, InOrder, KeyIsOld, KeyIsGone, Subject
    <2>6. owner' \in [Path -> Observer \cup {None}]
      BY <1>0, <1>1 DEF Take
    <2>7. UNCHANGED <<files, clock, rules, changes, walks, pending, disk, intact>>
      BY <1>1 DEF Take
    <2> QED
      BY <1>0, <2>1, <2>3, <2>5, <2>6, <2>7, ObserverMoves
  <1>2. ASSUME NEW keeps \in BOOLEAN, NEW stage \in {"open", "spoiled"},
               EditInPlace(o, keeps, stage)
        PROVE  TypeInv'
    <2> DEFINE new == [b EXCEPT !.stage = stage, !.wrote = TRUE, !.edited = TRUE]
               p == b.path
    <2>1. /\ b.stage = "owning" /\ b.inPlace /\ files[p] # None /\ clock < MaxWrites
          /\ files' = [files EXCEPT ![p].content = clock + 1,
                                    ![p].key = IF keeps THEN files[p].key ELSE clock + 1]
          /\ clock' = clock + 1 /\ Set(o, new)
          /\ UNCHANGED <<rules, changes, owner, walks, pending, disk, intact>>
      BY <1>2 DEF EditInPlace
    <2>2. /\ new \in Observation /\ new.stage = stage /\ new.key = b.key
          /\ new.content = b.content /\ new.path = b.path /\ new.target = b.target
          /\ new.changing = b.changing /\ new.published = b.published /\ new.edited
          /\ new.wrote
      BY <1>0 DEF Observation
    <2> HIDE DEF new
    <2>3. clock + 1 \in Stamp /\ clock + 1 \in Nat /\ files[p] \in Content
          /\ files[p].key \in Nat
      BY <1>0, <2>1, SweepCacheAssumption DEF Stamp, Content
    <2>4. /\ files' \in [Path -> Content \cup {None}]
          /\ files'[p].key = IF keeps THEN files[p].key ELSE clock + 1
          /\ \A q \in Path \ {p} : files'[q] = files[q]
      <3>1. /\ [files[p] EXCEPT !.content = clock + 1,
                                !.key = IF keeps THEN files[p].key ELSE clock + 1] \in Content
            /\ [files[p] EXCEPT !.content = clock + 1,
                                !.key = IF keeps THEN files[p].key ELSE clock + 1].key
                 = IF keeps THEN files[p].key ELSE clock + 1
        BY <2>3 DEF Content
      <3>2. files' = [files EXCEPT ![p] = [files[p] EXCEPT !.content = clock + 1,
                                !.key = IF keeps THEN files[p].key ELSE clock + 1]]
        BY <1>0, <2>1, <2>3 DEF Content
      <3> QED
        BY <1>0, <3>1, <3>2
    <2>5. InOrder(new)
      BY <1>0, <2>1, <2>2 DEF InOrder
    <2>6. KeyIsGone(new, files')
      BY <1>0, <2>1, <2>2, <2>3, <2>4 DEF InOrder, KeyIsOld, KeyIsGone, Subject
    <2>7. KeyIsOld(new, clock')
      BY <1>0, <2>1, <2>2 DEF KeyIsOld
    <2>8. clock' \in Stamp /\ clock <= clock'
          /\ \A q \in Path : \/ files'[q] = None
                             \/ files[q] # None /\ files'[q].key = files[q].key
                             \/ clock < files'[q].key /\ files'[q].key <= clock'
      <3>1. clock' = clock + 1 /\ clock \in Nat /\ files[p] # None /\ p \in Path
        BY <1>0, <2>1
      <3> QED
        BY <2>3, <2>4, <3>1
    <2> QED
      BY <2>1, <2>2, <2>4, <2>5, <2>6, <2>7, <2>8, FilesMove
  <1>3. ASSUME Rewrite(o) PROVE TypeInv'
    <2> DEFINE new == [b EXCEPT !.stage = "open", !.edited = TRUE]
               p == b.path
               q == b.target
               made == [content |-> clock + 1, key |-> clock + 1]
    <2>1. /\ b.stage = "owning" /\ files[p] # None /\ clock < MaxWrites
          /\ clock' = clock + 1 /\ Set(o, new)
          /\ UNCHANGED <<rules, changes, owner, walks, pending, disk, intact>>
          /\ \E left \in {None, files[p]} : files' = [files EXCEPT ![p] = left, ![q] = made]
      BY <1>3 DEF Rewrite
    <2>2. /\ new \in Observation /\ new.stage = "open" /\ new.key = b.key
          /\ new.path = b.path /\ new.target = b.target
          /\ new.changing = b.changing /\ new.published = b.published /\ new.edited
      BY <1>0 DEF Observation
    <2> HIDE DEF new
    <2>3. clock + 1 \in Stamp /\ clock + 1 \in Nat /\ made \in Content /\ made.key = clock + 1
      BY <1>0, <2>1, SweepCacheAssumption DEF Stamp, Content
    <2> HIDE DEF made
    <2>4. /\ files' \in [Path -> Content \cup {None}] /\ files'[q] = made
          /\ \A x \in Path \ {q} : files'[x] \in {None, files[x]}
      BY <1>0, <2>1, <2>3
    <2>5. InOrder(new) /\ KeyIsGone(new, files')
      BY <1>0, <2>1, <2>2 DEF InOrder, KeyIsGone
    <2>6. KeyIsOld(new, clock')
      BY <1>0, <2>1, <2>2 DEF KeyIsOld
    <2>7. clock' \in Stamp /\ clock <= clock'
          /\ \A x \in Path : \/ files'[x] = None
                             \/ files[x] # None /\ files'[x].key = files[x].key
                             \/ clock < files'[x].key /\ files'[x].key <= clock'
      BY <1>0, <2>1, <2>3, <2>4
    <2> QED
      BY <2>1, <2>2, <2>4, <2>5, <2>6, <2>7, FilesMove
  <1>4. ASSUME Rejected(o) PROVE TypeInv'
    <2> DEFINE new == [b EXCEPT !.stage = "spoiled", !.wrote = TRUE, !.edited = TRUE,
                                !.target = b.path]
    <2>1. /\ b.stage = "owning" /\ Set(o, new)
          /\ UNCHANGED <<files, clock, rules, changes, owner, walks, pending, disk, intact>>
      BY <1>4 DEF Rejected
    <2>2. new \in Observation
      BY <1>0 DEF Observation
    <2>3. InOrder(new) /\ KeyIsOld(new, clock) /\ KeyIsGone(new, files)
      BY <1>0, <2>1 DEF Observation, InOrder, KeyIsOld, KeyIsGone, Subject
    <2> HIDE DEF new
    <2> QED
      BY <1>0, <2>1, <2>2, <2>3, SetMoves
  <1>5. ASSUME Refused(o) PROVE TypeInv'
    <2> DEFINE new == [b EXCEPT !.stage = "spoiled", !.changing = {}]
    <2>1. /\ b.stage = "owning" /\ b.inPlace /\ Set(o, new)
          /\ UNCHANGED <<files, clock, rules, changes, walks, pending, disk, intact>>
      BY <1>5 DEF Refused
    <2>2. new \in Observation
      BY <1>0 DEF Observation
    <2>3. InOrder(new) /\ KeyIsOld(new, clock) /\ KeyIsGone(new, files)
      BY <1>0, <2>1 DEF Observation, InOrder, KeyIsOld, KeyIsGone, Subject
    <2>4. owner' \in [Path -> Observer \cup {None}]
      BY <1>0, <1>5 DEF Refused
    <2> HIDE DEF new
    <2> QED
      BY <1>0, <2>1, <2>2, <2>3, <2>4, SetMoves
  <1>6. ASSUME Unchanged(o) PROVE TypeInv'
    <2> DEFINE new == [b EXCEPT !.stage = "judged", !.edited = TRUE]
    <2>1. /\ b.stage = "owning" /\ b.inPlace /\ Set(o, new) /\ b.content # None
          /\ UNCHANGED <<files, clock, rules, changes, owner, walks, pending, disk>>
          /\ intact' \in BOOLEAN
      BY <1>6 DEF Unchanged
    <2>2. new \in Observation
      BY <1>0 DEF Observation
    <2>3. InOrder(new) /\ KeyIsOld(new, clock) /\ KeyIsGone(new, files)
      BY <1>0, <2>1 DEF Observation, InOrder, KeyIsOld, KeyIsGone, Subject
    <2> HIDE DEF new
    <2> QED
      BY <1>0, <2>1, <2>2, <2>3, SetMoves
  <1> QED
    BY <1>1, <1>2, <1>3, <1>4, <1>5, <1>6 DEF Changing

\* A step that moves no observation but for its stamps, and no file.
LEMMA StampsMove ==
  ASSUME TypeInv, observer' \in [Observer -> Observation],
         \A x \in Observer :
           \E set : observer'[x] = [observer[x] EXCEPT !.fresh = @ \ set],
         walks' \in [Walk -> Cache], owner' \in [Path -> Observer \cup {None}],
         pending' \in Store \cup {None}, disk' \in Store \cup {None}, intact' \in BOOLEAN,
         rules' \in Policy, changes' \in 0..MaxRules,
         UNCHANGED <<files, clock>>
  PROVE  TypeInv'
  <1>1. TypeOK'
    BY DEF TypeInv, TypeOK
  <1>2. KeysAreOld'
    BY DEF TypeInv, KeysAreOld
  <1>3. \A x \in Observer : /\ InOrder(observer'[x]) /\ KeyIsOld(observer'[x], clock)
                            /\ KeyIsGone(observer'[x], files)
    BY FencedInOrder DEF TypeInv, TypeOK
  <1> QED
    BY <1>1, <1>2, <1>3 DEF TypeInv

\* An unstirred observation is one that lost no stamp.
LEMMA NothingFenced ==
  ASSUME TypeOK, UNCHANGED observer
  PROVE  /\ observer' \in [Observer -> Observation]
         /\ \A x \in Observer :
              \E set : observer'[x] = [observer[x] EXCEPT !.fresh = @ \ set]
  <1>1. \A x \in Observer : observer'[x] = [observer[x] EXCEPT !.fresh = @ \ {}]
    BY DEF TypeOK, Observation
  <1> QED
    BY <1>1 DEF TypeOK

\* A write leaves a store.
LEMMA WriteTypes ==
  ASSUME TypeOK, NEW w \in Walk, NEW entries \in Entries, NEW written \in BOOLEAN,
         Write(w, entries, written)
  PROVE  pending' \in Store \cup {None} /\ disk' \in Store \cup {None} /\ intact' \in BOOLEAN
  <1>1. walks[w].policy \in Policy /\ walks[w].superseded \in BOOLEAN
    BY DEF TypeOK, Cache
  <1>2. [policy |-> walks[w].policy, entries |-> entries] \in Store
    BY <1>1 DEF Store
  <1> QED
    BY <1>1, <1>2 DEF Write, TypeOK

\* What a completed walk drops: nothing more is said of it, in any walk.
LEMMA SaveTypes ==
  ASSUME TypeInv, NEW w \in Walk, NEW written \in BOOLEAN, Save(w, written)
  PROVE  TypeInv'
  <1>0. /\ TypeOK /\ walks \in [Walk -> Cache] /\ observer \in [Observer -> Observation]
        /\ walks[w] \in Cache
        /\ owner' \in [Path -> Observer \cup {None}] /\ rules' \in Policy
        /\ changes' \in 0..MaxRules /\ UNCHANGED <<files, clock>>
        /\ pending \in Store \cup {None} /\ disk \in Store \cup {None} /\ intact \in BOOLEAN
    BY DEF TypeInv, TypeOK, Save
  <1>1. CASE walks[w].superseded
    <2>1. walks' = [walks EXCEPT ![w] = [walks[w] EXCEPT !.stage = "saved"]]
          /\ UNCHANGED <<observer, disk, pending, intact>>
      BY <1>0, <1>1 DEF Save
    <2>2. [walks[w] EXCEPT !.stage = "saved"] \in Cache
      BY <1>0 DEF Cache
    <2>3. walks' \in [Walk -> Cache]
      BY <1>0, <2>1, <2>2
    <2> QED
      BY <1>0, <2>1, <2>3, NothingFenced, StampsMove
  <1>2. CASE ~walks[w].superseded
    <2> DEFINE gone == Pruned(w)
               ws == Share(walks, w, walks[w].policy, gone, Empty)
    <2>1. /\ walks' = [ws EXCEPT ![w].stage = "saved", ![w].dropped = ws[w].dropped \cup gone]
          /\ observer' = Fence(observer, gone)
          /\ Write(w, Replace(Standing(w), gone, None, None), written)
      BY <1>2 DEF Save
    <2>2. gone \in SUBSET Path
      BY <1>0 DEF Pruned, Cache
    <2>3. ws \in [Walk -> Cache]
      BY <1>0, <2>2, IdleTypes, ShareTypes
    <2> HIDE DEF ws, gone
    <2>4. walks' \in [Walk -> Cache]
      <3>1. [ws[w] EXCEPT !.stage = "saved", !.dropped = @ \cup gone] \in Cache
        BY <2>2, <2>3 DEF Cache
      <3>2. walks' = [ws EXCEPT ![w] = [ws[w] EXCEPT !.stage = "saved", !.dropped = @ \cup gone]]
        BY <2>1, <2>3 DEF Cache
      <3> QED
        BY <2>3, <3>1, <3>2
    <2>5. Replace(Standing(w), gone, None, None) \in Entries
      BY <1>0, StandingTypes, ReplaceTypes
    <2>6. pending' \in Store \cup {None} /\ disk' \in Store \cup {None} /\ intact' \in BOOLEAN
      BY <1>0, <2>1, <2>5, WriteTypes
    <2>7. /\ observer' \in [Observer -> Observation]
          /\ \A x \in Observer : observer'[x] = [observer[x] EXCEPT !.fresh = @ \ gone]
      BY <1>0, <2>1, FenceTypes
    <2>8. \A x \in Observer :
            \E set : observer'[x] = [observer[x] EXCEPT !.fresh = @ \ set]
      BY <2>7
    <2> QED
      BY <1>0, <2>4, <2>6, <2>7, <2>8, StampsMove
  <1> QED
    BY <1>1, <1>2

\* Walking keeps the types.
LEMMA WalkingTypes ==
  ASSUME TypeInv, NEW w \in Walk, Walking(w)
  PROVE  TypeInv'
  <1>0. /\ TypeOK /\ walks \in [Walk -> Cache] /\ walks[w] \in Cache
        /\ owner \in [Path -> Observer \cup {None}] /\ rules \in Policy
        /\ changes \in 0..MaxRules
        /\ pending \in Store \cup {None} /\ disk \in Store \cup {None} /\ intact \in BOOLEAN
    BY DEF TypeInv, TypeOK
  <1>1. CASE Load(w)
    <2>1. [NotWalking EXCEPT !.stage = "loaded", !.policy = rules] \in Cache
      BY <1>0, IdleTypes DEF Cache
    <2>2. walks' \in [Walk -> Cache]
      BY <1>0, <1>1, <2>1 DEF Load
    <2> QED
      BY <1>0, <1>1, <2>2, NothingFenced, StampsMove DEF Load
  <1>2. CASE Join(w)
    <2> DEFINE peers == {v \in Current : walks[v].policy = walks[w].policy}
               previous == IF peers = {} THEN Marked(Stored, walks[w].policy)
                           ELSE Standing(CHOOSE v \in peers : TRUE)
               late == walks[w].policy # rules
    <2>1. walks' = [v \in Walk |->
            IF v = w THEN [walks[w] EXCEPT !.stage = "live", !.previous = previous,
                                           !.superseded = late]
            ELSE IF v \in Rivals(w) /\ ~late THEN [walks[v] EXCEPT !.superseded = TRUE]
            ELSE walks[v]]
      BY <1>2 DEF Join
    <2>2. previous \in Entries
      <3>1. CASE peers = {}
        BY <1>0, <3>1, MarkedTypes, StoredTypes
      <3>2. CASE peers # {}
        <4>1. (CHOOSE v \in peers : TRUE) \in Walk
          BY <3>2 DEF Current, Live
        <4> QED
          BY <1>0, <3>2, <4>1, StandingTypes
      <3> QED
        BY <3>1, <3>2
    <2> HIDE DEF previous
    <2>3. \A c \in Cache : /\ [c EXCEPT !.superseded = TRUE] \in Cache
                           /\ [c EXCEPT !.stage = "live", !.previous = previous,
                                        !.superseded = late] \in Cache
      BY <2>2 DEF Cache
    <2> HIDE DEF late
    <2>4. walks' \in [Walk -> Cache]
      BY <1>0, <2>1, <2>3
    <2> QED
      BY <1>0, <1>2, <2>4, NothingFenced, StampsMove DEF Join
  <1>3. CASE Leave(w)
    <2>1. [NotWalking EXCEPT !.stage = "over"] \in Cache
      BY IdleTypes DEF Cache
    <2>2. walks' \in [Walk -> Cache]
      BY <1>0, <1>3, <2>1 DEF Leave
    <2>3. intact' \in BOOLEAN
      BY <1>3 DEF Leave
    <2> QED
      BY <1>0, <1>3, <2>2, <2>3, NothingFenced, StampsMove DEF Leave
  <1>4. ASSUME NEW scope \in SUBSET Path, List(w, scope) PROVE TypeInv'
    <2> DEFINE found == {p \in scope : files[p] # None}
    <2>1. walks' = [walks EXCEPT ![w] = [walks[w] EXCEPT !.stage = "walking", !.scope = scope,
                                                         !.listed = found, !.todo = found]]
      BY <1>0, <1>4 DEF List, Cache
    <2>2. [walks[w] EXCEPT !.stage = "walking", !.scope = scope,
                           !.listed = found, !.todo = found] \in Cache
      BY <1>0 DEF Cache
    <2>3. walks' \in [Walk -> Cache]
      BY <1>0, <2>1, <2>2
    <2> QED
      BY <1>0, <1>4, <2>3, NothingFenced, StampsMove DEF List
  <1>5. ASSUME NEW written \in BOOLEAN, Save(w, written) PROVE TypeInv'
    BY <1>5, SaveTypes
  <1>6. ASSUME NEW written \in BOOLEAN, NEW stage \in {"walking", "saved"},
               Keep(w, stage, written)
        PROVE  TypeInv'
    <2>1. walks' = [walks EXCEPT ![w] = [walks[w] EXCEPT !.stage = stage, !.dirty = FALSE]]
      BY <1>0, <1>6 DEF Keep, Cache
    <2>2. [walks[w] EXCEPT !.stage = stage, !.dirty = FALSE] \in Cache
      BY <1>0 DEF Cache
    <2>3. walks' \in [Walk -> Cache]
      BY <1>0, <2>1, <2>2
    <2>4. pending' \in Store \cup {None} /\ disk' \in Store \cup {None} /\ intact' \in BOOLEAN
      BY <1>0, <1>6, StandingTypes, WriteTypes DEF Keep
    <2> QED
      BY <1>0, <1>6, <2>3, <2>4, NothingFenced, StampsMove DEF Keep
  <1> QED
    BY <1>1, <1>2, <1>3, <1>4, <1>5, <1>6 DEF Walking

\* Flushes, clears, changes of the rules and other programs keep the types.
LEMMA ServiceTypes ==
  ASSUME TypeInv,
         \/ \E written \in BOOLEAN : Flush(written)
         \/ Clear
         \/ \E policy \in Policy : ChangeRules(policy)
         \/ \E p \in Path : Outside(p)
  PROVE  TypeInv'
  <1>0. /\ TypeOK /\ walks \in [Walk -> Cache] /\ observer \in [Observer -> Observation]
        /\ owner \in [Path -> Observer \cup {None}] /\ rules \in Policy
        /\ changes \in 0..MaxRules /\ MaxRules \in Nat
        /\ pending \in Store \cup {None} /\ disk \in Store \cup {None} /\ intact \in BOOLEAN
    BY SweepCacheAssumption DEF TypeInv, TypeOK
  <1>1. ASSUME NEW written \in BOOLEAN, Flush(written) PROVE TypeInv'
    <2>1. pending' \in Store \cup {None} /\ disk' \in Store \cup {None} /\ intact' \in BOOLEAN
      BY <1>0, <1>1 DEF Flush
    <2> QED
      BY <1>0, <1>1, <2>1, NothingFenced, StampsMove DEF Flush
  <1>2. CASE Clear
    <2>1. \A c \in Cache : [c EXCEPT !.previous = Empty, !.next = Empty, !.heard = {},
                                     !.external = Empty, !.dropped = {}] \in Cache
      BY IdleTypes DEF Cache
    <2>2. walks' \in [Walk -> Cache]
      BY <1>0, <1>2, <2>1 DEF Clear
    <2>3. /\ observer' \in [Observer -> Observation]
          /\ \A x \in Observer : observer'[x] = [observer[x] EXCEPT !.fresh = @ \ Path]
      <3>1. observer' = Fence(observer, Path)
        BY <1>2 DEF Clear
      <3> QED
        BY <1>0, <3>1, FenceTypes
    <2>4. \A x \in Observer :
            \E set : observer'[x] = [observer[x] EXCEPT !.fresh = @ \ set]
      BY <2>3
    <2> QED
      BY <1>0, <1>2, <2>2, <2>3, <2>4, StampsMove DEF Clear
  <1>3. ASSUME NEW policy \in Policy, ChangeRules(policy) PROVE TypeInv'
    <2>1. changes' \in 0..MaxRules
      BY <1>0, <1>3 DEF ChangeRules
    <2> QED
      BY <1>0, <1>3, <2>1, NothingFenced, StampsMove DEF ChangeRules
  <1>4. ASSUME NEW p \in Path, Outside(p) PROVE TypeInv'
    <2> DEFINE made == [content |-> clock + 1, key |-> clock + 1]
    <2>1. clock' = clock + 1 /\ clock \in Nat /\ clock < MaxWrites /\ MaxWrites \in Nat
      BY <1>0, <1>4, ObservationTypes DEF Outside
    <2>2. clock + 1 \in Stamp /\ made \in Content /\ made.key = clock + 1
      BY <2>1 DEF Stamp, Content
    <2>3. files' \in {[files EXCEPT ![p] = made], [files EXCEPT ![p] = None]}
      BY <1>4 DEF Outside
    <2> HIDE DEF made
    <2>4. /\ files' \in [Path -> Content \cup {None}] /\ files'[p] \in {None, made}
          /\ \A q \in Path \ {p} : files'[q] = files[q]
      BY <1>0, <2>2, <2>3 DEF TypeOK
    <2>5. TypeOK'
      BY <1>0, <1>4, <2>1, <2>2, <2>4 DEF TypeOK, Outside
    <2>6. \A q \in Path : /\ files[q] # None => files[q].key \in Nat /\ files[q].key <= clock
                          /\ files'[q] # None => \/ files[q] # None /\ files'[q] = files[q]
                                                 \/ files'[q].key = clock + 1
      BY <1>0, <2>2, <2>4, ObservationTypes DEF TypeInv, KeysAreOld
    <2>7. KeysAreOld'
      BY <2>1, <2>6 DEF KeysAreOld
    <2>8. ASSUME NEW x \in Observer
          PROVE  /\ InOrder(observer'[x]) /\ KeyIsOld(observer'[x], clock')
                 /\ KeyIsGone(observer'[x], files')
      <3> DEFINE c == observer[x]
      <3>1. /\ observer'[x] = c /\ InOrder(c) /\ KeyIsOld(c, clock) /\ KeyIsGone(c, files)
            /\ c.key \in Nat \cup {None} /\ Subject(c) \in Path
        BY <1>0, <1>4, ObservationTypes DEF Outside, TypeInv, Subject
      <3>2. KeyIsOld(c, clock')
        BY <2>1, <3>1 DEF KeyIsOld
      <3>3. KeyIsGone(c, files')
        BY <2>1, <2>6, <3>1 DEF KeyIsOld, KeyIsGone
      <3> QED
        BY <3>1, <3>2, <3>3
    <2> QED
      BY <2>5, <2>7, <2>8 DEF TypeInv
  <1> QED
    BY <1>1, <1>2, <1>3, <1>4

\* Every step keeps the inductive invariant of types.
LEMMA TypesKept == TypeInv /\ [Next]_vars => TypeInv'
  <1> SUFFICES ASSUME TypeInv, [Next]_vars PROVE TypeInv'
    OBVIOUS
  <1>1. CASE UNCHANGED vars
    <2>1. UNCHANGED <<files, clock, rules, changes, owner, observer, walks, pending, disk, intact>>
      BY <1>1 DEF vars
    <2> QED
      BY <2>1 DEF TypeInv, TypeOK, KeysAreOld
  <1>2. CASE Next
    BY <1>2, ObserveTypes, ChangingTypes, WalkingTypes, ServiceTypes DEF Next
  <1> QED
    BY <1>1, <1>2

\* The inductive invariant of types holds in every reachable state.
THEOREM CacheTypesHold == Spec => []TypeInv
  <1> QED
    BY InitTypes, TypesKept, PTL DEF Spec

\* Every variable keeps its type: no stored verdict is without the key and the
\* content it was judged from, whatever files come and go around its probe.
THEOREM CacheTypeCorrect == Spec => []TypeOK
  <1>1. TypeInv => TypeOK
    BY DEF TypeInv
  <1> QED
    BY <1>1, CacheTypesHold, PTL

-----------------------------------------------------------------------------
(***************************************************************************)
(* Walks.  A walk's view is a function of its own record, so each step is    *)
(* described by what becomes of each walk's view: it stays, or the entries   *)
(* of a set of files are put into it, the same entries for every walk that   *)
(* counts.                                                                 *)
(***************************************************************************)

\* The view of a walk's record, and whether its memory counts.
StandsAt(c, p) == IF p \in c.heard THEN c.external[p]
                  ELSE IF c.next[p] # None THEN c.next[p]
                  ELSE IF p \in c.dropped THEN None ELSE c.previous[p]
Stands(c) == [p \in Path |-> StandsAt(c, p)]
Counts(c) == c.stage \in {"live", "walking", "saved"} /\ ~c.superseded

\* A view with the entries of these files replaced.
Put(view, set, entries) == [p \in Path |-> IF p \in set THEN entries[p] ELSE view[p]]

\* What a step may make of a walk that stays where it is, by its view.
Becomes(c, d, view) ==
  /\ d.stage = c.stage /\ d.policy = c.policy /\ (d.superseded <=> c.superseded)
  /\ Stands(d) = view
  /\ c.stage = "loaded" => d = c
Same(c, d) == Becomes(c, d, Stands(c))

\* Nothing a walk shows changes.
Still == \A w \in Walk : Same(walks[w], walks'[w])

LEMMA StandsIs ==
  ASSUME NEW w \in Walk
  PROVE  /\ Standing(w) = Stands(walks[w])
         /\ w \in Current <=> Counts(walks[w])
         /\ w \in Live <=> walks[w].stage \in {"live", "walking", "saved"}
  BY DEF Standing, MergeExternal, Stands, StandsAt, Current, Live, Counts

\* A walk that is told of entries shows them.
LEMMA HearsStands ==
  ASSUME NEW c \in Cache, c.stage # "loaded", NEW set \in SUBSET Path, NEW entries \in Entries
  PROVE  Becomes(c, Hears(c, set, entries), Put(Stands(c), set, entries))
  <1> DEFINE d == Hears(c, set, entries)
             external == [p \in Path |-> IF p \in set THEN entries[p] ELSE c.external[p]]
  <1>1. /\ d.heard = c.heard \cup set /\ d.external = external
        /\ d.stage = c.stage /\ d.policy = c.policy /\ d.superseded = c.superseded
        /\ d.previous = c.previous /\ d.next = c.next /\ d.dropped = c.dropped
    BY DEF Hears, Cache
  <1>2. \A p \in Path : external[p] = IF p \in set THEN entries[p] ELSE c.external[p]
    OBVIOUS
  <1> HIDE DEF d, external
  <1>3. \A p \in Path : StandsAt(d, p) = IF p \in set THEN entries[p] ELSE StandsAt(c, p)
    BY <1>1, <1>2 DEF StandsAt
  <1>4. Stands(d) = Put(Stands(c), set, entries)
    BY <1>3 DEF Stands, Put
  <1> QED
    BY <1>1, <1>4 DEF Becomes, d

\* Carrying an entry forward shows what was shown.
LEMMA CarryStill ==
  ASSUME walks \in [Walk -> Cache], NEW w \in Walk, NEW p \in Path,
         walks[w].stage # "loaded", walks' = Carry(w, p)
  PROVE  Still
  <1> DEFINE c == walks[w]
             entry == IF p \in c.heard THEN c.external[p]
                      ELSE IF c.next[p] # None THEN c.next[p] ELSE c.previous[p]
             next == [c.next EXCEPT ![p] = entry]
             d == [c EXCEPT !.next = next]
  <1>1. c \in Cache /\ c.next \in [Path -> Entry \cup {None}]
    BY DEF Cache, Entries
  <1>2. \/ walks' = walks
        \/ p \notin c.dropped /\ entry # None /\ walks' = [walks EXCEPT ![w] = d]
    BY DEF Carry
  <1>3. CASE walks' = walks
    BY <1>3 DEF Still, Same, Becomes
  <1>4. CASE p \notin c.dropped /\ entry # None /\ walks' = [walks EXCEPT ![w] = d]
    <2>1. \A q \in Path : next[q] = IF q = p THEN entry ELSE c.next[q]
      BY <1>1
    <2> HIDE DEF next
    <2>2. /\ d.next = next /\ d.stage = c.stage /\ d.policy = c.policy
          /\ d.superseded = c.superseded /\ d.previous = c.previous
          /\ d.heard = c.heard /\ d.external = c.external /\ d.dropped = c.dropped
      BY <1>1 DEF Cache
    <2>3. \A v \in Walk : walks'[v] = IF v = w THEN d ELSE walks[v]
      BY <1>4
    <2> HIDE DEF d
    <2>4. ASSUME NEW q \in Path PROVE StandsAt(d, q) = StandsAt(c, q)
      BY <1>4, <2>1, <2>2 DEF StandsAt
    <2>5. Same(c, d)
      BY <2>2, <2>4 DEF Same, Becomes, Stands
    <2> QED
      BY <2>3, <2>5 DEF Still, Same, Becomes
  <1> QED
    BY <1>2, <1>3, <1>4

\* What a walk's own publication puts into its view and into every view under its
\* rules, and nothing else moves.
Puts(policy, set, entries) ==
  \A w \in Walk :
    IF walks[w].stage \in {"live", "walking", "saved"} /\ walks[w].policy = policy
    THEN Becomes(walks[w], walks'[w], Put(Stands(walks[w]), set, entries))
    ELSE Same(walks[w], walks'[w])

LEMMA InstalledPuts ==
  ASSUME walks \in [Walk -> Cache], NEW w \in Walk, walks[w].stage = "walking",
         NEW set \in SUBSET Path, NEW entries \in Entries,
         walks' = Installed(w, set, entries)
  PROVE  Puts(walks[w].policy, set, entries)
  <1> DEFINE policy == walks[w].policy
             ws == Share(walks, w, policy, set, entries)
             c == ws[w]
             external == [p \in Path |-> IF p \in set THEN None ELSE c.external[p]]
             next == [p \in Path |-> IF p \in set THEN entries[p] ELSE c.next[p]]
             dropped == {p \in c.dropped \cup set : p \notin set \/ entries[p] = None}
             d == [c EXCEPT !.heard = @ \ set, !.external = external, !.next = next,
                            !.dropped = dropped, !.dirty = TRUE]
  <1>1. /\ ws \in [Walk -> Cache]
        /\ c = walks[w]
        /\ \A v \in Walk \ {w} :
             ws[v] = IF v \in Live /\ walks[v].policy = policy
                     THEN Hears(walks[v], set, entries) ELSE walks[v]
    <2>1. ws \in [Walk -> Cache]
      BY ShareTypes
    <2>2. \A v \in Walk : ws[v] = IF v \in Live /\ v # w /\ walks[v].policy = policy
                                  THEN Hears(walks[v], set, entries) ELSE walks[v]
      BY ShareTells
    <2> HIDE DEF ws
    <2> QED
      BY <2>1, <2>2
  <1>2. walks' = [ws EXCEPT ![w] = d]
    <2>1. Installed(w, set, entries) =
            [ws EXCEPT ![w].heard = @ \ set,
                       ![w].external = [p \in Path |-> IF p \in set THEN None ELSE @[p]],
                       ![w].next = [p \in Path |-> IF p \in set THEN entries[p] ELSE @[p]],
                       ![w].dropped = {p \in @ \cup set : p \notin set \/ entries[p] = None},
                       ![w].dirty = TRUE]
      BY DEF Installed
    <2> HIDE DEF ws
    <2> QED
      BY <1>1, <2>1
  <1> HIDE DEF ws
  <1>3. /\ d.heard = c.heard \ set /\ d.external = external /\ d.next = next
        /\ d.dropped = dropped /\ d.stage = c.stage /\ d.policy = c.policy
        /\ d.superseded = c.superseded /\ d.previous = c.previous
    BY <1>1 DEF Cache
  <1>4. walks'[w] = d /\ \A v \in Walk \ {w} : walks'[v] = ws[v]
    BY <1>1, <1>2
  <1>5. \A p \in Path : /\ external[p] = IF p \in set THEN None ELSE c.external[p]
                        /\ next[p] = IF p \in set THEN entries[p] ELSE c.next[p]
                        /\ p \in dropped <=> \/ p \in c.dropped /\ p \notin set
                                             \/ p \in set /\ entries[p] = None
    OBVIOUS
  <1> HIDE DEF external, next, dropped, d
  <1>6. ASSUME NEW p \in Path
        PROVE  StandsAt(d, p) = IF p \in set THEN entries[p] ELSE StandsAt(c, p)
    BY <1>3, <1>5 DEF StandsAt
  <1>7. Becomes(walks[w], walks'[w], Put(Stands(walks[w]), set, entries))
    BY <1>1, <1>3, <1>4, <1>6 DEF Becomes, Stands, Put
  <1>8. ASSUME NEW v \in Walk \ {w}
        PROVE  IF walks[v].stage \in {"live", "walking", "saved"} /\ walks[v].policy = policy
               THEN Becomes(walks[v], walks'[v], Put(Stands(walks[v]), set, entries))
               ELSE Same(walks[v], walks'[v])
    <2>1. CASE v \in Live /\ walks[v].policy = policy
      <3>1. walks[v] \in Cache /\ walks[v].stage # "loaded"
            /\ walks[v].stage \in {"live", "walking", "saved"}
        BY <2>1 DEF Live
      <3> QED
        BY <1>1, <1>4, <2>1, <3>1, HearsStands
    <2>2. CASE ~(v \in Live /\ walks[v].policy = policy)
      BY <1>1, <1>4, <2>2, StandsIs DEF Same, Becomes
    <2> QED
      BY <2>1, <2>2
  <1> QED
    BY <1>7, <1>8 DEF Puts

\* What an edit of the store outside walks makes of each of them.
EditViews(policy, set, entries) ==
  \A w \in Walk :
    IF walks[w].stage \notin {"live", "walking", "saved"} THEN walks'[w] = walks[w]
    ELSE IF walks[w].policy = policy
    THEN Becomes(walks[w], walks'[w], Put(Stands(walks[w]), set, entries))
    ELSE /\ walks'[w].stage = walks[w].stage /\ walks'[w].policy = walks[w].policy
         /\ walks'[w].superseded

LEMMA EditPuts ==
  ASSUME TypeOK, NEW o \in Observer, NEW set \in SUBSET Path, NEW output,
         NEW e \in Entry \cup {None}, EditStore(o, set, output, e)
  PROVE  EditViews(observer[o].policy, set, EditAfter(o, set, output, e))
  <1> DEFINE after == EditAfter(o, set, output, e)
             policy == observer[o].policy
  <1>1. after \in Entries
    BY EditBaseTypes, ReplaceTypes DEF EditAfter
  <1>2. \A w \in Walk : walks'[w] = IF w \notin Live THEN walks[w]
                                    ELSE IF walks[w].policy = policy
                                    THEN Hears(walks[w], set, after)
                                    ELSE GivesWay(walks[w])
    BY EditMoves
  <1> HIDE DEF after, policy
  <1>3. ASSUME NEW w \in Walk
        PROVE  IF walks[w].stage \notin {"live", "walking", "saved"} THEN walks'[w] = walks[w]
               ELSE IF walks[w].policy = policy
               THEN Becomes(walks[w], walks'[w], Put(Stands(walks[w]), set, after))
               ELSE /\ walks'[w].stage = walks[w].stage /\ walks'[w].policy = walks[w].policy
                    /\ walks'[w].superseded
    <2>1. walks[w] \in Cache /\ (w \in Live <=> walks[w].stage \in {"live", "walking", "saved"})
      BY StandsIs DEF TypeOK
    <2>2. CASE w \in Live /\ walks[w].policy = policy
      <3>1. walks'[w] = Hears(walks[w], set, after) /\ walks[w].stage # "loaded"
        BY <1>2, <2>1, <2>2
      <3> QED
        BY <1>1, <2>1, <2>2, <3>1, HearsStands
    <2>3. CASE w \in Live /\ walks[w].policy # policy
      BY <1>2, <2>1, <2>3, GivesWayTypes
    <2> QED
      BY <1>2, <2>1, <2>2, <2>3
  <1> QED
    BY <1>3 DEF EditViews, after, policy

-----------------------------------------------------------------------------
(***************************************************************************)
(* The inductive invariant.                                                *)
(***************************************************************************)

\* The walks that count are under one set of rules and show the same.
Agreeing(ws) ==
  \A v, w \in Walk : Counts(ws[v]) /\ Counts(ws[w]) =>
    ws[v].policy = ws[w].policy /\ Stands(ws[v]) = Stands(ws[w])

\* An observer's walk is walking: it cannot end before its observers do.
Walkers(ws, obs) ==
  \A o \in Observer : obs[o].walk # None => ws[obs[o].walk].stage = "walking"

\* A walk that has not joined has heard of nothing and said nothing.
LoadedFresh(ws) ==
  \A w \in Walk : ws[w].stage = "loaded" =>
    ws[w].next = Empty /\ ws[w].heard = {} /\ ws[w].dropped = {} /\ ~ws[w].superseded

\* Once every walk that counts has saved, the store shows what they show.
SavedStored(ws, store, sound) ==
  sound /\ (\A w \in Walk : Counts(ws[w]) => ws[w].stage = "saved") =>
    \A w \in Walk : Counts(ws[w]) => Stands(ws[w]) = Marked(store, ws[w].policy)

WalkParts(ws, obs, store, sound) ==
  Agreeing(ws) /\ Walkers(ws, obs) /\ LoadedFresh(ws) /\ SavedStored(ws, store, sound)

WalkInv == TypeInv /\ WalkParts(walks, observer, Stored, intact)

LEMMA WalkPartsPrimed ==
  ASSUME WalkParts(walks', observer', Stored', intact')
  PROVE  WalkParts(walks, observer, Stored, intact)'
  BY DEF WalkParts, Agreeing, Walkers, LoadedFresh, SavedStored, Counts, Stands, StandsAt,
         Marked, Empty

\* No observation joins a walk that is not walking.
ObserversKeep ==
  \A x \in Observer : \/ observer'[x].walk \in {None, observer[x].walk}
                      \/ walks[observer'[x].walk].stage = "walking"

\* Where no walk's stage changes, observers' walks go on walking.
LEMMA WalkersKept ==
  ASSUME TypeOK, Walkers(walks, observer), ObserversKeep,
         observer' \in [Observer -> Observation],
         \A w \in Walk : walks'[w].stage = walks[w].stage
  PROVE  Walkers(walks', observer')
  <1>1. ASSUME NEW o \in Observer, observer'[o].walk # None
        PROVE  walks'[observer'[o].walk].stage = "walking"
    <2>1. observer'[o].walk \in Walk
      BY <1>1 DEF Observation
    <2>2. walks[observer'[o].walk].stage = "walking"
      BY <1>1 DEF Walkers, ObserversKeep
    <2> QED
      BY <2>1, <2>2
  <1> QED
    BY <1>1 DEF Walkers

\* Where every walk that counts is given the same entries, they go on agreeing.
LEMMA AgreementKept ==
  ASSUME Agreeing(walks), NEW set, NEW entries,
         \A w \in Walk : Counts(walks'[w]) =>
           /\ Counts(walks[w]) /\ walks'[w].policy = walks[w].policy
           /\ Stands(walks'[w]) = Put(Stands(walks[w]), set, entries)
  PROVE  Agreeing(walks')
  BY DEF Agreeing

\* A step after which nothing shown has changed keeps the invariant.
LEMMA StillKeeps ==
  ASSUME TypeOK, WalkParts(walks, observer, Stored, intact), Still, ObserversKeep,
         observer' \in [Observer -> Observation],
         intact' => intact /\ Stored' = Stored
  PROVE  WalkParts(walks', observer', Stored', intact')
  <1>1. \A w \in Walk : /\ walks'[w].stage = walks[w].stage
                        /\ walks'[w].policy = walks[w].policy
                        /\ Counts(walks'[w]) <=> Counts(walks[w])
                        /\ Stands(walks'[w]) = Stands(walks[w])
                        /\ walks[w].stage = "loaded" => walks'[w] = walks[w]
    BY DEF Still, Same, Becomes, Counts
  <1>2. Agreeing(walks')
    BY <1>1 DEF WalkParts, Agreeing
  <1>3. Walkers(walks', observer')
    BY <1>1, WalkersKept DEF WalkParts
  <1>4. LoadedFresh(walks')
    BY <1>1 DEF WalkParts, LoadedFresh
  <1>5. SavedStored(walks', Stored', intact')
    BY <1>1 DEF WalkParts, SavedStored
  <1> QED
    BY <1>2, <1>3, <1>4, <1>5 DEF WalkParts

\* A walk's own publication keeps it: the walk goes on, so nothing is saved yet.
LEMMA InstalledKeeps ==
  ASSUME TypeOK, WalkParts(walks, observer, Stored, intact), ObserversKeep,
         observer' \in [Observer -> Observation],
         NEW w \in Walk, walks[w].stage = "walking", ~walks[w].superseded,
         NEW set, NEW entries, Puts(walks[w].policy, set, entries)
  PROVE  WalkParts(walks', observer', Stored', intact')
  <1>1. Counts(walks[w])
    BY DEF Counts
  <1>2. ASSUME NEW v \in Walk
        PROVE  /\ walks'[v].stage = walks[v].stage
               /\ walks'[v].policy = walks[v].policy
               /\ Counts(walks'[v]) <=> Counts(walks[v])
               /\ walks[v].stage = "loaded" => walks'[v] = walks[v]
               /\ Counts(walks[v]) => Stands(walks'[v]) = Put(Stands(walks[v]), set, entries)
    <2>1. Counts(walks[v]) => walks[v].policy = walks[w].policy
      BY <1>1 DEF WalkParts, Agreeing
    <2> QED
      BY <2>1 DEF Puts, Same, Becomes, Counts
  <1>3. Agreeing(walks')
    BY <1>2, AgreementKept DEF WalkParts
  <1>4. Walkers(walks', observer')
    BY <1>2, WalkersKept DEF WalkParts
  <1>5. LoadedFresh(walks')
    BY <1>2 DEF WalkParts, LoadedFresh
  <1>6. SavedStored(walks', Stored', intact')
    BY <1>1, <1>2 DEF SavedStored
  <1> QED
    BY <1>3, <1>4, <1>5, <1>6 DEF WalkParts

\* An edit starts from what every walk under its rules shows.
LEMMA EditAfterShown ==
  ASSUME TypeOK, Agreeing(walks), NEW o \in Observer, NEW set, NEW output, NEW e,
         NEW w \in Walk, Counts(walks[w]), walks[w].policy = observer[o].policy
  PROVE  Put(Stands(walks[w]), set, EditAfter(o, set, output, e))
           = EditAfter(o, set, output, e)
  <1> DEFINE told == {v \in Current : walks[v].policy = observer[o].policy}
             v == CHOOSE x \in told : TRUE
  <1>1. w \in told
    BY StandsIs DEF Current, Live
  <1>2. v \in told
    BY <1>1
  <1>3. EditBase(o) = Standing(v)
    BY <1>1 DEF EditBase
  <1> HIDE DEF v
  <1>4. v \in Walk /\ Counts(walks[v])
    BY <1>2, StandsIs DEF Current, Live
  <1>5. EditBase(o) = Stands(walks[w])
    BY <1>3, <1>4, StandsIs DEF Agreeing
  <1> HIDE DEF told
  <1>6. EditAfter(o, set, output, e) = [p \in Path |-> IF p \notin set THEN Stands(walks[w])[p]
                                                       ELSE IF p = output THEN e ELSE None]
    BY <1>5 DEF EditAfter, Replace
  <1> QED
    BY <1>6 DEF Put

\* What an edit leaves in the batch, or found there, is what it leaves walks with.
LEMMA EditStored ==
  ASSUME TypeOK, NEW o \in Observer, NEW set \in SUBSET Path, NEW output,
         NEW e \in Entry \cup {None}, EditStore(o, set, output, e), UNCHANGED disk
  PROVE  Marked(Stored', observer[o].policy) = EditAfter(o, set, output, e)
  <1> DEFINE after == EditAfter(o, set, output, e)
             policy == observer[o].policy
             batch == [policy |-> policy, entries |-> after]
  <1>1. after \in Entries /\ policy \in Policy
    BY EditBaseTypes, ReplaceTypes DEF EditAfter, TypeOK, Observation
  <1>2. \/ after = Marked(Stored, policy) /\ pending' = pending
        \/ pending' = batch
    BY EditMoves
  <1> HIDE DEF after, policy
  <1>3. batch \in Store /\ batch # None
    BY <1>1, NoneIsNothing DEF Store
  <1>4. CASE after = Marked(Stored, policy) /\ pending' = pending
    <2>1. Stored' = Stored
      BY <1>4 DEF Stored
    <2> QED
      BY <1>4, <2>1 DEF after, policy
  <1>5. CASE pending' = batch
    <2>1. Stored' = batch
      BY <1>3, <1>5 DEF Stored
    <2>2. Marked(batch, policy) = [p \in Path |-> after[p]]
      BY <1>3 DEF Marked
    <2> QED
      BY <1>1, <2>1, <2>2 DEF after, policy, Entries
  <1> QED
    BY <1>2, <1>4, <1>5

\* An edit of the store keeps the invariant.
LEMMA EditKeeps ==
  ASSUME TypeOK, WalkParts(walks, observer, Stored, intact), ObserversKeep,
         observer' \in [Observer -> Observation],
         NEW o \in Observer, NEW set \in SUBSET Path, NEW output, NEW e \in Entry \cup {None},
         EditStore(o, set, output, e), UNCHANGED disk
  PROVE  WalkParts(walks', observer', Stored', intact')
  <1> DEFINE after == EditAfter(o, set, output, e)
             policy == observer[o].policy
  <1>1. EditViews(policy, set, after)
    BY EditPuts
  <1>2. Marked(Stored', policy) = after
    BY EditStored
  <1>3. \A w \in Walk : Counts(walks[w]) /\ walks[w].policy = policy =>
          Put(Stands(walks[w]), set, after) = after
    BY EditAfterShown DEF WalkParts
  <1> HIDE DEF after, policy
  <1>4. ASSUME NEW w \in Walk
        PROVE  /\ walks'[w].stage = walks[w].stage
               /\ walks'[w].policy = walks[w].policy
               /\ walks[w].stage = "loaded" => walks'[w] = walks[w]
               /\ Counts(walks'[w]) => /\ Counts(walks[w]) /\ walks[w].policy = policy
                                       /\ Stands(walks'[w]) = after
    BY <1>1, <1>3 DEF EditViews, Becomes, Counts
  <1>5. Agreeing(walks')
    BY <1>4 DEF Agreeing
  <1>6. Walkers(walks', observer')
    BY <1>4, WalkersKept DEF WalkParts
  <1>7. LoadedFresh(walks')
    BY <1>4 DEF WalkParts, LoadedFresh
  <1>8. SavedStored(walks', Stored', intact')
    BY <1>2, <1>4 DEF SavedStored
  <1> QED
    BY <1>5, <1>6, <1>7, <1>8 DEF WalkParts

-----------------------------------------------------------------------------
(***************************************************************************)
(* What each step does to the walks.                                       *)
(***************************************************************************)

\* The step is a change of what is shown, by this observation.
Says(o) == /\ observer[o].stage \in {"judged", "spoiled", "closing"}
           /\ observer'[o].stage # observer[o].stage

\* An observation's publication or invalidation, in a walk or outside them.
SaysInWalk(o) ==
  /\ Says(o) /\ UNCHANGED pending
  /\ \E w \in Walk : /\ walks[w].stage = "walking" /\ ~walks[w].superseded
                    /\ \E set, entries : Puts(walks[w].policy, set, entries)
SaysOutside(o) ==
  /\ Says(o)
  /\ \E set \in SUBSET Path, output \in Path, e \in Entry \cup {None} :
       EditStore(o, set, output, e)

\* A step of an observation is one of those, or shows nothing.
Observed(o) ==
  /\ ObserversKeep /\ UNCHANGED <<rules, changes, disk>> /\ (intact' => intact)
  /\ (Still /\ UNCHANGED pending) \/ SaysInWalk(o) \/ SaysOutside(o)

LEMMA WalksStill == UNCHANGED walks => Still
  BY DEF Still, Same, Becomes

LEMMA SetKeeps ==
  ASSUME TypeOK, NEW o \in Observer, NEW b, Set(o, b),
         b.walk \in {None, observer[o].walk} \/ walks[b.walk].stage = "walking"
  PROVE  ObserversKeep
  <1>1. \A x \in Observer : observer'[x] = IF x = o THEN b ELSE observer[x]
    BY DEF Set, TypeOK
  <1> QED
    BY <1>1 DEF ObserversKeep

LEMMA FencedKeep ==
  ASSUME TypeOK, NEW o \in Observer, observer'[o].walk = observer[o].walk,
         NEW set,
         \A x \in Observer \ {o} : observer'[x] = [observer[x] EXCEPT !.fresh = @ \ set]
  PROVE  ObserversKeep
  <1>0. /\ \A x \in Observer : observer[x] \in Observation
        /\ \A b \in Observation : [b EXCEPT !.fresh = @ \ set].walk = b.walk
    BY DEF TypeOK, Observation
  <1>1. \A x \in Observer \ {o} : observer'[x].walk = observer[x].walk
    BY <1>0
  <1> QED
    BY <1>1 DEF ObserversKeep

\* A publication, accepted or not.
LEMMA PublicationObserved ==
  ASSUME TypeInv, Walkers(walks, observer), NEW o \in Observer, NEW set \in SUBSET Path,
         NEW output \in Path, NEW e \in Entry \cup {None}, Publication(o, set, output, e),
         observer[o].stage \in {"judged", "spoiled"},
         UNCHANGED <<rules, changes, disk, intact>>
  PROVE  Observed(o)
  <1> DEFINE w == observer[o].walk
  <1>1. /\ TypeOK /\ w \in Walk \cup {None} /\ walks \in [Walk -> Cache]
    BY ObservationTypes DEF TypeInv, TypeOK
  <1>2. PICK accepted \in BOOLEAN : Publishes(o, set, output, e, accepted)
    BY <1>1, PublicationObserves
  <1>3. /\ observer'[o].stage = "closing" /\ observer'[o].walk = w
        /\ \A x \in Observer \ {o} :
             observer'[x] = [observer[x] EXCEPT !.fresh = @ \ (IF accepted THEN set ELSE {})]
    BY <1>2 DEF Publishes, Leaves
  <1>4. ObserversKeep /\ Says(o)
    BY <1>1, <1>3, FencedKeep DEF Says
  <1>5. CASE ~accepted
    <2>1. UNCHANGED <<walks, pending>>
      BY <1>2, <1>5 DEF Publishes
    <2> QED
      BY <1>4, <2>1, WalksStill DEF Observed
  <1>6. CASE accepted /\ w # None
    <2>1. /\ Installs(o, w, set) /\ UNCHANGED pending
          /\ walks' = Installed(w, set, Replace(Empty, set, output, e))
      BY <1>2, <1>6 DEF Publishes
    <2>2. walks[w].stage = "walking" /\ w \in Walk /\ ~walks[w].superseded
      BY <1>1, <1>6, <2>1 DEF Walkers, Installs
    <2>3. Replace(Empty, set, output, e) \in Entries
      BY IdleTypes, ReplaceTypes
    <2>4. Puts(walks[w].policy, set, Replace(Empty, set, output, e))
      BY <1>1, <2>1, <2>2, <2>3, InstalledPuts
    <2>5. SaysInWalk(o)
      BY <1>4, <2>1, <2>2, <2>4 DEF SaysInWalk
    <2> QED
      BY <1>4, <2>5 DEF Observed
  <1>7. CASE accepted /\ w = None
    <2>1. SaysOutside(o)
      BY <1>2, <1>4, <1>7 DEF Publishes, SaysOutside
    <2> QED
      BY <1>4, <2>1 DEF Observed
  <1> QED
    BY <1>5, <1>6, <1>7

\* An invalidation, accepted or not.
LEMMA InvalidateObserved ==
  ASSUME TypeInv, NEW o \in Observer, Invalidate(o)
  PROVE  Observed(o)
  <1>1. TypeOK /\ observer[o].changing \in SUBSET Path /\ observer[o].path \in Path
    BY ObservationTypes DEF TypeInv
  <1>2. PICK a \in BOOLEAN : Invalidated(o, a)
    BY <1>1, InvalidateObserves
  <1>3. observer[o].stage = "closing" /\ UNCHANGED <<rules, changes, disk, intact>>
    BY DEF Invalidate
  <1> DEFINE set == IF a THEN observer[o].changing ELSE {}
  <1>4. ObserversKeep /\ Says(o)
    <2>1. /\ observer'[o].stage = "leaving" /\ observer'[o].walk = observer[o].walk
          /\ \A x \in Observer \ {o} : observer'[x] = [observer[x] EXCEPT !.fresh = @ \ set]
      BY <1>2 DEF Invalidated
    <2> HIDE DEF set
    <2> QED
      BY <1>1, <1>3, <2>1, FencedKeep DEF Says
  <1>5. CASE a
    <2>1. EditStore(o, observer[o].changing, observer[o].path, None)
      BY <1>2, <1>5 DEF Invalidated
    <2>2. SaysOutside(o)
      BY <1>1, <1>4, <2>1 DEF SaysOutside
    <2> QED
      BY <1>3, <1>4, <2>2 DEF Observed
  <1>6. CASE ~a
    <2>1. UNCHANGED <<walks, pending>>
      BY <1>2, <1>6 DEF Invalidated
    <2> QED
      BY <1>3, <1>4, <2>1, WalksStill DEF Observed
  <1> QED
    BY <1>5, <1>6

\* Observing, from the start to the way out.
LEMMA ObserveObserved ==
  ASSUME TypeInv, Walkers(walks, observer), NEW o \in Observer, Observe(o)
  PROVE  Observed(o)
  <1> DEFINE b == observer[o]
  <1>0. /\ TypeOK /\ walks \in [Walk -> Cache] /\ b \in Observation
        /\ observer \in [Observer -> Observation]
        /\ b.path \in Path /\ b.target \in Path /\ b.walk \in Walk \cup {None}
        /\ b.walk # None => walks[b.walk].stage = "walking"
    BY ObservationTypes DEF TypeInv, TypeOK, Walkers
  <1>0a. \A w \in Walk : walks[w] \in Cache
    BY <1>0
  <1>1. ASSUME NEW p \in Path, NEW w \in Walk \cup {None}, Begin(o, p, w)
        PROVE  Observed(o)
    <2> DEFINE new == [NotObserving EXCEPT !.stage = "new", !.path = p, !.target = p,
                                           !.policy = rules, !.walk = w]
    <2>1. new.walk = w /\ Set(o, new) /\ (w # None => walks[w].stage = "walking")
      BY <1>1 DEF NotObserving, Begin
    <2> HIDE DEF new
    <2>2. ObserversKeep
      BY <1>0, <2>1, SetKeeps
    <2>3. Still
      <3>1. CASE w = None
        BY <1>1, <3>1, WalksStill DEF Begin
      <3>2. CASE w # None
        <4> DEFINE c == walks[w]
                   d == [c EXCEPT !.todo = @ \ {p}]
        <4>1. w \in Walk /\ c \in Cache
          BY <1>0, <3>2
        <4>2. walks' = [walks EXCEPT ![w] = d]
          BY <1>1, <3>2 DEF Begin
        <4>3. /\ d.stage = c.stage /\ d.policy = c.policy /\ d.superseded = c.superseded
              /\ d.previous = c.previous /\ d.next = c.next /\ d.heard = c.heard
              /\ d.external = c.external /\ d.dropped = c.dropped
          BY <4>1 DEF Cache
        <4>4. \A v \in Walk : walks'[v] = IF v = w THEN d ELSE walks[v]
          BY <1>0, <4>2
        <4> HIDE DEF d
        <4>5. Same(c, d)
          BY <2>1, <3>2, <4>3 DEF Same, Becomes, Stands, StandsAt
        <4> QED
          BY <4>4, <4>5 DEF Still, Same, Becomes
      <3> QED
        BY <3>1, <3>2
    <2> QED
      BY <1>1, <2>2, <2>3 DEF Begin, Observed
  <1>2. ASSUME Watch(o) \/ Stat(o) \/ Probe(o) PROVE Observed(o)
    <2>1. /\ UNCHANGED <<walks, rules, changes, disk, pending, intact>>
          /\ \E c : Set(o, c) /\ c.walk = b.walk
      <3>1. CASE Watch(o)
        <4> DEFINE c == [b EXCEPT !.stage = "open", !.fresh = {b.path}]
        <4>1. Set(o, c) /\ c.walk = b.walk
          BY <1>0, <3>1 DEF Watch, Observation
        <4> QED
          BY <3>1, <4>1 DEF Watch
      <3>2. CASE Stat(o)
        <4> DEFINE file == files[b.target]
                   c == [b EXCEPT !.stage = "keyed",
                                  !.key = IF file = None THEN None ELSE file.key]
        <4>1. Set(o, c) /\ c.walk = b.walk
          BY <1>0, <3>2 DEF Stat, Observation
        <4> QED
          BY <3>2, <4>1 DEF Stat
      <3>3. CASE Probe(o)
        <4> DEFINE file == files[b.target]
                   c == [b EXCEPT !.stage = "judged",
                                  !.content = IF file = None THEN None ELSE file.content]
        <4>1. Set(o, c) /\ c.walk = b.walk
          BY <1>0, <3>3 DEF Probe, Observation
        <4> QED
          BY <3>3, <4>1 DEF Probe
      <3> QED
        BY <1>2, <3>1, <3>2, <3>3
    <2>2. ObserversKeep
      BY <1>0, <2>1, SetKeeps
    <2> QED
      BY <2>1, <2>2, WalksStill DEF Observed
  <1>3. ASSUME StopWaiting(o) \/ Hit(o) \/ \E carries \in BOOLEAN : Abandon(o, carries)
        PROVE  Observed(o)
    <2>1. /\ UNCHANGED <<rules, changes, disk, pending, intact>>
          /\ walks' = walks \/ (b.walk # None /\ walks' = Carry(b.walk, b.path))
          /\ \E c : Set(o, c) /\ c.walk = b.walk
      <3>1. Over(b).walk = b.walk /\ [b EXCEPT !.stage = "leaving"].walk = b.walk
        BY <1>0, OverLeaves DEF Leaves, Observation
      <3>2. CASE StopWaiting(o)
        BY <3>1, <3>2 DEF StopWaiting
      <3>3. CASE Hit(o)
        BY <3>1, <3>3 DEF Hit
      <3>4. CASE \E carries \in BOOLEAN : Abandon(o, carries)
        BY <3>1, <3>4 DEF Abandon
      <3> QED
        BY <1>3, <3>2, <3>3, <3>4
    <2>2. ObserversKeep
      BY <1>0, <2>1, SetKeeps
    <2>3. Still
      <3>1. CASE walks' = walks
        BY <3>1, WalksStill
      <3>2. CASE b.walk # None /\ walks' = Carry(b.walk, b.path)
        <4>1. b.walk \in Walk /\ walks[b.walk].stage # "loaded"
          BY <1>0, <3>2
        <4> QED
          BY <1>0, <3>2, <4>1, CarryStill
      <3> QED
        BY <2>1, <3>1, <3>2
    <2> QED
      BY <2>1, <2>2, <2>3 DEF Observed
  <1>4. ASSUME NEW mark \in {"good", "failed"}, Publish(o, mark) PROVE Observed(o)
    <2>1. CASE KeyStands(o)
      <3>1. Verdict(o, mark) \in Entry
        BY <1>4, <2>1, VerdictTypes DEF Publish
      <3>2. /\ Publication(o, Touched(o), b.target, Verdict(o, mark))
            /\ b.stage \in {"judged", "spoiled"}
            /\ UNCHANGED <<rules, changes, disk, intact>>
        BY <1>4, <2>1 DEF Publish
      <3>3. Touched(o) \in SUBSET Path
        BY <1>0 DEF Touched
      <3> QED
        BY <1>0, <3>1, <3>2, <3>3, PublicationObserved
    <2>2. CASE ~KeyStands(o)
      <3>1. Set(o, Over(b)) /\ UNCHANGED <<walks, pending, rules, changes, disk, intact>>
        BY <1>4, <2>2 DEF Publish
      <3>2. Over(b).walk = b.walk
        BY <1>0, OverLeaves DEF Leaves
      <3>3. ObserversKeep
        BY <1>0, <3>1, <3>2, SetKeeps
      <3> QED
        BY <3>1, <3>3, WalksStill DEF Observed
    <2> QED
      BY <2>1, <2>2
  <1>5. CASE PublishNothing(o)
    <2>1. /\ Publication(o, {b.path}, b.path, None)
          /\ b.stage \in {"judged", "spoiled"}
          /\ UNCHANGED <<rules, changes, disk, intact>>
      BY <1>5 DEF PublishNothing
    <2> QED
      BY <1>0, <2>1, PublicationObserved
  <1>6. CASE Invalidate(o)
    BY <1>6, InvalidateObserved
  <1>7. CASE Release(o)
    <2>1. Set(o, [NotObserving EXCEPT !.stage = "over"])
          /\ UNCHANGED <<walks, pending, rules, changes, disk, intact>>
      BY <1>7 DEF Release
    <2>2. [NotObserving EXCEPT !.stage = "over"].walk = None
      BY DEF NotObserving
    <2>3. ObserversKeep
      BY <1>0, <2>1, <2>2, SetKeeps
    <2> QED
      BY <2>1, <2>3, WalksStill DEF Observed
  <1> QED
    BY <1>1, <1>2, <1>3, <1>4, <1>5, <1>6, <1>7 DEF Observe

\* Taking, editing and rewriting files shows nothing.
LEMMA ChangingObserved ==
  ASSUME TypeInv, NEW o \in Observer, Changing(o)
  PROVE  Observed(o)
  <1> DEFINE b == observer[o]
  <1>0. /\ TypeOK /\ b \in Observation /\ observer \in [Observer -> Observation]
    BY ObservationTypes DEF TypeInv, TypeOK
  <1>1. UNCHANGED <<walks, pending, rules, changes, disk>> /\ (intact' => intact)
    <2>1. ASSUME NEW q \in Path, NEW inPlace \in BOOLEAN, Take(o, q, inPlace)
          PROVE  UNCHANGED <<walks, pending, rules, changes, disk, intact>>
      BY <2>1 DEF Take
    <2>2. \A keeps \in BOOLEAN, stage \in {"open", "spoiled"} : EditInPlace(o, keeps, stage) =>
            UNCHANGED <<walks, pending, rules, changes, disk, intact>>
      BY DEF EditInPlace
    <2>3. Rewrite(o) => UNCHANGED <<walks, pending, rules, changes, disk, intact>>
      BY DEF Rewrite
    <2>4. Rejected(o) \/ Refused(o) =>
            UNCHANGED <<walks, pending, rules, changes, disk, intact>>
      BY DEF Rejected, Refused
    <2>5. Unchanged(o) => /\ UNCHANGED <<walks, pending, rules, changes, disk>>
                          /\ intact' => intact
      BY DEF Unchanged
    <2> QED
      BY <2>1, <2>2, <2>3, <2>4, <2>5 DEF Changing
  <1>2. ASSUME NEW q \in Path, NEW inPlace \in BOOLEAN, Take(o, q, inPlace)
        PROVE  ObserversKeep
    <2>1. Taken(o, q, inPlace)
      BY <1>0, <1>2, TakeObserves
    <2> QED
      BY <1>0, <2>1, FencedKeep DEF Taken
  <1>3. ASSUME NEW keeps \in BOOLEAN, NEW stage \in {"open", "spoiled"},
               EditInPlace(o, keeps, stage)
        PROVE  ObserversKeep
    <2>1. [b EXCEPT !.stage = stage, !.wrote = TRUE, !.edited = TRUE].walk = b.walk
      BY <1>0 DEF Observation
    <2> QED
      BY <1>0, <1>3, <2>1, SetKeeps DEF EditInPlace
  <1>4. CASE Rewrite(o)
    <2>1. [b EXCEPT !.stage = "open", !.edited = TRUE].walk = b.walk
      BY <1>0 DEF Observation
    <2>2. Set(o, [b EXCEPT !.stage = "open", !.edited = TRUE])
      BY <1>4 DEF Rewrite
    <2>3. ObserversKeep
      BY <1>0, <2>1, <2>2, SetKeeps
    <2> QED
      BY <1>1, <2>3, WalksStill DEF Observed
  <1>5. CASE Rejected(o)
    <2>1. [b EXCEPT !.stage = "spoiled", !.wrote = TRUE, !.edited = TRUE,
                    !.target = b.path].walk = b.walk
      BY <1>0 DEF Observation
    <2>2. ObserversKeep
      BY <1>0, <1>5, <2>1, SetKeeps DEF Rejected
    <2> QED
      BY <1>1, <2>2, WalksStill DEF Observed
  <1>6. CASE Refused(o)
    <2>1. [b EXCEPT !.stage = "spoiled", !.changing = {}].walk = b.walk
      BY <1>0 DEF Observation
    <2>2. ObserversKeep
      BY <1>0, <1>6, <2>1, SetKeeps DEF Refused
    <2> QED
      BY <1>1, <2>2, WalksStill DEF Observed
  <1>7. CASE Unchanged(o)
    <2>1. [b EXCEPT !.stage = "judged", !.edited = TRUE].walk = b.walk
      BY <1>0 DEF Observation
    <2>2. Set(o, [b EXCEPT !.stage = "judged", !.edited = TRUE])
      BY <1>7 DEF Unchanged
    <2>3. ObserversKeep
      BY <1>0, <2>1, <2>2, SetKeeps
    <2> QED
      BY <1>1, <2>3, WalksStill DEF Observed
  <1> QED
    BY <1>1, <1>2, <1>3, <1>4, <1>5, <1>6, <1>7, WalksStill DEF Changing, Observed

\* Every step of an observation keeps the invariant.
LEMMA ObservedKeeps ==
  ASSUME TypeInv, WalkParts(walks, observer, Stored, intact), NEW o \in Observer, Observed(o),
         observer' \in [Observer -> Observation]
  PROVE  WalkParts(walks', observer', Stored', intact')
  <1>1. TypeOK
    BY DEF TypeInv
  <1>2. CASE Still /\ UNCHANGED pending
    BY <1>1, <1>2, StillKeeps DEF Observed, Stored
  <1>3. CASE SaysInWalk(o)
    BY <1>1, <1>3, InstalledKeeps DEF Observed, SaysInWalk
  <1>4. CASE SaysOutside(o)
    BY <1>1, <1>4, EditKeeps DEF Observed, SaysOutside
  <1> QED
    BY <1>2, <1>3, <1>4 DEF Observed

\* One walk moves on, and shows what it showed if it still counts.
LEMMA OneWalkKeeps ==
  ASSUME TypeOK, WalkParts(walks, observer, Stored, intact), UNCHANGED observer,
         NEW w \in Walk, \A v \in Walk \ {w} : walks'[v] = walks[v],
         Drained(w) \/ walks'[w].stage = "walking" \/ walks[w].stage # "walking",
         walks'[w].stage # "loaded",
         Counts(walks'[w]) => /\ Counts(walks[w]) /\ walks'[w].policy = walks[w].policy
                              /\ Stands(walks'[w]) = Stands(walks[w]),
         SavedStored(walks', Stored', intact')
  PROVE  WalkParts(walks', observer', Stored', intact')
  <1>1. \A v \in Walk : v = w \/ walks'[v] = walks[v]
    OBVIOUS
  <1>2. Agreeing(walks')
    BY <1>1 DEF WalkParts, Agreeing
  <1>3. LoadedFresh(walks')
    BY <1>1 DEF WalkParts, LoadedFresh
  <1>4. ASSUME NEW o \in Observer, observer[o].walk # None
        PROVE  walks'[observer[o].walk].stage = "walking"
    <2>1. observer[o].walk \in Walk /\ walks[observer[o].walk].stage = "walking"
      BY <1>4, ObservationTypes DEF WalkParts, Walkers
    <2>2. Drained(w) => observer[o].walk # w
      BY DEF Drained
    <2> QED
      BY <1>1, <2>1, <2>2
  <1>5. Walkers(walks', observer')
    BY <1>4 DEF Walkers
  <1> QED
    BY <1>2, <1>3, <1>5 DEF WalkParts

\* Where no walk that counts comes or goes and the store is the same, saved is stored.
LEMMA SavedKept ==
  ASSUME SavedStored(walks, Stored, intact), Stored' = Stored, intact' => intact,
         \A v \in Walk : Counts(walks'[v]) =>
           /\ Counts(walks[v]) /\ walks'[v].stage = walks[v].stage
           /\ walks'[v].policy = walks[v].policy
           /\ Stands(walks'[v]) = Stands(walks[v]),
         \A v \in Walk : Counts(walks[v]) => Counts(walks'[v]) \/ walks[v].stage = "saved"
  PROVE  SavedStored(walks', Stored', intact')
  <1>1. ASSUME intact', \A v \in Walk : Counts(walks'[v]) => walks'[v].stage = "saved",
               NEW v \in Walk, Counts(walks'[v])
        PROVE  Stands(walks'[v]) = Marked(Stored', walks'[v].policy)
    <2>1. \A x \in Walk : Counts(walks[x]) => walks[x].stage = "saved"
      BY <1>1
    <2> QED
      BY <1>1, <2>1 DEF SavedStored
  <1> QED
    BY <1>1 DEF SavedStored

\* A walk moves on, and shows what it showed if it counts.
MovesOn(w) ==
  /\ \A v \in Walk : v # w => walks'[v] = walks[v]
  /\ Counts(walks[w]) => /\ Counts(walks'[w]) /\ walks'[w].policy = walks[w].policy
                         /\ Stands(walks'[w]) = Stands(walks[w])
  /\ ~Counts(walks[w]) => ~Counts(walks'[w]) /\ (intact' => Stored' = Stored)

LEMMA LoadKeeps ==
  ASSUME TypeOK, WalkParts(walks, observer, Stored, intact), NEW w \in Walk, Load(w)
  PROVE  WalkParts(walks', observer', Stored', intact') /\ MovesOn(w)
  <1> DEFINE d == [NotWalking EXCEPT !.stage = "loaded", !.policy = rules]
  <1>1. /\ walks[w].stage = "idle" /\ walks' = [walks EXCEPT ![w] = d]
        /\ UNCHANGED <<observer, pending, disk, intact>>
    BY DEF Load
  <1>2. /\ d.stage = "loaded" /\ d.next = Empty /\ d.heard = {} /\ d.dropped = {}
        /\ ~d.superseded
    BY DEF NotWalking
  <1> HIDE DEF d
  <1>3. \A v \in Walk : walks'[v] = IF v = w THEN d ELSE walks[v]
    BY <1>1 DEF TypeOK
  <1>4. ~Counts(d) /\ ~Counts(walks[w])
    BY <1>1, <1>2 DEF Counts
  <1>5. Agreeing(walks')
    BY <1>3, <1>4 DEF WalkParts, Agreeing
  <1>6. LoadedFresh(walks')
    BY <1>2, <1>3 DEF WalkParts, LoadedFresh
  <1>7. \A o \in Observer : observer[o].walk # None =>
          observer[o].walk \in Walk /\ walks[observer[o].walk].stage = "walking"
    BY ObservationTypes DEF WalkParts, Walkers
  <1>8. Walkers(walks', observer')
    BY <1>1, <1>3, <1>7 DEF Walkers
  <1>9. SavedStored(walks', Stored', intact')
    <2>1. Stored' = Stored
      BY <1>1 DEF Stored
    <2> QED
      BY <1>1, <1>3, <1>4, <2>1, SavedKept DEF WalkParts
  <1>10. MovesOn(w)
    BY <1>1, <1>3, <1>4 DEF MovesOn, Stored
  <1> QED
    BY <1>5, <1>6, <1>8, <1>9, <1>10 DEF WalkParts

LEMMA ListKeeps ==
  ASSUME TypeOK, WalkParts(walks, observer, Stored, intact), NEW w \in Walk,
         NEW scope \in SUBSET Path, List(w, scope)
  PROVE  WalkParts(walks', observer', Stored', intact') /\ MovesOn(w)
  <1> DEFINE c == walks[w]
             found == {p \in scope : files[p] # None}
             d == [c EXCEPT !.stage = "walking", !.scope = scope, !.listed = found,
                            !.todo = found]
  <1>1. /\ c.stage = "live" /\ walks' = [walks EXCEPT ![w] = d] /\ c \in Cache
        /\ UNCHANGED <<observer, pending, disk, intact>>
    BY DEF List, TypeOK
  <1>2. /\ d.stage = "walking" /\ d.policy = c.policy /\ d.superseded = c.superseded
        /\ d.previous = c.previous /\ d.next = c.next /\ d.heard = c.heard
        /\ d.external = c.external /\ d.dropped = c.dropped
    BY <1>1 DEF Cache
  <1>3. \A v \in Walk : walks'[v] = IF v = w THEN d ELSE walks[v]
    BY <1>1 DEF TypeOK
  <1> HIDE DEF d
  <1>4. Stands(d) = Stands(c) /\ (Counts(d) <=> Counts(c))
    BY <1>1, <1>2 DEF Stands, StandsAt, Counts
  <1>5. SavedStored(walks', Stored', intact')
    <2>1. CASE Counts(d)
      BY <1>2, <1>3, <2>1 DEF SavedStored
    <2>2. CASE ~Counts(d)
      <3>1. Stored' = Stored
        BY <1>1 DEF Stored
      <3> QED
        BY <1>1, <1>3, <1>4, <2>2, <3>1, SavedKept DEF WalkParts
    <2> QED
      BY <2>1, <2>2
  <1>6. MovesOn(w)
    BY <1>1, <1>2, <1>3, <1>4 DEF MovesOn, Stored
  <1> QED
    BY <1>1, <1>2, <1>3, <1>4, <1>5, <1>6, OneWalkKeeps

\* What a write makes of the store: nothing, if its walk does not count or the
\* write fails; the walk's entries otherwise.
LEMMA WriteStores ==
  ASSUME TypeOK, NEW w \in Walk, NEW entries \in Entries, NEW written, Write(w, entries, written)
  PROVE  /\ intact' => intact
         /\ intact' /\ walks[w].superseded => Stored' = Stored
         /\ intact' /\ ~walks[w].superseded => Marked(Stored', walks[w].policy) = entries
  <1> DEFINE policy == walks[w].policy
             store == [policy |-> policy, entries |-> entries]
  <1>1. CASE walks[w].superseded \/ ~written
    BY <1>1 DEF Write, Stored
  <1>2. CASE ~walks[w].superseded /\ written
    <2>1. disk' = store /\ pending' = None /\ UNCHANGED intact
      BY <1>2 DEF Write
    <2>2. policy \in Policy
      BY DEF TypeOK, Cache
    <2> HIDE DEF policy
    <2>3. store # None
      BY <2>2, NoneIsNothing DEF Store
    <2>4. Stored' = store
      BY <2>1 DEF Stored
    <2>5. Marked(store, policy) = [p \in Path |-> entries[p]]
      BY <2>3 DEF Marked
    <2> QED
      BY <1>2, <2>1, <2>4, <2>5 DEF policy, Entries
  <1> QED
    BY <1>1, <1>2

\* Once a walk that counts has written what all of them show, saved is stored.
LEMMA WrittenIsSaved ==
  ASSUME NEW w \in Walk, Counts(walks'[w]), Agreeing(walks'),
         intact' => Marked(Stored', walks'[w].policy) = Stands(walks'[w])
  PROVE  SavedStored(walks', Stored', intact')
  BY DEF SavedStored, Agreeing

LEMMA KeepKeeps ==
  ASSUME TypeOK, WalkParts(walks, observer, Stored, intact), NEW w \in Walk,
         NEW stage \in {"walking", "saved"}, NEW written, Keep(w, stage, written)
  PROVE  /\ WalkParts(walks', observer', Stored', intact')
         /\ intact' => intact
         /\ MovesOn(w)
  <1> DEFINE c == walks[w]
             d == [c EXCEPT !.stage = stage, !.dirty = FALSE]
  <1>1. /\ c.stage = "walking" /\ walks' = [walks EXCEPT ![w] = d] /\ c \in Cache
        /\ stage = "saved" => Drained(w)
        /\ Write(w, Standing(w), written) /\ UNCHANGED observer
    BY DEF Keep, TypeOK
  <1>2. /\ d.stage = stage /\ d.policy = c.policy /\ d.superseded = c.superseded
        /\ d.previous = c.previous /\ d.next = c.next /\ d.heard = c.heard
        /\ d.external = c.external /\ d.dropped = c.dropped
    BY <1>1 DEF Cache
  <1>3. \A v \in Walk : walks'[v] = IF v = w THEN d ELSE walks[v]
    BY <1>1 DEF TypeOK
  <1> HIDE DEF d
  <1>4. Stands(d) = Stands(c) /\ (Counts(d) <=> Counts(c)) /\ (Counts(c) <=> ~c.superseded)
    BY <1>1, <1>2 DEF Stands, StandsAt, Counts
  <1>5. Agreeing(walks')
    BY <1>2, <1>3, <1>4 DEF WalkParts, Agreeing
  <1>6. Standing(w) = Stands(c) /\ Standing(w) \in Entries
    BY StandsIs, StandingTypes DEF TypeOK
  <1>7. /\ intact' => intact
        /\ intact' /\ c.superseded => Stored' = Stored
        /\ intact' /\ ~c.superseded => Marked(Stored', c.policy) = Stands(c)
    BY <1>1, <1>6, WriteStores
  <1>8. SavedStored(walks', Stored', intact')
    <2>1. CASE c.superseded
      <3>1. CASE intact'
        BY <1>2, <1>3, <1>4, <1>7, <2>1, <3>1, SavedKept DEF WalkParts
      <3>2. CASE ~intact'
        BY <3>2 DEF SavedStored
      <3> QED
        BY <3>1, <3>2
    <2>2. CASE ~c.superseded
      BY <1>2, <1>3, <1>4, <1>5, <1>7, <2>2, WrittenIsSaved
    <2> QED
      BY <2>1, <2>2
  <1>9. MovesOn(w)
    BY <1>2, <1>3, <1>4, <1>7 DEF MovesOn
  <1> QED
    BY <1>1, <1>2, <1>3, <1>4, <1>7, <1>8, <1>9, OneWalkKeeps

LEMMA LeaveKeeps ==
  ASSUME TypeOK, WalkParts(walks, observer, Stored, intact), NEW w \in Walk, Leave(w)
  PROVE  WalkParts(walks', observer', Stored', intact') /\ (intact' => intact)
  <1> DEFINE c == walks[w]
             d == [NotWalking EXCEPT !.stage = "over"]
  <1>1. /\ walks' = [walks EXCEPT ![w] = d] /\ Drained(w)
        /\ intact' = (intact /\ (c.stage = "saved" \/ c.superseded))
        /\ UNCHANGED <<observer, pending, disk>>
    BY DEF Leave
  <1>2. d.stage = "over" /\ ~Counts(d)
    BY DEF NotWalking, Counts
  <1> HIDE DEF d
  <1>3. \A v \in Walk : walks'[v] = IF v = w THEN d ELSE walks[v]
    BY <1>1 DEF TypeOK
  <1>4. SavedStored(walks', Stored', intact')
    <2>1. Stored' = Stored
      BY <1>1 DEF Stored
    <2>2. CASE intact'
      <3>1. Counts(c) => c.stage = "saved"
        BY <1>1, <2>2 DEF Counts
      <3> QED
        BY <1>1, <1>2, <1>3, <2>1, <3>1, SavedKept DEF WalkParts
    <2>3. CASE ~intact'
      BY <2>3 DEF SavedStored
    <2> QED
      BY <2>2, <2>3
  <1> QED
    BY <1>1, <1>2, <1>3, <1>4, OneWalkKeeps

\* What a completed walk's prune makes of it and of the walks it tells.
Saves(w, gone) ==
  /\ \A v \in Walk \ {w} :
       IF walks[v].stage \in {"live", "walking", "saved"} /\ walks[v].policy = walks[w].policy
       THEN Becomes(walks[v], walks'[v], Put(Stands(walks[v]), gone, Empty))
       ELSE walks'[v] = walks[v]
  /\ walks'[w].stage = "saved" /\ walks'[w].policy = walks[w].policy
  /\ walks'[w].superseded <=> walks[w].superseded
  /\ Stands(walks'[w]) = Put(Stands(walks[w]), gone, Empty)

LEMMA SaveViews ==
  ASSUME TypeOK, NEW w \in Walk, NEW written, Save(w, written), ~walks[w].superseded
  PROVE  /\ Saves(w, Pruned(w)) /\ Drained(w)
         /\ Write(w, Put(Stands(walks[w]), Pruned(w), Empty), written)
         /\ Put(Stands(walks[w]), Pruned(w), Empty) \in Entries
         /\ observer' = Fence(observer, Pruned(w))
  <1> DEFINE c == walks[w]
             gone == Pruned(w)
             ws == Share(walks, w, c.policy, gone, Empty)
             dropped == c.dropped \cup gone
             d == [c EXCEPT !.stage = "saved", !.dropped = dropped]
  <1>1. /\ c.stage = "walking" /\ Drained(w) /\ c \in Cache
        /\ walks' = [ws EXCEPT ![w].stage = "saved", ![w].dropped = @ \cup gone]
        /\ observer' = Fence(observer, gone)
        /\ Write(w, Replace(Standing(w), gone, None, None), written)
    BY DEF Save, TypeOK
  <1>2. gone \in SUBSET Path
    BY <1>1 DEF Pruned, Cache
  <1>3. /\ Standing(w) = Stands(c)
        /\ \A p \in Path : p \in gone <=> /\ p \in c.scope /\ StandsAt(c, p) # None
                                          /\ MergeExternal(w, c.next)[p] = None
    <2>1. \A p \in Path : Standing(w)[p] = StandsAt(c, p)
      BY StandsIs DEF Stands
    <2>2. c.scope \in SUBSET Path
      BY <1>1 DEF Cache
    <2> QED
      BY <2>1, <2>2, StandsIs DEF Pruned
  <1>4. ASSUME NEW p \in Path, p \in gone PROVE p \notin c.heard /\ c.next[p] = None
    BY <1>3, <1>4 DEF MergeExternal, StandsAt
  <1>5. /\ ws \in [Walk -> Cache] /\ ws[w] = c
        /\ \A v \in Walk \ {w} : ws[v] = IF v \in Live /\ walks[v].policy = c.policy
                                         THEN Hears(walks[v], gone, Empty) ELSE walks[v]
    <2>1. ws \in [Walk -> Cache]
      BY <1>2, IdleTypes, ShareTypes DEF TypeOK
    <2>2. \A v \in Walk : ws[v] = IF v \in Live /\ v # w /\ walks[v].policy = c.policy
                                  THEN Hears(walks[v], gone, Empty) ELSE walks[v]
      BY ShareTells
    <2> HIDE DEF ws
    <2> QED
      BY <2>1, <2>2
  <1> HIDE DEF gone, ws
  <1>6. walks' = [ws EXCEPT ![w] = d]
    BY <1>1, <1>5
  <1>7. walks'[w] = d /\ \A v \in Walk \ {w} : walks'[v] = ws[v]
    BY <1>5, <1>6
  <1>8. /\ d.stage = "saved" /\ d.dropped = dropped /\ d.policy = c.policy
        /\ d.superseded = c.superseded /\ d.previous = c.previous /\ d.next = c.next
        /\ d.heard = c.heard /\ d.external = c.external
    BY <1>1 DEF Cache
  <1> HIDE DEF d
  <1>9. Stands(d) = Put(Stands(c), gone, Empty)
    <2>1. ASSUME NEW p \in Path
          PROVE  StandsAt(d, p) = IF p \in gone THEN Empty[p] ELSE StandsAt(c, p)
      BY <1>4, <1>8 DEF StandsAt, Empty
    <2> QED
      BY <2>1 DEF Stands, Put
  <1>10. ASSUME NEW v \in Walk \ {w}
         PROVE  IF walks[v].stage \in {"live", "walking", "saved"} /\ walks[v].policy = c.policy
                THEN Becomes(walks[v], walks'[v], Put(Stands(walks[v]), gone, Empty))
                ELSE walks'[v] = walks[v]
    <2>1. walks[v] \in Cache /\ (v \in Live <=> walks[v].stage \in {"live", "walking", "saved"})
      BY StandsIs DEF TypeOK
    <2>2. CASE v \in Live /\ walks[v].policy = c.policy
      <3>1. walks'[v] = Hears(walks[v], gone, Empty) /\ walks[v].stage # "loaded"
        BY <1>5, <1>7, <2>1, <2>2
      <3> QED
        BY <1>2, <2>1, <2>2, <3>1, HearsStands, IdleTypes
    <2>3. CASE ~(v \in Live /\ walks[v].policy = c.policy)
      BY <1>5, <1>7, <2>1, <2>3
    <2> QED
      BY <2>2, <2>3
  <1>11. Saves(w, gone)
    BY <1>7, <1>8, <1>9, <1>10 DEF Saves
  <1>12. /\ Replace(Standing(w), gone, None, None) = Put(Stands(c), gone, Empty)
         /\ Replace(Standing(w), gone, None, None) \in Entries
    <2>1. Replace(Standing(w), gone, None, None) = Put(Stands(c), gone, Empty)
      BY <1>3 DEF Replace, Put, Empty
    <2> QED
      BY <2>1, StandingTypes, ReplaceTypes DEF TypeOK
  <1> QED
    BY <1>1, <1>11, <1>12 DEF gone

LEMMA SaveKeeps ==
  ASSUME TypeOK, WalkParts(walks, observer, Stored, intact), NEW w \in Walk,
         NEW written, Save(w, written)
  PROVE  WalkParts(walks', observer', Stored', intact') /\ (intact' => intact)
  <1> DEFINE c == walks[w]
  <1>1. c.stage = "walking" /\ Drained(w) /\ c \in Cache
    BY DEF Save, TypeOK
  <1>2. CASE c.superseded
    <2> DEFINE d == [c EXCEPT !.stage = "saved"]
    <2>1. walks' = [walks EXCEPT ![w] = d] /\ UNCHANGED <<observer, disk, pending, intact>>
      BY <1>2 DEF Save
    <2>2. d.stage = "saved" /\ ~Counts(d) /\ ~Counts(c)
      BY <1>1, <1>2 DEF Cache, Counts
    <2>3. \A v \in Walk : walks'[v] = IF v = w THEN d ELSE walks[v]
      BY <2>1 DEF TypeOK
    <2> HIDE DEF d
    <2>4. SavedStored(walks', Stored', intact')
      <3>1. Stored' = Stored
        BY <2>1 DEF Stored
      <3> QED
        BY <2>1, <2>2, <2>3, <3>1, SavedKept DEF WalkParts
    <2> QED
      BY <1>1, <2>1, <2>2, <2>3, <2>4, OneWalkKeeps
  <1>3. CASE ~c.superseded
    <2> DEFINE gone == Pruned(w)
    <2>1. /\ Saves(w, gone)
          /\ Write(w, Put(Stands(c), gone, Empty), written)
          /\ Put(Stands(c), gone, Empty) \in Entries
          /\ observer' = Fence(observer, gone)
      BY <1>3, SaveViews
    <2>2. (intact' => intact) /\ (intact' => Marked(Stored', c.policy) = Put(Stands(c), gone, Empty))
      BY <1>3, <2>1, WriteStores
    <2> HIDE DEF gone
    <2>3. Counts(c)
      BY <1>1, <1>3 DEF Counts
    <2>4. ASSUME NEW v \in Walk
          PROVE  /\ Counts(walks'[v]) => /\ Counts(walks[v])
                                         /\ walks'[v].policy = walks[v].policy
                                         /\ Stands(walks'[v]) = Put(Stands(walks[v]), gone, Empty)
                 /\ v # w => walks'[v].stage = walks[v].stage
                 /\ walks'[v].stage = "loaded" => walks'[v] = walks[v]
      <3>1. CASE v = w
        BY <2>1, <2>3, <3>1 DEF Saves
      <3>2. CASE v # w
        <4>1. Counts(walks[v]) => walks[v].policy = c.policy
          BY <2>3 DEF WalkParts, Agreeing
        <4> QED
          BY <2>1, <3>2, <4>1 DEF Saves, Becomes, Counts
      <3> QED
        BY <3>1, <3>2
    <2>5. Agreeing(walks')
      BY <2>4, AgreementKept DEF WalkParts
    <2>6. LoadedFresh(walks')
      BY <2>4 DEF WalkParts, LoadedFresh
    <2>7. Walkers(walks', observer')
      <3>1. \A o \in Observer : observer'[o].walk = observer[o].walk
        <4>1. /\ \A o \in Observer : observer[o] \in Observation
              /\ \A b \in Observation : [b EXCEPT !.fresh = @ \ gone].walk = b.walk
          BY DEF TypeOK, Observation
        <4>2. \A o \in Observer : observer'[o] = [observer[o] EXCEPT !.fresh = @ \ gone]
          BY <2>1, FenceTypes DEF TypeOK
        <4> QED
          BY <4>1, <4>2
      <3>2. ASSUME NEW o \in Observer, observer[o].walk # None
            PROVE  walks'[observer[o].walk].stage = "walking"
        <4>1. /\ observer[o].walk \in Walk /\ observer[o].walk # w
              /\ walks[observer[o].walk].stage = "walking"
          BY <1>1, <3>2, ObservationTypes DEF WalkParts, Walkers, Drained
        <4> QED
          BY <2>4, <4>1
      <3> QED
        BY <3>1, <3>2 DEF Walkers
    <2>8. SavedStored(walks', Stored', intact')
      <3>1. /\ Counts(walks'[w]) /\ walks'[w].policy = c.policy
            /\ Stands(walks'[w]) = Put(Stands(c), gone, Empty)
        BY <1>3, <2>1 DEF Saves, Counts
      <3> QED
        BY <2>2, <2>5, <3>1, WrittenIsSaved
    <2> QED
      BY <2>2, <2>5, <2>6, <2>7, <2>8 DEF WalkParts
  <1> QED
    BY <1>2, <1>3 DEF Save

\* What a walk that joins shows, and who gives way.
Joins(w) ==
  LET c == walks[w]
      Peer(v) == Counts(walks[v]) /\ walks[v].policy = c.policy
  IN
  /\ c.stage = "loaded" /\ walks'[w].stage = "live" /\ walks'[w].policy = c.policy
  /\ walks'[w].superseded <=> c.policy # rules
  /\ \A v \in Walk : Peer(v) => Stands(walks'[w]) = Stands(walks[v])
  /\ (\A v \in Walk : ~Peer(v)) => Stands(walks'[w]) = Marked(Stored, c.policy)
  /\ \A v \in Walk \ {w} :
       IF Counts(walks[v]) /\ walks[v].policy # c.policy /\ c.policy = rules
       THEN /\ walks'[v].stage = walks[v].stage /\ walks'[v].policy = walks[v].policy
            /\ walks'[v].superseded
       ELSE walks'[v] = walks[v]

LEMMA JoinJoins ==
  ASSUME TypeOK, WalkParts(walks, observer, Stored, intact), NEW w \in Walk, Join(w)
  PROVE  Joins(w) /\ UNCHANGED <<observer, pending, disk, intact>>
  <1> DEFINE c == walks[w]
             policy == c.policy
             late == policy # rules
             peers == {v \in Current : walks[v].policy = policy}
             previous == IF peers = {} THEN Marked(Stored, policy)
                         ELSE Standing(CHOOSE v \in peers : TRUE)
             d == [c EXCEPT !.stage = "live", !.previous = previous, !.superseded = late]
  <1>1. /\ c.stage = "loaded" /\ c \in Cache
        /\ walks' = [v \in Walk |-> IF v = w THEN d
                                    ELSE IF v \in Rivals(w) /\ ~late
                                    THEN [walks[v] EXCEPT !.superseded = TRUE]
                                    ELSE walks[v]]
        /\ UNCHANGED <<observer, pending, disk, intact>>
    BY DEF Join, TypeOK
  <1>2. \A v \in Walk : /\ v \in Current <=> Counts(walks[v])
                        /\ v \in peers <=> Counts(walks[v]) /\ walks[v].policy = policy
                        /\ v \in Rivals(w) <=> Counts(walks[v]) /\ walks[v].policy # policy
    BY StandsIs DEF Rivals
  <1>3. peers \subseteq Walk
    BY DEF Current, Live
  <1>4. /\ peers = {} => previous = Marked(Stored, policy)
        /\ \A v \in peers : previous = Stands(walks[v])
        /\ previous \in Entries
    <2>1. CASE peers = {}
      BY <2>1, MarkedTypes, StoredTypes
    <2>2. CASE peers # {}
      <3> DEFINE x == CHOOSE v \in peers : TRUE
      <3>1. x \in peers /\ previous = Standing(x)
        BY <2>2
      <3> HIDE DEF x
      <3>2. x \in Walk /\ Counts(walks[x])
        BY <1>2, <1>3, <3>1
      <3>3. previous = Stands(walks[x]) /\ previous \in Entries
        BY <3>1, <3>2, StandsIs, StandingTypes DEF TypeOK
      <3>4. \A v \in peers : Stands(walks[v]) = Stands(walks[x])
        BY <1>2, <1>3, <3>2 DEF WalkParts, Agreeing
      <3> QED
        BY <2>2, <3>3, <3>4
    <2> QED
      BY <2>1, <2>2
  <1> HIDE DEF previous, peers
  <1>5. /\ d.stage = "live" /\ d.policy = policy /\ (d.superseded <=> late)
        /\ d.previous = previous /\ d.next = Empty /\ d.heard = {} /\ d.dropped = {}
    <2>1. c.next = Empty /\ c.heard = {} /\ c.dropped = {}
      BY <1>1 DEF WalkParts, LoadedFresh
    <2> QED
      BY <1>1, <2>1 DEF Cache
  <1>6. \A v \in Walk : walks'[v] = IF v = w THEN d
                                    ELSE IF v \in Rivals(w) /\ ~late
                                    THEN [walks[v] EXCEPT !.superseded = TRUE]
                                    ELSE walks[v]
    BY <1>1
  <1> HIDE DEF d
  <1>7. Stands(d) = previous
    <2>1. \A p \in Path : StandsAt(d, p) = previous[p]
      BY <1>5 DEF StandsAt, Empty
    <2> QED
      BY <1>4, <2>1 DEF Stands, Entries
  <1>8. \A v \in Walk : LET e == [walks[v] EXCEPT !.superseded = TRUE]
                        IN  /\ e.stage = walks[v].stage /\ e.policy = walks[v].policy
                            /\ e.superseded
    BY DEF TypeOK, Cache
  <1>9. ASSUME NEW v \in Walk \ {w}
         PROVE  IF Counts(walks[v]) /\ walks[v].policy # policy /\ policy = rules
                THEN /\ walks'[v].stage = walks[v].stage /\ walks'[v].policy = walks[v].policy
                     /\ walks'[v].superseded
                ELSE walks'[v] = walks[v]
    BY <1>2, <1>6, <1>8
  <1>10. \A v \in Walk : Counts(walks[v]) /\ walks[v].policy = policy =>
           Stands(d) = Stands(walks[v])
    BY <1>2, <1>4, <1>7
  <1>11. (\A v \in Walk : ~(Counts(walks[v]) /\ walks[v].policy = policy)) =>
           Stands(d) = Marked(Stored, policy)
    <2>1. (\A v \in Walk : ~(Counts(walks[v]) /\ walks[v].policy = policy)) => peers = {}
      BY <1>2, <1>3
    <2> QED
      BY <1>4, <1>7, <2>1
  <1>12. walks'[w] = d
    BY <1>6
  <1> QED
    BY <1>1, <1>5, <1>9, <1>10, <1>11, <1>12 DEF Joins

LEMMA JoinKeeps ==
  ASSUME TypeOK, WalkParts(walks, observer, Stored, intact), NEW w \in Walk, Join(w)
  PROVE  WalkParts(walks', observer', Stored', intact')
  <1>1. Joins(w) /\ UNCHANGED <<observer, pending, disk, intact>> /\ Stored' = Stored
    BY JoinJoins DEF Stored
  <1>2. ASSUME NEW v \in Walk, v # w
        PROVE  /\ walks'[v].stage = walks[v].stage
               /\ walks'[v] = walks[v] \/ ~Counts(walks'[v])
               /\ Counts(walks'[v]) => Counts(walks[v])
               /\ Counts(walks'[v]) /\ ~walks'[w].superseded =>
                    walks[v].policy = walks[w].policy
               /\ Counts(walks[v]) /\ walks'[w].superseded => Counts(walks'[v])
               /\ walks[v].stage = "loaded" => walks'[v] = walks[v]
    BY <1>1, <1>2 DEF Joins, Counts
  <1>3. ~Counts(walks[w])
    BY <1>1 DEF Joins, Counts
  <1>4. Agreeing(walks')
    <2>1. ASSUME NEW v \in Walk, v # w, Counts(walks'[v]), Counts(walks'[w])
          PROVE  /\ walks'[v].policy = walks'[w].policy
                 /\ Stands(walks'[v]) = Stands(walks'[w])
      BY <1>1, <1>2, <2>1 DEF Joins, Counts
    <2>2. ASSUME NEW u \in Walk, NEW v \in Walk, u # w, v # w,
                 Counts(walks'[u]), Counts(walks'[v])
          PROVE  walks'[u].policy = walks'[v].policy /\ Stands(walks'[u]) = Stands(walks'[v])
      BY <1>2, <2>2 DEF WalkParts, Agreeing
    <2> QED
      BY <2>1, <2>2 DEF Agreeing
  <1>5. LoadedFresh(walks')
    BY <1>1, <1>2 DEF WalkParts, LoadedFresh, Joins
  <1>6. Walkers(walks', observer')
    <2>1. \A o \in Observer : observer[o].walk # None =>
            observer[o].walk \in Walk /\ walks[observer[o].walk].stage = "walking"
      BY ObservationTypes DEF WalkParts, Walkers
    <2> QED
      BY <1>1, <1>2, <2>1 DEF Walkers, Joins
  <1>7. SavedStored(walks', Stored', intact')
    <2>1. CASE walks'[w].superseded
      BY <1>1, <1>2, <1>3, <2>1, SavedKept DEF WalkParts, Counts
    <2>2. CASE ~walks'[w].superseded
      BY <1>1, <2>2 DEF SavedStored, Joins, Counts
    <2> QED
      BY <2>1, <2>2
  <1> QED
    BY <1>4, <1>5, <1>6, <1>7 DEF WalkParts

\* A clear empties what every walk shows, and moves no walk.
LEMMA ClearEmpties ==
  ASSUME TypeOK, Clear, NEW w \in Walk
  PROVE  /\ walks'[w].stage = walks[w].stage /\ walks'[w].policy = walks[w].policy
         /\ walks'[w].superseded <=> walks[w].superseded
         /\ Counts(walks'[w]) => Counts(walks[w]) /\ Stands(walks'[w]) = Empty
         /\ walks[w].stage = "loaded" => walks'[w] = walks[w]
  <1> DEFINE c == walks[w]
             d == [c EXCEPT !.previous = Empty, !.next = Empty, !.heard = {},
                            !.external = Empty, !.dropped = {}]
  <1>1. c \in Cache /\ walks'[w] = IF w \notin Live THEN c ELSE d
    BY DEF TypeOK, Clear
  <1>2. /\ d.stage = c.stage /\ d.policy = c.policy /\ d.superseded = c.superseded
        /\ d.previous = Empty /\ d.next = Empty /\ d.heard = {} /\ d.dropped = {}
    BY <1>1 DEF Cache
  <1> HIDE DEF d
  <1>3. Stands(d) = Empty
    <2>1. \A p \in Path : StandsAt(d, p) = None
      BY <1>2 DEF StandsAt, Empty
    <2> QED
      BY <2>1 DEF Stands, Empty
  <1> QED
    BY <1>1, <1>2, <1>3, StandsIs DEF Counts

LEMMA ClearKeeps ==
  ASSUME TypeOK, WalkParts(walks, observer, Stored, intact), Clear
  PROVE  WalkParts(walks', observer', Stored', intact')
  <1>1. observer' = Fence(observer, Path) /\ disk' = None /\ pending' = None /\ intact' = intact
    BY DEF Clear
  <1>2. ASSUME NEW w \in Walk
        PROVE  /\ walks'[w].stage = walks[w].stage
               /\ Counts(walks'[w]) => /\ Counts(walks[w])
                                       /\ walks'[w].policy = walks[w].policy
                                       /\ Stands(walks'[w]) = Empty
               /\ walks[w].stage = "loaded" => walks'[w] = walks[w]
    BY ClearEmpties
  <1>3. Agreeing(walks')
    BY <1>2 DEF WalkParts, Agreeing
  <1>4. LoadedFresh(walks')
    BY <1>2 DEF WalkParts, LoadedFresh
  <1>5. Walkers(walks', observer')
    <2>1. \A o \in Observer : observer'[o].walk = observer[o].walk
      <3>1. /\ \A o \in Observer : observer[o] \in Observation
            /\ \A b \in Observation : [b EXCEPT !.fresh = @ \ Path].walk = b.walk
        BY DEF TypeOK, Observation
      <3>2. \A o \in Observer : observer'[o] = [observer[o] EXCEPT !.fresh = @ \ Path]
        BY <1>1, FenceTypes DEF TypeOK
      <3> QED
        BY <3>1, <3>2
    <2>2. \A o \in Observer : observer[o].walk # None =>
            observer[o].walk \in Walk /\ walks[observer[o].walk].stage = "walking"
      BY ObservationTypes DEF WalkParts, Walkers
    <2> QED
      BY <1>2, <2>1, <2>2 DEF Walkers
  <1>6. SavedStored(walks', Stored', intact')
    <2>1. Stored' = None
      BY <1>1 DEF Stored
    <2>2. \A policy : Marked(None, policy) = Empty
      BY DEF Marked
    <2> QED
      BY <1>2, <2>1, <2>2 DEF SavedStored
  <1> QED
    BY <1>3, <1>4, <1>5, <1>6 DEF WalkParts

\* Flushes, changes of the rules and other programs show nothing.
LEMMA ServiceKeeps ==
  ASSUME TypeOK, WalkParts(walks, observer, Stored, intact),
         \/ \E written \in BOOLEAN : Flush(written)
         \/ \E policy \in Policy : ChangeRules(policy)
         \/ \E p \in Path : Outside(p)
         \/ UNCHANGED vars
  PROVE  /\ WalkParts(walks', observer', Stored', intact')
         /\ UNCHANGED walks /\ (intact' => intact /\ Stored' = Stored)
  <1>1. UNCHANGED <<observer, walks>> /\ (intact' => intact /\ Stored' = Stored)
    <2>1. ASSUME NEW written \in BOOLEAN, Flush(written)
          PROVE  UNCHANGED <<observer, walks>> /\ (intact' => intact /\ Stored' = Stored)
      BY <2>1 DEF Flush, Stored
    <2>2. ASSUME NEW policy \in Policy, ChangeRules(policy)
          PROVE  UNCHANGED <<observer, walks>> /\ (intact' => intact /\ Stored' = Stored)
      BY <2>2 DEF ChangeRules, Stored
    <2>3. ASSUME NEW p \in Path, Outside(p)
          PROVE  UNCHANGED <<observer, walks>> /\ (intact' => intact /\ Stored' = Stored)
      BY <2>3 DEF Outside, Stored
    <2>4. CASE UNCHANGED vars
      BY <2>4 DEF vars, Stored
    <2> QED
      BY <2>1, <2>2, <2>3, <2>4
  <1>2. ObserversKeep /\ observer' \in [Observer -> Observation]
    BY <1>1 DEF ObserversKeep, TypeOK
  <1> QED
    BY <1>1, <1>2, WalksStill, StillKeeps

-----------------------------------------------------------------------------
(***************************************************************************)
(* The theorems.                                                           *)
(***************************************************************************)

LEMMA InitWalks == Init => WalkInv
  <1> SUFFICES ASSUME Init PROVE WalkInv
    OBVIOUS
  <1>1. /\ \A w \in Walk : walks[w] = NotWalking
        /\ \A o \in Observer : observer[o] = NotObserving
    BY DEF Init
  <1>2. NotWalking.stage = "idle" /\ NotObserving.walk = None /\ ~Counts(NotWalking)
    BY DEF NotWalking, NotObserving, Counts
  <1>3. WalkParts(walks, observer, Stored, intact)
    BY <1>1, <1>2 DEF WalkParts, Agreeing, Walkers, LoadedFresh, SavedStored
  <1> QED
    BY <1>3, InitTypes DEF WalkInv

\* Every step keeps the walks' agreement, and loses what it loses for good.
LEMMA WalksKept == WalkInv /\ [Next]_vars => WalkInv' /\ (intact' => intact)
  <1> SUFFICES ASSUME WalkInv, [Next]_vars PROVE WalkInv' /\ (intact' => intact)
    OBVIOUS
  <1>1. /\ TypeInv /\ TypeOK /\ WalkParts(walks, observer, Stored, intact)
        /\ Walkers(walks, observer)
    BY DEF WalkInv, TypeInv, WalkParts
  <1>2. TypeInv' /\ observer' \in [Observer -> Observation]
    BY <1>1, TypesKept DEF TypeInv, TypeOK
  <1>3. WalkParts(walks', observer', Stored', intact') /\ (intact' => intact)
    <2>1. CASE \E o \in Observer : Observe(o) \/ Changing(o)
      <3>1. PICK o \in Observer : Observe(o) \/ Changing(o)
        BY <2>1
      <3>2. Observed(o)
        BY <1>1, <3>1, ObserveObserved, ChangingObserved
      <3> QED
        BY <1>1, <1>2, <3>2, ObservedKeeps DEF Observed
    <2>2. ASSUME NEW w \in Walk, Walking(w)
          PROVE  WalkParts(walks', observer', Stored', intact') /\ (intact' => intact)
      <3>1. CASE Load(w)
        BY <1>1, <3>1, LoadKeeps DEF Load
      <3>2. CASE Join(w)
        BY <1>1, <3>2, JoinKeeps, JoinJoins
      <3>3. CASE Leave(w)
        BY <1>1, <3>3, LeaveKeeps
      <3>4. ASSUME NEW scope \in SUBSET Path, List(w, scope)
            PROVE  WalkParts(walks', observer', Stored', intact') /\ (intact' => intact)
        <4>1. intact' = intact
          BY <3>4 DEF List
        <4> QED
          BY <1>1, <3>4, <4>1, ListKeeps
      <3>5. ASSUME NEW written \in BOOLEAN, Save(w, written)
            PROVE  WalkParts(walks', observer', Stored', intact') /\ (intact' => intact)
        BY <1>1, <3>5, SaveKeeps
      <3>6. ASSUME NEW written \in BOOLEAN, NEW stage \in {"walking", "saved"},
                   Keep(w, stage, written)
            PROVE  WalkParts(walks', observer', Stored', intact') /\ (intact' => intact)
        BY <1>1, <3>6, KeepKeeps
      <3> QED
        BY <2>2, <3>1, <3>2, <3>3, <3>4, <3>5, <3>6 DEF Walking
    <2>3. CASE Clear
      <3>1. intact' = intact
        BY <2>3 DEF Clear
      <3> QED
        BY <1>1, <2>3, <3>1, ClearKeeps
    <2>4. CASE \/ \E written \in BOOLEAN : Flush(written)
               \/ \E policy \in Policy : ChangeRules(policy)
               \/ \E p \in Path : Outside(p)
               \/ UNCHANGED vars
      BY <1>1, <2>4, ServiceKeeps
    <2> QED
      BY <2>1, <2>2, <2>3, <2>4 DEF Next
  <1> QED
    BY <1>2, <1>3, WalkPartsPrimed DEF WalkInv

\* Walks that count agree because each is told what the others say, whatever the
\* order in which they join, publish, prune and end.
THEOREM WalkInvHolds == Spec => []WalkInv
  <1> QED
    BY InitWalks, WalksKept, PTL DEF Spec

\* The walks that count judge under one set of rules and hold the same entries.
THEOREM WalksAlwaysAgree == Spec => []WalksAgree
  <1>1. WalkInv => WalksAgree
    <2> SUFFICES ASSUME WalkInv, NEW v \in Current, NEW w \in Current
                 PROVE  walks[v].policy = walks[w].policy /\ Standing(v) = Standing(w)
      BY DEF WalksAgree
    <2>1. v \in Walk /\ w \in Walk
      BY DEF Current, Live
    <2> QED
      BY <2>1, StandsIs DEF WalkInv, WalkParts, Agreeing
  <1> QED
    BY <1>1, WalkInvHolds, PTL

-----------------------------------------------------------------------------
(***************************************************************************)
(* What a page is shown.                                                   *)
(***************************************************************************)

\* A view is what every walk that counts under the rules shows, and the store's
\* where there is none.
Shows(ws, store, rule, view) ==
  /\ \A w \in Walk : Counts(ws[w]) /\ ws[w].policy = rule => view = Stands(ws[w])
  /\ (\A w \in Walk : ~(Counts(ws[w]) /\ ws[w].policy = rule)) => view = Marked(store, rule)

LEMMA ViewShows == WalkInv => Shows(walks, Stored, rules, View)
  <1> SUFFICES ASSUME WalkInv PROVE Shows(walks, Stored, rules, View)
    OBVIOUS
  <1>1. \A w \in Walk : w \in Viewed <=> Counts(walks[w]) /\ walks[w].policy = rules
    BY StandsIs DEF Viewed
  <1>2. Viewed \subseteq Walk
    BY DEF Viewed, Current, Live
  <1>3. ASSUME NEW w \in Walk, Counts(walks[w]), walks[w].policy = rules
        PROVE  View = Stands(walks[w])
    <2> DEFINE v == CHOOSE x \in Viewed : TRUE
    <2>1. w \in Viewed
      BY <1>1, <1>3
    <2>2. v \in Viewed /\ View = Standing(v)
      BY <2>1 DEF View
    <2> HIDE DEF v
    <2>3. v \in Walk /\ Counts(walks[v])
      BY <1>1, <1>2, <2>2
    <2> QED
      BY <1>3, <2>2, <2>3, StandsIs DEF WalkInv, WalkParts, Agreeing
  <1>4. ASSUME \A w \in Walk : ~(Counts(walks[w]) /\ walks[w].policy = rules)
        PROVE  View = Marked(Stored, rules)
    <2>1. Viewed = {}
      BY <1>1, <1>2, <1>4
    <2> QED
      BY <2>1 DEF View
  <1> QED
    BY <1>3, <1>4 DEF Shows

LEMMA ViewShowsPrimed == WalkInv' => Shows(walks', Stored', rules', View')
  <1>1. WalkInv' => Shows(walks, Stored, rules, View)'
    BY ViewShows, PTL
  <1>2. Shows(walks, Stored, rules, View)' => Shows(walks', Stored', rules', View')
    BY DEF Shows, Counts, Stands, StandsAt, Marked, Empty
  <1> QED
    BY <1>1, <1>2

\* Every walk that counts is under the rules in force.
InForce == \A w \in Walk : Counts(walks[w]) => walks[w].policy = rules

\* A view stays where a walk that counts after the step shows it, or none counts
\* and the store has it.
LEMMA ViewStays ==
  ASSUME Shows(walks', Stored', rules', View'), rules' = rules,
         \/ \E w \in Walk : /\ Counts(walks'[w]) /\ walks'[w].policy = rules
                            /\ Stands(walks'[w]) = View
         \/ (\A w \in Walk : ~Counts(walks'[w])) /\ Marked(Stored', rules) = View
  PROVE  View' = View
  BY DEF Shows

LEMMA StillShown ==
  ASSUME Shows(walks, Stored, rules, View), Shows(walks', Stored', rules', View'),
         rules' = rules, InForce, Stored' = Stored,
         \A w \in Walk : /\ Counts(walks'[w]) <=> Counts(walks[w])
                         /\ Counts(walks[w]) => /\ walks'[w].policy = walks[w].policy
                                                /\ Stands(walks'[w]) = Stands(walks[w])
  PROVE  View' = View
  <1>1. CASE \E w \in Walk : Counts(walks[w])
    <2>1. PICK w \in Walk : Counts(walks[w])
      BY <1>1
    <2>2. View = Stands(walks[w]) /\ walks[w].policy = rules
      BY <2>1 DEF InForce, Shows
    <2> QED
      BY <2>1, <2>2, ViewStays
  <1>2. CASE \A w \in Walk : ~Counts(walks[w])
    <2>1. View = Marked(Stored, rules)
      BY <1>2 DEF Shows
    <2> QED
      BY <1>2, <2>1, ViewStays
  <1> QED
    BY <1>1, <1>2

\* A walk that saves goes on showing what it showed, or had stopped counting.
LEMMA OneWalkShown ==
  ASSUME Shows(walks, Stored, rules, View), Shows(walks', Stored', rules', View'),
         rules' = rules, InForce, NEW w \in Walk,
         \A v \in Walk : v # w => /\ Counts(walks'[v]) <=> Counts(walks[v])
                                  /\ walks'[v].policy = walks[v].policy
                                  /\ Counts(walks[v]) =>
                                       Stands(walks'[v]) = Stands(walks[v]),
         Counts(walks[w]) => /\ Counts(walks'[w]) /\ walks'[w].policy = walks[w].policy
                             /\ Stands(walks'[w]) = Stands(walks[w]),
         ~Counts(walks[w]) => ~Counts(walks'[w]) /\ Stored' = Stored
  PROVE  View' = View
  <1>1. CASE Counts(walks[w])
    <2>1. View = Stands(walks[w]) /\ walks[w].policy = rules
      BY <1>1 DEF InForce, Shows
    <2> QED
      BY <1>1, <2>1, ViewStays
  <1>2. CASE ~Counts(walks[w])
    BY <1>2, StillShown
  <1> QED
    BY <1>1, <1>2

\* A save that prunes nothing, or comes too late, shows nothing.
LEMMA SaveShown ==
  ASSUME WalkInv, NEW w \in Walk, NEW written, Save(w, written),
         Pruned(w) = {} \/ walks[w].superseded, intact',
         Shows(walks, Stored, rules, View), Shows(walks', Stored', rules', View'),
         rules' = rules, InForce
  PROVE  View' = View
  <1> DEFINE c == walks[w]
  <1>1. TypeOK /\ c.stage = "walking" /\ c \in Cache
    BY DEF WalkInv, TypeInv, TypeOK, Save
  <1>2. CASE c.superseded
    <2> DEFINE d == [c EXCEPT !.stage = "saved"]
    <2>1. walks' = [walks EXCEPT ![w] = d] /\ UNCHANGED <<disk, pending>>
      BY <1>2 DEF Save
    <2>2. ~Counts(d) /\ ~Counts(c)
      BY <1>1, <1>2 DEF Cache, Counts
    <2>3. \A v \in Walk : walks'[v] = IF v = w THEN d ELSE walks[v]
      BY <1>1, <2>1 DEF TypeOK
    <2> HIDE DEF d
    <2>4. Stored' = Stored
      BY <2>1 DEF Stored
    <2> QED
      BY <2>2, <2>3, <2>4, StillShown
  <1>3. CASE ~c.superseded
    <2>1. Saves(w, {})
      BY <1>1, <1>3, SaveViews
    <2>2. \A x \in Cache : Put(Stands(x), {}, Empty) = Stands(x)
      BY DEF Put, Stands
    <2>3. Counts(c) /\ \A v \in Walk : walks[v] \in Cache
      BY <1>1, <1>3 DEF Counts, TypeOK
    <2>4. /\ Counts(walks'[w]) /\ walks'[w].policy = c.policy
          /\ Stands(walks'[w]) = Stands(c)
      BY <1>3, <2>1, <2>2, <2>3 DEF Saves, Counts
    <2>5. View = Stands(c) /\ c.policy = rules
      BY <2>3 DEF InForce, Shows
    <2> QED
      BY <2>4, <2>5, ViewStays
  <1> QED
    BY <1>2, <1>3

\* The last walk to end leaves in the store what it showed.
LEMMA LeaveShown ==
  ASSUME WalkInv, NEW w \in Walk, Leave(w), intact',
         Shows(walks, Stored, rules, View), Shows(walks', Stored', rules', View'),
         rules' = rules, InForce
  PROVE  View' = View
  <1> DEFINE c == walks[w]
             d == [NotWalking EXCEPT !.stage = "over"]
  <1>1. /\ walks' = [walks EXCEPT ![w] = d] /\ UNCHANGED <<pending, disk>>
        /\ intact /\ (c.stage = "saved" \/ c.superseded)
    BY DEF Leave
  <1>2. ~Counts(d)
    BY DEF NotWalking, Counts
  <1> HIDE DEF d
  <1>3. \A v \in Walk : walks'[v] = IF v = w THEN d ELSE walks[v]
    BY <1>1 DEF WalkInv, TypeInv, TypeOK
  <1>4. Stored' = Stored
    BY <1>1 DEF Stored
  <1>5. CASE ~Counts(c)
    BY <1>2, <1>3, <1>4, <1>5, StillShown
  <1>6. CASE Counts(c)
    <2>1. View = Stands(c) /\ c.policy = rules /\ c.stage = "saved"
      BY <1>1, <1>6 DEF InForce, Shows, Counts
    <2>2. CASE \E v \in Walk \ {w} : Counts(walks[v])
      <3>1. PICK v \in Walk \ {w} : Counts(walks[v])
        BY <2>2
      <3>2. View = Stands(walks[v]) /\ walks[v].policy = rules
        BY <3>1 DEF InForce, Shows
      <3> QED
        BY <1>3, <3>1, <3>2, ViewStays
    <2>3. CASE \A v \in Walk \ {w} : ~Counts(walks[v])
      <3>1. \A v \in Walk : Counts(walks[v]) => walks[v].stage = "saved"
        BY <2>1, <2>3
      <3>2. Stands(c) = Marked(Stored, rules)
        BY <1>1, <1>6, <2>1, <3>1 DEF WalkInv, WalkParts, SavedStored
      <3>3. \A v \in Walk : ~Counts(walks'[v])
        BY <1>2, <1>3, <2>3
      <3> QED
        BY <1>4, <2>1, <3>2, <3>3, ViewStays
    <2> QED
      BY <2>2, <2>3
  <1> QED
    BY <1>5, <1>6

\* A walk that joins starts from what is shown.
LEMMA JoinShown ==
  ASSUME WalkInv, NEW w \in Walk, Join(w),
         Shows(walks, Stored, rules, View), Shows(walks', Stored', rules', View'),
         rules' = rules, InForce
  PROVE  View' = View
  <1>1. Joins(w) /\ UNCHANGED <<observer, pending, disk, intact>>
    BY JoinJoins DEF WalkInv, TypeInv
  <1>2. Stored' = Stored
    BY <1>1 DEF Stored
  <1>3. CASE walks[w].policy # rules
    BY <1>1, <1>2, <1>3, StillShown DEF Joins, Counts
  <1>4. CASE walks[w].policy = rules
    <2>1. Counts(walks'[w]) /\ walks'[w].policy = rules
      BY <1>1, <1>4 DEF Joins, Counts
    <2>2. CASE \E v \in Walk : Counts(walks[v])
      <3>1. PICK v \in Walk : Counts(walks[v])
        BY <2>2
      <3>2. View = Stands(walks[v]) /\ walks[v].policy = rules
        BY <3>1 DEF InForce, Shows
      <3>3. Stands(walks'[w]) = View
        BY <1>1, <1>4, <3>1, <3>2 DEF Joins
      <3> QED
        BY <2>1, <3>3, ViewStays
    <2>3. CASE \A v \in Walk : ~Counts(walks[v])
      <3>1. Stands(walks'[w]) = Marked(Stored, rules)
        BY <1>1, <1>4, <2>3 DEF Joins
      <3>2. View = Marked(Stored, rules)
        BY <2>3 DEF Shows
      <3> QED
        BY <2>1, <3>1, <3>2, ViewStays
    <2> QED
      BY <2>2, <2>3
  <1> QED
    BY <1>3, <1>4

\* A page reads the same entries from a walk's memory, the batch and the store as
\* walks join, checkpoint and end and the batch is flushed: nothing but a
\* publication, an invalidation, a prune or a clear shows.
THEOREM NothingElseShows == Spec => OnlyChangesShow
  <1>1. ASSUME WalkInv, WalkInv', [Next]_vars, intact', ~Accounted, rules' = rules,
               Current = Viewed
        PROVE  Shown' = Shown
    <2>1. /\ Shows(walks, Stored, rules, View) /\ Shows(walks', Stored', rules', View')
          /\ TypeInv /\ TypeOK /\ WalkParts(walks, observer, Stored, intact)
          /\ Walkers(walks, observer)
      BY <1>1, ViewShows, ViewShowsPrimed DEF WalkInv, TypeInv, WalkParts
    <2>2. InForce
      <3>1. \A w \in Walk : Counts(walks[w]) => w \in Current
        BY StandsIs
      <3> QED
        BY <1>1, <3>1 DEF InForce, Viewed
    <2>3. View' = View
      <3>1. CASE \E o \in Observer : Observe(o) \/ Changing(o)
        <4>1. PICK o \in Observer : Observe(o) \/ Changing(o)
          BY <3>1
        <4>2. Observed(o) /\ ~Says(o)
          BY <1>1, <2>1, <4>1, ObserveObserved, ChangingObserved DEF Accounted, Says
        <4>3. Still /\ Stored' = Stored
          BY <4>2 DEF Observed, SaysInWalk, SaysOutside, Stored
        <4> QED
          BY <1>1, <2>1, <2>2, <4>3, StillShown DEF Still, Same, Becomes, Counts
      <3>2. ASSUME NEW w \in Walk, Walking(w) PROVE View' = View
        <4>1. CASE MovesOn(w)
          BY <1>1, <2>1, <2>2, <4>1, OneWalkShown DEF MovesOn
        <4>2. CASE Load(w)
          BY <2>1, <4>1, <4>2, LoadKeeps
        <4>3. CASE Join(w)
          BY <1>1, <2>1, <2>2, <4>3, JoinShown
        <4>4. CASE Leave(w)
          BY <1>1, <2>1, <2>2, <4>4, LeaveShown
        <4>5. ASSUME NEW scope \in SUBSET Path, List(w, scope) PROVE View' = View
          BY <2>1, <4>1, <4>5, ListKeeps
        <4>6. ASSUME NEW written \in BOOLEAN, NEW stage \in {"walking", "saved"},
                     Keep(w, stage, written)
              PROVE  View' = View
          BY <2>1, <4>1, <4>6, KeepKeeps
        <4>7. ASSUME NEW written \in BOOLEAN, Save(w, written) PROVE View' = View
          <5>1. walks[w].stage = "walking"
            BY <4>7 DEF Save
          <5>2. CASE walks[w].superseded
            BY <1>1, <2>1, <2>2, <4>7, <5>2, SaveShown
          <5>3. CASE ~walks[w].superseded
            <6>1. walks'[w].stage = "saved"
              BY <2>1, <4>7, <5>3, SaveViews DEF Saves
            <6>2. Pruned(w) = {}
              BY <1>1, <5>1, <6>1 DEF Accounted
            <6> QED
              BY <1>1, <2>1, <2>2, <4>7, <6>2, SaveShown
          <5> QED
            BY <5>2, <5>3
        <4> QED
          BY <3>2, <4>2, <4>3, <4>4, <4>5, <4>6, <4>7 DEF Walking
      <3>3. CASE Clear
        BY <1>1, <3>3 DEF Accounted
      <3>4. CASE \/ \E written \in BOOLEAN : Flush(written)
                 \/ \E policy \in Policy : ChangeRules(policy)
                 \/ \E p \in Path : Outside(p)
                 \/ UNCHANGED vars
        <4>1. UNCHANGED walks /\ Stored' = Stored
          BY <1>1, <2>1, <3>4, ServiceKeeps
        <4> QED
          BY <1>1, <2>1, <2>2, <4>1, StillShown
      <3> QED
        BY <1>1, <3>1, <3>2, <3>3, <3>4 DEF Next
    <2> QED
      BY <2>3 DEF Shown
  <1>2. WalkInv /\ WalkInv' /\ [Next]_vars =>
          [intact' /\ ~Accounted /\ rules' = rules /\ Current = Viewed
             => Shown' = Shown]_vars
    BY <1>1
  <1> QED
    BY <1>2, WalkInvHolds, PTL DEF Spec, OnlyChangesShow

-----------------------------------------------------------------------------
(***************************************************************************)
(* Hits.  While the rules stay and nothing is lost, an entry that would      *)
(* answer for a file it does not describe is one the file's owner has yet to *)
(* answer for: it still holds its stamp, so its own publication will be      *)
(* accepted or its invalidation will.                                       *)
(***************************************************************************)

\* An entry that would answer for a file describes another content of it.
LieAt(there, view, p) ==
  /\ view[p] # None /\ there[p] # None
  /\ view[p].mark = "good" /\ view[p].key = there[p].key
  /\ view[p].content # there[p].content

\* What an observation must still say of the file it changed.
Answers(b, p) ==
  /\ b.changing = {p} /\ b.wrote /\ ~b.published /\ p \in b.fresh
  /\ b.stage \notin {"idle", "new", "leaving", "over"}

\* An observation's own file is among those it changes.
PathHeld(b) == b.changing # {} => b.path \in b.changing
\* What it changes is its own, and what it holds a stamp of is nobody else's.
Owned(b, o, owns) == /\ \A p \in b.changing : owns[p] = o
                     /\ \A p \in b.fresh : owns[p] \in {None, o}
\* What it found is the file's, as long as its stamp and its key stand.
Judged(b, there) ==
  (/\ b.stage = "judged" /\ b.content # None /\ b.target \in b.fresh
   /\ there[b.target] # None /\ there[b.target].key = b.key)
  => there[b.target].content = b.content
\* A file it changes without its stamp has no entry.
Kept(b, view) == b.stage \notin {"closing", "leaving"} =>
                   \A p \in b.changing : p \in b.fresh \/ view[p] = None

\* Every lie is answered for by the file's owner.
LiesOwned(there, owns, obs, view) ==
  \A p \in Path : LieAt(there, view, p) =>
    owns[p] \in Observer /\ Answers(obs[owns[p]], p)

Truthful(there, owns, obs, view) ==
  /\ \A x \in Observer : /\ PathHeld(obs[x]) /\ Owned(obs[x], x, owns)
                         /\ Judged(obs[x], there) /\ Kept(obs[x], view)
  /\ LiesOwned(there, owns, obs, view)

\* Entries are of keys there have been.
Old(view, n) == \A p \in Path : view[p] # None => view[p].key <= n

\* Everything under way is under the rules in force.
WalksRuled(ws, rule) ==
  \A w \in Walk : ws[w].stage \notin {"idle", "over"} =>
                    ws[w].policy = rule /\ ~ws[w].superseded
ObserversRuled(obs, rule) ==
  \A o \in Observer : obs[o].stage \notin {"idle", "over"} => obs[o].policy = rule

HonestParts(there, owns, obs, ws, rule, view, n) ==
  /\ Truthful(there, owns, obs, view) /\ Old(view, n)
  /\ WalksRuled(ws, rule) /\ ObserversRuled(obs, rule)

\* The inductive invariant.
HitInv == /\ WalkInv
          /\ intact /\ changes = 0 =>
               HonestParts(files, owner, observer, walks, rules, View, clock)

LEMMA HonestPrimed ==
  ASSUME HonestParts(files', owner', observer', walks', rules', View', clock')
  PROVE  HonestParts(files, owner, observer, walks, rules, View, clock)'
  BY DEF HonestParts, Truthful, PathHeld, Owned, Judged, Kept, LiesOwned, LieAt, Answers,
         Old, WalksRuled, ObserversRuled

-----------------------------------------------------------------------------
\* An observation moves on, and answers for what it answered for.
LEMMA ObserverTruth ==
  ASSUME Truthful(files, owner, observer, View), NEW o \in Observer,
         \A x \in Observer \ {o} : observer'[x] = observer[x],
         PathHeld(observer'[o]), Owned(observer'[o], o, owner),
         Judged(observer'[o], files), Kept(observer'[o], View),
         \A p \in Path : Answers(observer[o], p) => Answers(observer'[o], p),
         UNCHANGED <<files, owner>>, View' = View
  PROVE  Truthful(files', owner', observer', View')
  <1>1. \A x \in Observer : /\ PathHeld(observer'[x]) /\ Owned(observer'[x], x, owner')
                            /\ Judged(observer'[x], files') /\ Kept(observer'[x], View')
    BY DEF Truthful
  <1>2. LiesOwned(files', owner', observer', View')
    BY DEF Truthful, LiesOwned
  <1> QED
    BY <1>1, <1>2 DEF Truthful

\* It holds what it held, and is still under way.
Holds(b, c) ==
  /\ c.path = b.path /\ c.changing = b.changing /\ c.fresh = b.fresh
  /\ c.published <=> b.published
  /\ b.wrote => c.wrote
  /\ c.stage \notin {"idle", "new", "leaving", "over"}
  /\ b.stage \in {"closing", "leaving"} => c.stage \in {"closing", "leaving"}

LEMMA HoldsTruth ==
  ASSUME Truthful(files, owner, observer, View), NEW o \in Observer,
         \A x \in Observer \ {o} : observer'[x] = observer[x],
         Holds(observer[o], observer'[o]), Judged(observer'[o], files),
         UNCHANGED <<files, owner>>, View' = View
  PROVE  Truthful(files', owner', observer', View')
  <1>1. PathHeld(observer[o]) /\ Owned(observer[o], o, owner) /\ Kept(observer[o], View)
    BY DEF Truthful
  <1>2. PathHeld(observer'[o]) /\ Owned(observer'[o], o, owner) /\ Kept(observer'[o], View)
    BY <1>1 DEF PathHeld, Owned, Kept, Holds
  <1>3. \A p \in Path : Answers(observer[o], p) => Answers(observer'[o], p)
    BY DEF Answers, Holds
  <1> QED
    BY <1>2, <1>3, ObserverTruth

\* Losing stamps changes nothing else.
LEMMA FencedFields ==
  ASSUME TypeOK, NEW x \in Observer, NEW set,
         observer'[x] = [observer[x] EXCEPT !.fresh = @ \ set]
  PROVE  LET b == observer[x]
             c == observer'[x]
         IN  /\ c.fresh = b.fresh \ set
             /\ c.stage = b.stage /\ c.path = b.path /\ c.target = b.target
             /\ c.changing = b.changing /\ c.wrote = b.wrote /\ c.policy = b.policy
             /\ c.published = b.published /\ c.key = b.key /\ c.content = b.content
  <1>1. observer[x] \in Observation
    BY DEF TypeOK
  <1> QED
    BY <1>1 DEF Observation

\* A prune or a clear takes the entries and every stamp with them.
LEMMA ForgottenTruth ==
  ASSUME TypeOK, Truthful(files, owner, observer, View), NEW set,
         \A x \in Observer : observer'[x] = [observer[x] EXCEPT !.fresh = @ \ set],
         UNCHANGED <<files, owner>>,
         \A p \in Path : View'[p] = IF p \in set THEN None ELSE View[p]
  PROVE  Truthful(files', owner', observer', View')
  <1>1. ASSUME NEW x \in Observer
        PROVE  /\ PathHeld(observer'[x]) /\ Owned(observer'[x], x, owner)
               /\ Judged(observer'[x], files) /\ Kept(observer'[x], View')
               /\ \A p \in Path \ set : Answers(observer[x], p) => Answers(observer'[x], p)
    <2>1. /\ observer[x] \in Observation /\ observer[x].changing \in SUBSET Path
          /\ PathHeld(observer[x]) /\ Owned(observer[x], x, owner)
          /\ Judged(observer[x], files) /\ Kept(observer[x], View)
      BY ObservationTypes DEF Truthful
    <2>2. \A p \in observer[x].changing : \/ p \in set /\ View'[p] = None
                                          \/ p \notin set /\ View'[p] = View[p]
      BY <2>1
    <2>3. LET b == observer[x]
              c == observer'[x]
          IN  /\ c.fresh = b.fresh \ set
              /\ c.stage = b.stage /\ c.path = b.path /\ c.target = b.target
              /\ c.changing = b.changing /\ c.wrote = b.wrote
              /\ c.published = b.published /\ c.key = b.key /\ c.content = b.content
      BY FencedFields
    <2> QED
      BY <2>1, <2>2, <2>3 DEF PathHeld, Owned, Judged, Answers, Kept
  <1>2. LiesOwned(files, owner, observer', View')
    <2> SUFFICES ASSUME NEW p \in Path, LieAt(files, View', p)
                 PROVE  owner[p] \in Observer /\ Answers(observer'[owner[p]], p)
      BY DEF LiesOwned
    <2>1. p \notin set /\ LieAt(files, View, p)
      BY DEF LieAt
    <2>2. owner[p] \in Observer /\ Answers(observer[owner[p]], p)
      BY <2>1 DEF Truthful, LiesOwned
    <2> QED
      BY <1>1, <2>1, <2>2
  <1> QED
    BY <1>1, <1>2 DEF Truthful

\* An accepted change of the entries of files that nobody else has tells the truth
\* of one of them, or takes them all away.
LEMMA SaidTruth ==
  ASSUME TypeOK, Truthful(files, owner, observer, View), NEW o \in Observer,
         NEW set, NEW output, NEW e,
         \A p \in set : owner[p] \in {None, o},
         observer[o].path \in set,
         \A x \in Observer \ {o} : observer'[x] = [observer[x] EXCEPT !.fresh = @ \ set],
         observer'[o].stage \in {"closing", "leaving"},
         observer'[o].path = observer[o].path, observer'[o].changing = observer[o].changing,
         observer'[o].fresh \subseteq observer[o].fresh,
         UNCHANGED <<files, owner>>,
         View' = Replace(View, set, output, e),
         e = None \/ e.mark # "good" \/ files[output] = None
           \/ e.key # files[output].key \/ e.content = files[output].content
  PROVE  Truthful(files', owner', observer', View')
  <1>1. \A p \in Path : View'[p] = IF p \notin set THEN View[p]
                                   ELSE IF p = output THEN e ELSE None
    BY DEF Replace
  <1>2. ASSUME NEW x \in Observer, x # o
        PROVE  /\ PathHeld(observer'[x]) /\ Owned(observer'[x], x, owner)
               /\ Judged(observer'[x], files) /\ Kept(observer'[x], View')
               /\ \A p \in Path \ set : Answers(observer[x], p) => Answers(observer'[x], p)
    <2>1. /\ observer[x] \in Observation /\ observer[x].changing \in SUBSET Path
          /\ PathHeld(observer[x]) /\ Owned(observer[x], x, owner)
          /\ Judged(observer[x], files) /\ Kept(observer[x], View)
      BY ObservationTypes DEF Truthful
    <2>2. \A p \in observer[x].changing : p \notin set
      BY <1>2, <2>1, SweepCacheAssumption DEF Owned
    <2>3. \A p \in observer[x].changing : p \notin set /\ View'[p] = View[p]
      BY <1>1, <2>1, <2>2
    <2>4. observer'[x] = [observer[x] EXCEPT !.fresh = @ \ set]
      BY <1>2
    <2>5. LET b == observer[x]
              c == observer'[x]
          IN  /\ c.fresh = b.fresh \ set
              /\ c.stage = b.stage /\ c.path = b.path /\ c.target = b.target
              /\ c.changing = b.changing /\ c.wrote = b.wrote
              /\ c.published = b.published /\ c.key = b.key /\ c.content = b.content
      BY <2>4, FencedFields
    <2> QED
      BY <2>1, <2>3, <2>5 DEF PathHeld, Owned, Judged, Answers, Kept
  <1>3. /\ PathHeld(observer'[o]) /\ Owned(observer'[o], o, owner)
        /\ Judged(observer'[o], files) /\ Kept(observer'[o], View')
    <2>1. PathHeld(observer[o]) /\ Owned(observer[o], o, owner)
      BY DEF Truthful
    <2> QED
      BY <2>1 DEF PathHeld, Owned, Judged, Kept
  <1>4. LiesOwned(files, owner, observer', View')
    <2> SUFFICES ASSUME NEW p \in Path, LieAt(files, View', p)
                 PROVE  owner[p] \in Observer /\ Answers(observer'[owner[p]], p)
      BY DEF LiesOwned
    <2>1. p \notin set
      BY <1>1 DEF LieAt
    <2>2. LieAt(files, View, p)
      BY <1>1, <2>1 DEF LieAt
    <2>3. owner[p] \in Observer /\ Answers(observer[owner[p]], p)
      BY <2>2 DEF Truthful, LiesOwned
    <2>4. owner[p] # o
      BY <2>1, <2>3 DEF Truthful, PathHeld, Answers
    <2> QED
      BY <1>2, <2>1, <2>3, <2>4
  <1>5. \A x \in Observer : /\ PathHeld(observer'[x]) /\ Owned(observer'[x], x, owner)
                            /\ Judged(observer'[x], files) /\ Kept(observer'[x], View')
    BY <1>2, <1>3
  <1> QED
    BY <1>4, <1>5 DEF Truthful

-----------------------------------------------------------------------------
\* What an accepted publication or invalidation makes of the view.
LEMMA EditView ==
  ASSUME TypeOK, WalkParts(walks, observer, Stored, intact),
         Shows(walks', Stored', rules', View'), WalksRuled(walks, rules),
         NEW o \in Observer, observer[o].policy = rules, NEW set \in SUBSET Path, NEW output,
         NEW e \in Entry \cup {None}, EditStore(o, set, output, e),
         UNCHANGED <<rules, disk>>
  PROVE  /\ View' = Replace(View, set, output, e)
         /\ WalksRuled(walks', rules)
  <1> DEFINE after == EditAfter(o, set, output, e)
  <1>1. after = Replace(View, set, output, e)
    BY DEF EditAfter, EditBase, View, Viewed
  <1>2. EditViews(rules, set, after)
    BY EditPuts
  <1>3. Marked(Stored', rules) = after
    BY EditStored
  <1>4. \A w \in Walk : Counts(walks[w]) /\ walks[w].policy = rules =>
          Put(Stands(walks[w]), set, after) = after
    BY EditAfterShown DEF WalkParts
  <1> HIDE DEF after
  <1>5. ASSUME NEW w \in Walk
        PROVE  /\ walks'[w].stage = walks[w].stage
               /\ Counts(walks'[w]) <=> Counts(walks[w])
               /\ walks[w].stage \notin {"idle", "over"} =>
                    walks'[w].policy = rules /\ ~walks'[w].superseded
               /\ Counts(walks[w]) => Stands(walks'[w]) = after
    BY <1>2, <1>4 DEF EditViews, Becomes, Counts, WalksRuled
  <1>6. View' = after
    <2>1. CASE \E w \in Walk : Counts(walks[w])
      <3>1. PICK w \in Walk : Counts(walks[w])
        BY <2>1
      <3> QED
        BY <1>5, <3>1 DEF Shows, Counts
    <2>2. CASE \A w \in Walk : ~Counts(walks[w])
      BY <1>3, <1>5, <2>2 DEF Shows
    <2> QED
      BY <2>1, <2>2
  <1> QED
    BY <1>1, <1>5, <1>6 DEF WalksRuled

LEMMA InstalledView ==
  ASSUME TypeOK, Shows(walks, Stored, rules, View), Shows(walks', Stored', rules', View'),
         WalksRuled(walks, rules), NEW w \in Walk, walks[w].stage = "walking",
         NEW set \in SUBSET Path, NEW output, NEW e \in Entry \cup {None},
         walks' = Installed(w, set, Replace(Empty, set, output, e)),
         UNCHANGED rules
  PROVE  /\ View' = Replace(View, set, output, e)
         /\ WalksRuled(walks', rules)
  <1> DEFINE entries == Replace(Empty, set, output, e)
  <1>1. entries \in Entries
    BY IdleTypes, ReplaceTypes
  <1>2. \A p \in Path : p \in set => entries[p] = IF p = output THEN e ELSE None
    BY DEF Replace
  <1>3. walks' = Installed(w, set, entries) /\ walks \in [Walk -> Cache]
    BY DEF TypeOK
  <1> HIDE DEF entries
  <1>4. Puts(walks[w].policy, set, entries)
    BY <1>1, <1>3, InstalledPuts
  <1>5. Counts(walks[w]) /\ walks[w].policy = rules
    BY DEF WalksRuled, Counts
  <1>6. ASSUME NEW v \in Walk
        PROVE  /\ walks'[v].stage = walks[v].stage
               /\ walks[v].stage \notin {"idle", "over"} =>
                    walks'[v].policy = rules /\ ~walks'[v].superseded
    BY <1>4 DEF Puts, Same, Becomes, WalksRuled
  <1>7. View = Stands(walks[w]) /\ View' = Stands(walks'[w])
    BY <1>5, <1>6 DEF Shows, Counts, WalksRuled
  <1>8. Stands(walks'[w]) = Put(Stands(walks[w]), set, entries)
    BY <1>4, <1>5 DEF Puts, Becomes, Counts
  <1>9. Put(View, set, entries) = Replace(View, set, output, e)
    BY <1>2 DEF Put, Replace
  <1> QED
    BY <1>6, <1>7, <1>8, <1>9 DEF WalksRuled

\* Where no walk shows anything new, the view stays and the rules are kept to.
LEMMA StillHonest ==
  ASSUME Shows(walks, Stored, rules, View), Shows(walks', Stored', rules', View'),
         WalksRuled(walks, rules), Still, Stored' = Stored, rules' = rules
  PROVE  View' = View /\ WalksRuled(walks', rules)
  <1>1. InForce
    BY DEF InForce, WalksRuled, Counts
  <1>2. View' = View
    BY <1>1, StillShown DEF Still, Same, Becomes, Counts
  <1>3. WalksRuled(walks', rules)
    BY DEF WalksRuled, Still, Same, Becomes
  <1> QED
    BY <1>2, <1>3

\* A step of an observation that shows nothing keeps what hits rest on.
LEMMA QuietHonest ==
  ASSUME TypeOK, HonestParts(files, owner, observer, walks, rules, View, clock),
         Shows(walks, Stored, rules, View), Shows(walks', Stored', rules', View'),
         Still, NEW o \in Observer, NEW c, Set(o, c),
         c.stage \in {"idle", "over"} \/ c.policy = rules,
         Judged(c, files),
         \/ Holds(observer[o], c)
         \/ /\ PathHeld(c) /\ Owned(c, o, owner) /\ Kept(c, View)
            /\ \A p \in Path : ~Answers(observer[o], p),
         UNCHANGED <<files, clock, rules, owner, pending, disk>>
  PROVE  HonestParts(files', owner', observer', walks', rules', View', clock')
  <1>1. \A x \in Observer : observer'[x] = IF x = o THEN c ELSE observer[x]
    BY DEF Set, TypeOK
  <1>2. View' = View /\ WalksRuled(walks', rules)
    BY StillHonest DEF Stored, HonestParts
  <1>3. Truthful(files', owner', observer', View')
    <2>1. CASE Holds(observer[o], c)
      BY <1>1, <1>2, <2>1, HoldsTruth DEF HonestParts
    <2>2. CASE /\ PathHeld(c) /\ Owned(c, o, owner) /\ Kept(c, View)
               /\ \A p \in Path : ~Answers(observer[o], p)
      BY <1>1, <1>2, <2>2, ObserverTruth DEF HonestParts
    <2> QED
      BY <2>1, <2>2
  <1>4. Old(View', clock')
    BY <1>2 DEF HonestParts
  <1>5. ObserversRuled(observer', rules')
    BY <1>1 DEF HonestParts, ObserversRuled
  <1> QED
    BY <1>2, <1>3, <1>4, <1>5 DEF HonestParts

\* An accepted publication or invalidation keeps it too.
LEMMA SaidHonest ==
  ASSUME TypeOK, HonestParts(files, owner, observer, walks, rules, View, clock),
         NEW o \in Observer, NEW set \in SUBSET Path, NEW output, NEW e \in Entry \cup {None},
         Accepts(o, set), observer[o].path \in set, observer[o].stage \notin {"idle", "over"},
         \A x \in Observer \ {o} : observer'[x] = [observer[x] EXCEPT !.fresh = @ \ set],
         observer'[o].stage \in {"closing", "leaving"},
         observer'[o].path = observer[o].path, observer'[o].changing = observer[o].changing,
         observer'[o].policy = observer[o].policy,
         observer'[o].fresh \subseteq observer[o].fresh,
         View' = Replace(View, set, output, e), WalksRuled(walks', rules),
         e # None => /\ e.key <= clock
                     /\ e.mark = "good" /\ files[output] # None /\ e.key = files[output].key
                          => e.content = files[output].content,
         UNCHANGED <<files, clock, rules, owner>>
  PROVE  HonestParts(files', owner', observer', walks', rules', View', clock')
  <1>1. Truthful(files', owner', observer', View')
    <2>1. \A p \in set : owner[p] \in {None, o}
      BY DEF Accepts
    <2>2. \/ e = None \/ e.mark # "good" \/ files[output] = None
          \/ e.key # files[output].key \/ e.content = files[output].content
      OBVIOUS
    <2> QED
      BY <2>1, <2>2, SaidTruth DEF HonestParts
  <1>2. Old(View', clock')
    BY DEF Old, HonestParts, Replace
  <1>3. ObserversRuled(observer', rules')
    <2>1. ASSUME NEW x \in Observer \ {o}
          PROVE  /\ observer'[x].stage = observer[x].stage
                 /\ observer'[x].policy = observer[x].policy
      <3>1. observer'[x] = [observer[x] EXCEPT !.fresh = @ \ set]
        OBVIOUS
      <3> QED
        BY <3>1, FencedFields
    <2> QED
      BY <2>1 DEF HonestParts, ObserversRuled
  <1> QED
    BY <1>1, <1>2, <1>3 DEF HonestParts

-----------------------------------------------------------------------------
\* What a step starts from.
Honestly(o) ==
  LET b == observer[o] IN
  /\ TypeOK /\ WalkParts(walks, observer, Stored, intact)
  /\ Shows(walks, Stored, rules, View) /\ Shows(walks', Stored', rules', View')
  /\ HonestParts(files, owner, observer, walks, rules, View, clock)
  /\ WalksRuled(walks, rules)
  /\ b \in Observation /\ b.path \in Path /\ b.target \in Path /\ b.walk \in Walk \cup {None}
  /\ b.changing \in SUBSET Path /\ b.fresh \in SUBSET Path
  /\ InOrder(b) /\ KeyIsOld(b, clock)
  /\ PathHeld(b) /\ Owned(b, o, owner) /\ Judged(b, files) /\ Kept(b, View)
  /\ b.stage \notin {"idle", "over"} => b.policy = rules
  /\ b.walk # None => walks[b.walk].stage = "walking"

LEMMA StartsHonestly ==
  ASSUME WalkInv, WalkInv', NEW o \in Observer,
         HonestParts(files, owner, observer, walks, rules, View, clock)
  PROVE  Honestly(o)
  <1>1. /\ TypeOK /\ TypeInv /\ WalkParts(walks, observer, Stored, intact)
        /\ Walkers(walks, observer)
    BY DEF WalkInv, TypeInv, WalkParts
  <1>2. Shows(walks, Stored, rules, View) /\ Shows(walks', Stored', rules', View')
    BY ViewShows, ViewShowsPrimed
  <1>3. /\ observer[o] \in Observation /\ observer[o].path \in Path
        /\ observer[o].target \in Path /\ observer[o].walk \in Walk \cup {None}
        /\ observer[o].changing \in SUBSET Path /\ observer[o].fresh \in SUBSET Path
    BY <1>1, ObservationTypes
  <1>4. /\ InOrder(observer[o]) /\ KeyIsOld(observer[o], clock)
        /\ observer[o].walk # None => walks[observer[o].walk].stage = "walking"
    BY <1>1 DEF TypeInv, Walkers
  <1>5. /\ PathHeld(observer[o]) /\ Owned(observer[o], o, owner)
        /\ Judged(observer[o], files) /\ Kept(observer[o], View)
        /\ observer[o].stage \notin {"idle", "over"} => observer[o].policy = rules
        /\ WalksRuled(walks, rules)
    BY DEF HonestParts, Truthful, ObserversRuled
  <1> QED
    BY <1>1, <1>2, <1>3, <1>4, <1>5 DEF Honestly

\* A publication: accepted, it tells the truth of what it holds the stamps of;
\* refused, it leaves what it changed to be invalidated.
LEMMA PublicationHonest ==
  ASSUME NEW o \in Observer, Honestly(o), NEW set \in SUBSET Path, NEW output \in Path,
         NEW e \in Entry \cup {None}, Publication(o, set, output, e),
         observer[o].stage \in {"judged", "spoiled"}, observer[o].path \in set,
         e # None => e.key <= clock,
         (/\ e # None /\ Accepts(o, set) /\ e.mark = "good"
          /\ files[output] # None /\ e.key = files[output].key)
         => e.content = files[output].content,
         UNCHANGED <<files, clock, rules, owner, disk>>
  PROVE  HonestParts(files', owner', observer', walks', rules', View', clock')
  <1> DEFINE b == observer[o]
  <1>0. /\ TypeOK /\ WalkParts(walks, observer, Stored, intact)
        /\ Shows(walks, Stored, rules, View) /\ Shows(walks', Stored', rules', View')
        /\ HonestParts(files, owner, observer, walks, rules, View, clock)
        /\ WalksRuled(walks, rules) /\ b \in Observation
        /\ b.policy = rules /\ b.walk \in Walk \cup {None}
        /\ b.walk # None => walks[b.walk].stage = "walking"
    BY DEF Honestly
  <1>1. PICK accepted \in BOOLEAN : Publishes(o, set, output, e, accepted)
    BY <1>0, PublicationObserves
  <1>2. observer' \in [Observer -> Observation] /\ observer \in [Observer -> Observation]
    BY <1>0, PublicationObserves DEF TypeOK
  <1>3. CASE ~accepted
    <2>1. UNCHANGED <<walks, pending>>
      BY <1>1, <1>3 DEF Publishes
    <2>2. \A x \in Observer \ {o} : observer'[x] = [observer[x] EXCEPT !.fresh = @ \ {}]
      BY <1>1, <1>3 DEF Publishes
    <2>3. \A x \in Observer : observer[x] = [observer[x] EXCEPT !.fresh = @ \ {}]
      BY <1>2 DEF Observation
    <2>4. \A x \in Observer \ {o} : observer'[x] = observer[x]
      BY <2>2, <2>3
    <2>5. Set(o, observer'[o])
      BY <1>2, <2>4 DEF Set
    <2>6. /\ Leaves(b, observer'[o]) /\ observer'[o].fresh = b.fresh \ {}
          /\ observer'[o].published <=> b.published
      BY <1>1, <1>3 DEF Publishes
    <2>7. Holds(b, observer'[o]) /\ Judged(observer'[o], files) /\ observer'[o].policy = rules
      BY <1>0, <2>6 DEF Leaves, Holds, Judged
    <2> QED
      BY <1>0, <2>1, <2>5, <2>7, WalksStill, QuietHonest
  <1>4. CASE accepted
    <2>1. /\ Accepts(o, set) /\ Leaves(b, observer'[o]) /\ observer'[o].fresh = b.fresh \ set
          /\ \A x \in Observer \ {o} :
               observer'[x] = [observer[x] EXCEPT !.fresh = @ \ set]
      BY <1>1, <1>4 DEF Publishes
    <2>2. View' = Replace(View, set, output, e) /\ WalksRuled(walks', rules)
      <3>1. CASE b.walk # None
        <4>1. walks' = Installed(b.walk, set, Replace(Empty, set, output, e))
          BY <1>1, <1>4, <3>1 DEF Publishes
        <4> QED
          BY <1>0, <3>1, <4>1, InstalledView
      <3>2. CASE b.walk = None
        <4>1. EditStore(o, set, output, e)
          BY <1>1, <1>4, <3>2 DEF Publishes
        <4> QED
          BY <1>0, <4>1, EditView
      <3> QED
        BY <3>1, <3>2
    <2>3. /\ observer'[o].stage = "closing" /\ observer'[o].path = b.path
          /\ observer'[o].changing = b.changing /\ observer'[o].policy = b.policy
          /\ observer'[o].fresh \subseteq b.fresh
      BY <2>1 DEF Leaves
    <2>4. e # None => /\ e.key <= clock
                      /\ e.mark = "good" /\ files[output] # None /\ e.key = files[output].key
                           => e.content = files[output].content
      BY <2>1
    <2> QED
      BY <1>0, <2>1, <2>2, <2>3, <2>4, SaidHonest
  <1> QED
    BY <1>3, <1>4

\* An invalidation takes what was said of the files changed, or has nothing to take.
LEMMA InvalidateHonest ==
  ASSUME NEW o \in Observer, Honestly(o), Invalidate(o)
  PROVE  HonestParts(files', owner', observer', walks', rules', View', clock')
  <1> DEFINE b == observer[o]
             set == b.changing
  <1>0. /\ TypeOK /\ WalkParts(walks, observer, Stored, intact)
        /\ Shows(walks, Stored, rules, View) /\ Shows(walks', Stored', rules', View')
        /\ HonestParts(files, owner, observer, walks, rules, View, clock)
        /\ WalksRuled(walks, rules) /\ b \in Observation /\ set \in SUBSET Path
        /\ b.path \in Path /\ PathHeld(b) /\ Owned(b, o, owner)
        /\ b.stage \notin {"idle", "over"} => b.policy = rules
    BY DEF Honestly
  <1>1. /\ b.stage = "closing" /\ set # {} /\ b.path \in set /\ b.policy = rules
        /\ UNCHANGED <<files, clock, rules, owner, disk>>
    BY <1>0 DEF Invalidate, Invalidates, PathHeld
  <1>2. PICK a \in BOOLEAN : Invalidated(o, a)
    BY <1>0, InvalidateObserves
  <1>3. observer' \in [Observer -> Observation] /\ observer \in [Observer -> Observation]
    BY <1>0, InvalidateObserves DEF TypeOK
  <1>4. /\ observer'[o].stage = "leaving" /\ observer'[o].path = b.path
        /\ observer'[o].changing = set /\ observer'[o].policy = b.policy
    BY <1>2 DEF Invalidated
  <1>5. CASE a
    <2>1. /\ Edits(o, set) /\ EditStore(o, set, b.path, None)
          /\ observer'[o].fresh = b.fresh \ set
          /\ \A x \in Observer \ {o} :
               observer'[x] = [observer[x] EXCEPT !.fresh = @ \ set]
      BY <1>2, <1>5 DEF Invalidated
    <2>2. Accepts(o, set) /\ observer'[o].fresh \subseteq b.fresh
      BY <2>1 DEF Edits
    <2>3. View' = Replace(View, set, b.path, None) /\ WalksRuled(walks', rules)
      BY <1>0, <1>1, <2>1, EditView
    <2> QED
      BY <1>0, <1>1, <1>4, <2>1, <2>2, <2>3, SaidHonest
  <1>6. CASE ~a
    <2>1. /\ ~Edits(o, set) /\ UNCHANGED <<walks, pending>>
          /\ observer'[o].fresh = b.fresh \ {}
          /\ \A x \in Observer \ {o} :
               observer'[x] = [observer[x] EXCEPT !.fresh = @ \ {}]
      BY <1>2, <1>6 DEF Invalidated
    <2>2. \A x \in Observer : observer[x] = [observer[x] EXCEPT !.fresh = @ \ {}]
      BY <1>3 DEF Observation
    <2>3. \A x \in Observer \ {o} : observer'[x] = observer[x]
      BY <2>1, <2>2
    <2>4. Set(o, observer'[o])
      BY <1>3, <2>3 DEF Set
    <2>5. \A p \in Path : ~Answers(b, p)
      BY <1>0, <1>1, <2>1 DEF Answers, Edits, Accepts, Owned
    <2>6. /\ PathHeld(observer'[o]) /\ Owned(observer'[o], o, owner)
          /\ Kept(observer'[o], View) /\ Judged(observer'[o], files)
      BY <1>0, <1>4, <2>1 DEF PathHeld, Owned, Kept, Judged
    <2> QED
      BY <1>0, <1>1, <1>4, <2>1, <2>4, <2>5, <2>6, WalksStill, QuietHonest
  <1> QED
    BY <1>5, <1>6

\* Files are given back once nothing is left to answer for.
LEMMA ReleaseHonest ==
  ASSUME NEW o \in Observer, Honestly(o), Release(o)
  PROVE  HonestParts(files', owner', observer', walks', rules', View', clock')
  <1> DEFINE b == observer[o]
             c == [NotObserving EXCEPT !.stage = "over"]
  <1>0. /\ TypeOK /\ HonestParts(files, owner, observer, walks, rules, View, clock)
        /\ Shows(walks, Stored, rules, View) /\ Shows(walks', Stored', rules', View')
        /\ WalksRuled(walks, rules) /\ Truthful(files, owner, observer, View)
    BY DEF Honestly, HonestParts
  <1>1. /\ b.stage = "leaving" \/ (b.stage = "closing" /\ ~Invalidates(o))
        /\ owner' = [p \in Path |-> IF owner[p] = o THEN None ELSE owner[p]]
        /\ Set(o, c) /\ UNCHANGED <<files, clock, rules, changes, walks, pending, disk, intact>>
    BY DEF Release
  <1>2. \A x \in Observer : observer'[x] = IF x = o THEN c ELSE observer[x]
    BY <1>0, <1>1 DEF Set, TypeOK
  <1>3. c.stage = "over" /\ c.changing = {} /\ c.fresh = {}
    BY DEF NotObserving
  <1> HIDE DEF c
  <1>4. View' = View /\ WalksRuled(walks', rules)
    BY <1>0, <1>1, WalksStill, StillHonest DEF Stored
  <1>5. ASSUME NEW x \in Observer
        PROVE  /\ PathHeld(observer'[x]) /\ Owned(observer'[x], x, owner')
               /\ Judged(observer'[x], files') /\ Kept(observer'[x], View')
    <2>1. CASE x = o
      BY <1>2, <1>3, <2>1 DEF PathHeld, Owned, Judged, Kept
    <2>2. CASE x # o
      <3>1. /\ PathHeld(observer[x]) /\ Owned(observer[x], x, owner)
            /\ Judged(observer[x], files) /\ Kept(observer[x], View)
            /\ observer[x].changing \in SUBSET Path /\ observer[x].fresh \in SUBSET Path
        BY <1>0, ObservationTypes DEF Truthful
      <3>2. Owned(observer[x], x, owner')
        BY <1>1, <2>2, <3>1 DEF Owned
      <3> QED
        BY <1>1, <1>2, <1>4, <2>2, <3>1, <3>2
    <2> QED
      BY <2>1, <2>2
  <1>6. LiesOwned(files', owner', observer', View')
    <2> SUFFICES ASSUME NEW p \in Path, LieAt(files', View', p)
                 PROVE  owner'[p] \in Observer /\ Answers(observer'[owner'[p]], p)
      BY DEF LiesOwned
    <2>1. owner[p] \in Observer /\ Answers(observer[owner[p]], p)
      BY <1>0, <1>1, <1>4 DEF Truthful, LiesOwned
    <2>2. owner[p] # o
      BY <1>1, <2>1 DEF Answers, Invalidates
    <2> QED
      BY <1>1, <1>2, <2>1, <2>2
  <1>7. Truthful(files', owner', observer', View')
    BY <1>5, <1>6 DEF Truthful
  <1>8. ObserversRuled(observer', rules')
    BY <1>0, <1>1, <1>2, <1>3 DEF HonestParts, ObserversRuled
  <1> QED
    BY <1>0, <1>1, <1>4, <1>7, <1>8 DEF HonestParts

\* Observing, from the start to the way out.
LEMMA ObserveHonest ==
  ASSUME TypeInv, Walkers(walks, observer), NEW o \in Observer, Honestly(o), Observe(o)
  PROVE  HonestParts(files', owner', observer', walks', rules', View', clock')
  <1> DEFINE b == observer[o]
  <1>0. /\ TypeOK /\ HonestParts(files, owner, observer, walks, rules, View, clock)
        /\ Shows(walks, Stored, rules, View) /\ Shows(walks', Stored', rules', View')
        /\ b \in Observation /\ b.path \in Path /\ b.target \in Path
        /\ b.walk \in Walk \cup {None} /\ InOrder(b) /\ KeyIsOld(b, clock)
        /\ PathHeld(b) /\ Owned(b, o, owner) /\ Judged(b, files) /\ Kept(b, View)
        /\ b.stage \notin {"idle", "over"} => b.policy = rules
        /\ b.walk # None => walks[b.walk].stage = "walking"
    BY DEF Honestly
  <1>1. ASSUME NEW p \in Path, NEW w \in Walk \cup {None}, Begin(o, p, w)
        PROVE  HonestParts(files', owner', observer', walks', rules', View', clock')
    <2> DEFINE c == [NotObserving EXCEPT !.stage = "new", !.path = p, !.target = p,
                                         !.policy = rules, !.walk = w]
    <2>1. /\ c.stage = "new" /\ c.policy = rules /\ c.changing = {} /\ c.fresh = {}
          /\ Set(o, c) /\ b.stage = "idle"
          /\ UNCHANGED <<files, clock, rules, owner, pending, disk>>
      BY <1>1 DEF NotObserving, Begin
    <2> HIDE DEF c
    <2>2. Observed(o) /\ ~Says(o)
      BY <2>1, ObserveObserved DEF Says
    <2>3. Still
      BY <2>2 DEF Observed, SaysInWalk, SaysOutside
    <2>4. /\ PathHeld(c) /\ Owned(c, o, owner) /\ Kept(c, View) /\ Judged(c, files)
          /\ \A q \in Path : ~Answers(b, q)
      BY <2>1 DEF PathHeld, Owned, Kept, Judged, Answers
    <2> QED
      BY <1>0, <2>1, <2>3, <2>4, QuietHonest
  <1>2. CASE Watch(o)
    <2> DEFINE c == [b EXCEPT !.stage = "open", !.fresh = {b.path}]
    <2>1. /\ b.stage = "new" /\ owner[b.path] \in {None, o} /\ Set(o, c)
          /\ UNCHANGED <<files, clock, rules, owner, walks, pending, disk>>
      BY <1>2 DEF Watch, Settled
    <2>2. /\ c.stage = "open" /\ c.policy = b.policy /\ c.path = b.path
          /\ c.changing = b.changing /\ c.fresh = {b.path}
      BY <1>0 DEF Observation
    <2> HIDE DEF c
    <2>3. b.changing = {}
      BY <1>0, <2>1 DEF InOrder
    <2>4. /\ PathHeld(c) /\ Owned(c, o, owner) /\ Kept(c, View) /\ Judged(c, files)
          /\ \A q \in Path : ~Answers(b, q)
      BY <2>1, <2>2, <2>3 DEF PathHeld, Owned, Kept, Judged, Answers
    <2> QED
      BY <1>0, <2>1, <2>2, <2>4, WalksStill, QuietHonest
  <1>3. CASE StopWaiting(o)
    <2> DEFINE c == [b EXCEPT !.stage = "leaving"]
    <2>1. /\ b.stage = "new" /\ Set(o, c)
          /\ UNCHANGED <<files, clock, rules, owner, pending, disk>>
      BY <1>3 DEF StopWaiting
    <2>2. /\ c.stage = "leaving" /\ c.policy = b.policy /\ c.path = b.path
          /\ c.changing = b.changing /\ c.fresh = b.fresh
      BY <1>0 DEF Observation
    <2> HIDE DEF c
    <2>3. Observed(o) /\ ~Says(o)
      BY <1>3, <2>1, ObserveObserved DEF Says, Observe
    <2>4. Still
      BY <2>3 DEF Observed, SaysInWalk, SaysOutside
    <2>5. /\ PathHeld(c) /\ Owned(c, o, owner) /\ Kept(c, View) /\ Judged(c, files)
          /\ \A q \in Path : ~Answers(b, q)
      BY <1>0, <2>1, <2>2 DEF PathHeld, Owned, Kept, Judged, Answers
    <2> QED
      BY <1>0, <2>1, <2>2, <2>4, <2>5, QuietHonest
  <1>4. CASE Stat(o)
    <2> DEFINE file == files[b.target]
               c == [b EXCEPT !.stage = "keyed", !.key = IF file = None THEN None ELSE file.key]
    <2>1. /\ b.stage = "open" /\ Set(o, c)
          /\ UNCHANGED <<files, clock, rules, owner, walks, pending, disk>>
      BY <1>4 DEF Stat
    <2>2. /\ c.stage = "keyed" /\ c.policy = b.policy /\ c.path = b.path
          /\ c.changing = b.changing /\ c.fresh = b.fresh /\ c.wrote = b.wrote
          /\ c.published = b.published
      BY <1>0 DEF Observation
    <2> HIDE DEF c
    <2>3. Holds(b, c) /\ Judged(c, files)
      BY <2>1, <2>2 DEF Holds, Judged
    <2> QED
      BY <1>0, <2>1, <2>2, <2>3, WalksStill, QuietHonest
  <1>5. CASE Probe(o)
    <2> DEFINE file == files[b.target]
               c == [b EXCEPT !.stage = "judged",
                              !.content = IF file = None THEN None ELSE file.content]
    <2>1. /\ b.stage = "keyed" /\ Set(o, c)
          /\ UNCHANGED <<files, clock, rules, owner, walks, pending, disk>>
      BY <1>5 DEF Probe
    <2>2. /\ c.stage = "judged" /\ c.policy = b.policy /\ c.path = b.path
          /\ c.changing = b.changing /\ c.fresh = b.fresh /\ c.wrote = b.wrote
          /\ c.published = b.published /\ c.target = b.target
          /\ file # None => c.content = file.content
      BY <1>0 DEF Observation
    <2> HIDE DEF c
    <2>3. Holds(b, c) /\ Judged(c, files)
      BY <2>1, <2>2 DEF Holds, Judged
    <2> QED
      BY <1>0, <2>1, <2>2, <2>3, WalksStill, QuietHonest
  <1>6. ASSUME Set(o, Over(b)), Still, b.stage \notin {"idle", "over"},
               UNCHANGED <<files, clock, rules, owner, pending, disk>>
        PROVE  HonestParts(files', owner', observer', walks', rules', View', clock')
    <2>1. /\ Leaves(b, Over(b)) /\ Over(b).fresh = b.fresh /\ Over(b).published = b.published
      BY <1>0, OverLeaves
    <2>2. /\ Holds(b, Over(b)) /\ Judged(Over(b), files) /\ Over(b).policy = rules
      BY <1>0, <1>6, <2>1 DEF Leaves, Holds, Judged
    <2> QED
      BY <1>0, <1>6, <2>2, QuietHonest
  <1>7. ASSUME Hit(o) \/ \E carries \in BOOLEAN : Abandon(o, carries)
        PROVE  HonestParts(files', owner', observer', walks', rules', View', clock')
    <2>1. /\ Set(o, Over(b)) /\ b.stage \notin {"idle", "over"}
          /\ walks' = walks \/ (b.walk # None /\ walks' = Carry(b.walk, b.path))
          /\ UNCHANGED <<files, clock, rules, owner, pending, disk>>
      BY <1>7 DEF Hit, Abandon
    <2>2. Still
      <3>1. CASE walks' = walks
        BY <3>1, WalksStill
      <3>2. CASE b.walk # None /\ walks' = Carry(b.walk, b.path)
        <4>1. /\ b.walk \in Walk /\ walks[b.walk].stage # "loaded"
              /\ walks \in [Walk -> Cache]
          BY <1>0, <3>2 DEF TypeOK
        <4> QED
          BY <1>0, <3>2, <4>1, CarryStill
      <3> QED
        BY <2>1, <3>1, <3>2
    <2> QED
      BY <1>6, <2>1, <2>2
  <1>8. ASSUME NEW mark \in {"good", "failed"}, Publish(o, mark)
        PROVE  HonestParts(files', owner', observer', walks', rules', View', clock')
    <2>1. /\ b.stage \in {"judged", "spoiled"}
          /\ mark = "good" => b.stage = "judged" /\ b.content # None
          /\ UNCHANGED <<files, clock, rules, owner, disk>>
      BY <1>8 DEF Publish
    <2>2. CASE KeyStands(o)
      <3> DEFINE e == Verdict(o, mark)
      <3>1. Publication(o, Touched(o), b.target, e)
        BY <1>8, <2>2 DEF Publish
      <3>2. e \in Entry
        BY <2>1, <2>2, VerdictTypes
      <3>3. /\ e.content = b.content /\ e.key = b.key /\ e.mark = mark
            /\ Touched(o) \in SUBSET Path /\ b.path \in Touched(o) /\ b.target \in Touched(o)
        BY <1>0 DEF Verdict, Touched
      <3>4. e.key <= clock
        BY <1>0, <2>2, <3>3 DEF KeyStands, KeyIsOld
      <3>5. (/\ Accepts(o, Touched(o)) /\ e.mark = "good"
             /\ files[b.target] # None /\ e.key = files[b.target].key)
            => e.content = files[b.target].content
        BY <1>0, <2>1, <3>3 DEF Accepts, Judged
      <3> HIDE DEF e
      <3> QED
        BY <1>0, <2>1, <3>1, <3>2, <3>3, <3>4, <3>5, PublicationHonest
    <2>3. CASE ~KeyStands(o)
      <3>1. Set(o, Over(b)) /\ UNCHANGED <<walks, pending>>
        BY <1>8, <2>3 DEF Publish
      <3> QED
        BY <1>6, <2>1, <3>1, WalksStill
    <2> QED
      BY <2>2, <2>3
  <1>9. CASE PublishNothing(o)
    <2>1. /\ Publication(o, {b.path}, b.path, None)
          /\ b.stage \in {"judged", "spoiled"}
          /\ UNCHANGED <<files, clock, rules, owner, disk>>
      BY <1>9 DEF PublishNothing
    <2> QED
      BY <1>0, <2>1, PublicationHonest
  <1> QED
    BY <1>1, <1>2, <1>3, <1>4, <1>5, <1>7, <1>8, <1>9, InvalidateHonest, ReleaseHonest
    DEF Observe

-----------------------------------------------------------------------------
\* What is shown are entries.
LEMMA ViewTypes ==
  ASSUME TypeOK, Shows(walks, Stored, rules, View)
  PROVE  \A p \in Path : View[p] # None => View[p].key \in Nat
  <1>1. View \in Entries
    <2>1. CASE \E w \in Walk : Counts(walks[w]) /\ walks[w].policy = rules
      <3>1. PICK w \in Walk : Counts(walks[w]) /\ walks[w].policy = rules
        BY <2>1
      <3>2. walks[w] \in Cache /\ View = Stands(walks[w])
        BY <3>1 DEF Shows, TypeOK
      <3> QED
        BY <3>2 DEF Stands, StandsAt, Cache, Entries
    <2>2. CASE \A w \in Walk : ~(Counts(walks[w]) /\ walks[w].policy = rules)
      <3>1. View = Marked(Stored, rules)
        BY <2>2 DEF Shows
      <3> QED
        BY <3>1, StoredTypes, MarkedTypes DEF TypeOK
    <2> QED
      BY <2>1, <2>2
  <1>2. \A e \in Entry : e.key \in Nat
    BY SweepCacheAssumption DEF Entry, Stamp
  <1> QED
    BY <1>1, <1>2 DEF Entries

\* A change of its own files: where an entry no longer describes one of them, the
\* observation answers for it.
LEMMA ChangedHonest ==
  ASSUME TypeOK, HonestParts(files, owner, observer, walks, rules, View, clock),
         Shows(walks, Stored, rules, View), Shows(walks', Stored', rules', View'),
         NEW o \in Observer, NEW c, Set(o, c),
         c.path = observer[o].path, c.changing = observer[o].changing,
         c.fresh = observer[o].fresh, c.stage \in {"open", "spoiled"}, c.policy = rules,
         observer[o].stage = "owning",
         \A p \in Path \ observer[o].changing : files'[p] = files[p],
         \A p \in observer[o].changing : LieAt(files', View, p) => Answers(c, p),
         clock' = clock + 1,
         UNCHANGED <<rules, owner, walks, pending, disk>>
  PROVE  HonestParts(files', owner', observer', walks', rules', View', clock')
  <1> DEFINE b == observer[o]
  <1>0. /\ WalksRuled(walks, rules) /\ Truthful(files, owner, observer, View)
        /\ Old(View, clock) /\ ObserversRuled(observer, rules)
        /\ PathHeld(b) /\ Owned(b, o, owner) /\ Kept(b, View)
        /\ b.changing \in SUBSET Path /\ clock \in Nat
    BY ObservationTypes DEF HonestParts, Truthful
  <1>1. \A x \in Observer : observer'[x] = IF x = o THEN c ELSE observer[x]
    BY DEF Set, TypeOK
  <1>2. View' = View /\ WalksRuled(walks', rules)
    BY <1>0, WalksStill, StillHonest DEF Stored
  <1>3. ASSUME NEW x \in Observer
        PROVE  /\ PathHeld(observer'[x]) /\ Owned(observer'[x], x, owner)
               /\ Judged(observer'[x], files') /\ Kept(observer'[x], View)
    <2>1. CASE x = o
      BY <1>0, <1>1, <2>1 DEF PathHeld, Owned, Judged, Kept
    <2>2. CASE x # o
      <3>1. /\ PathHeld(observer[x]) /\ Owned(observer[x], x, owner)
            /\ Judged(observer[x], files) /\ Kept(observer[x], View)
            /\ observer[x].target \in Path
        BY <1>0, ObservationTypes DEF Truthful
      <3>2. observer[x].target \in observer[x].fresh =>
              files'[observer[x].target] = files[observer[x].target]
        BY <1>0, <2>2, <3>1, SweepCacheAssumption DEF Owned
      <3>3. Judged(observer[x], files')
        BY <3>1, <3>2 DEF Judged
      <3> QED
        BY <1>1, <2>2, <3>1, <3>3
    <2> QED
      BY <2>1, <2>2
  <1>4. LiesOwned(files', owner, observer', View)
    <2> SUFFICES ASSUME NEW p \in Path, LieAt(files', View, p)
                 PROVE  owner[p] \in Observer /\ Answers(observer'[owner[p]], p)
      BY DEF LiesOwned
    <2>1. CASE p \in b.changing
      BY <1>0, <1>1, <2>1 DEF Owned
    <2>2. CASE p \notin b.changing
      <3>1. LieAt(files, View, p)
        BY <2>2 DEF LieAt
      <3>2. owner[p] \in Observer /\ Answers(observer[owner[p]], p)
        BY <1>0, <3>1 DEF Truthful, LiesOwned
      <3>3. owner[p] # o
        BY <2>2, <3>2 DEF Answers
      <3> QED
        BY <1>1, <3>2, <3>3
    <2> QED
      BY <2>1, <2>2
  <1>5. Truthful(files', owner', observer', View')
    BY <1>2, <1>3, <1>4 DEF Truthful
  <1>6. Old(View', clock')
    BY <1>0, <1>2, ViewTypes DEF Old
  <1>7. ObserversRuled(observer', rules')
    BY <1>0, <1>1 DEF ObserversRuled
  <1> QED
    BY <1>2, <1>5, <1>6, <1>7 DEF HonestParts

\* Taking files takes everyone else's stamps of them.
LEMMA TakeHonest ==
  ASSUME NEW o \in Observer, Honestly(o), NEW output \in Path, NEW inPlace \in BOOLEAN,
         Take(o, output, inPlace)
  PROVE  HonestParts(files', owner', observer', walks', rules', View', clock')
  <1> DEFINE b == observer[o]
             c == observer'[o]
             set == {b.path, output}
  <1>0. /\ TypeOK /\ WalksRuled(walks, rules) /\ Truthful(files, owner, observer, View)
        /\ Old(View, clock) /\ ObserversRuled(observer, rules)
        /\ Shows(walks, Stored, rules, View) /\ Shows(walks', Stored', rules', View')
        /\ PathHeld(b) /\ Owned(b, o, owner) /\ InOrder(b) /\ b.path \in Path
        /\ b.fresh \in SUBSET Path
    BY DEF Honestly, HonestParts
  <1>1. /\ b.stage \in {"judged", "open", "spoiled"} /\ ~b.edited
        /\ \A p \in set : owner[p] \in {None, o}
        /\ owner' = [p \in Path |-> IF p \in set THEN o ELSE owner[p]]
        /\ UNCHANGED <<files, clock, rules, changes, walks, pending, disk, intact>>
    BY DEF Take, Settled
  <1>2. Taken(o, output, inPlace)
    BY <1>0, TakeObserves
  <1>3. b.changing = {}
    BY <1>0, <1>1 DEF InOrder
  <1>4. View' = View /\ WalksRuled(walks', rules)
    BY <1>0, <1>1, WalksStill, StillHonest DEF Stored
  <1>5. \A p \in Path : owner'[p] = IF p \in set THEN o ELSE owner[p]
    BY <1>1
  <1>6. /\ c.stage = "owning" /\ c.path = b.path /\ c.changing = set
        /\ c.fresh = b.fresh \cup set /\ c.policy = b.policy
        /\ \A x \in Observer \ {o} : observer'[x] = [observer[x] EXCEPT !.fresh = @ \ set]
    BY <1>2 DEF Taken
  <1>7. ASSUME NEW x \in Observer \ {o}
        PROVE  /\ PathHeld(observer'[x]) /\ Owned(observer'[x], x, owner')
               /\ Judged(observer'[x], files) /\ Kept(observer'[x], View)
               /\ \A p \in Path : owner[p] = x /\ Answers(observer[x], p) =>
                    owner'[p] = x /\ Answers(observer'[x], p)
               /\ observer'[x].stage = observer[x].stage
               /\ observer'[x].policy = observer[x].policy
    <2>1. /\ PathHeld(observer[x]) /\ Owned(observer[x], x, owner)
          /\ Judged(observer[x], files) /\ Kept(observer[x], View)
          /\ observer[x].changing \in SUBSET Path /\ observer[x].fresh \in SUBSET Path
      BY <1>0, ObservationTypes DEF Truthful
    <2>2. observer'[x] = [observer[x] EXCEPT !.fresh = @ \ set]
      BY <1>6
    <2>3. LET d == observer[x]
              e == observer'[x]
          IN  /\ e.fresh = d.fresh \ set
              /\ e.stage = d.stage /\ e.path = d.path /\ e.target = d.target
              /\ e.changing = d.changing /\ e.wrote = d.wrote /\ e.policy = d.policy
              /\ e.published = d.published /\ e.key = d.key /\ e.content = d.content
      BY <1>0, <2>2, FencedFields
    <2>4. \A p \in Path : owner[p] = x => p \notin set /\ owner'[p] = x
      BY <1>1, <1>5, SweepCacheAssumption
    <2>5. \A p \in observer[x].changing : p \notin set /\ owner'[p] = x
      BY <2>1, <2>4 DEF Owned
    <2>6. Owned(observer'[x], x, owner')
      BY <1>5, <2>1, <2>3, <2>5 DEF Owned
    <2>7. PathHeld(observer'[x]) /\ Judged(observer'[x], files) /\ Kept(observer'[x], View)
      BY <2>1, <2>3, <2>5 DEF PathHeld, Judged, Kept
    <2>8. \A p \in Path : owner[p] = x /\ Answers(observer[x], p) =>
                            owner'[p] = x /\ Answers(observer'[x], p)
      BY <2>3, <2>4 DEF Answers
    <2> QED
      BY <2>3, <2>6, <2>7, <2>8
  <1>8. PathHeld(c) /\ Owned(c, o, owner') /\ Judged(c, files) /\ Kept(c, View)
    BY <1>0, <1>5, <1>6 DEF PathHeld, Owned, Judged, Kept
  <1>9. LiesOwned(files, owner', observer', View)
    <2> SUFFICES ASSUME NEW p \in Path, LieAt(files, View, p)
                 PROVE  owner'[p] \in Observer /\ Answers(observer'[owner'[p]], p)
      BY DEF LiesOwned
    <2>1. owner[p] \in Observer /\ Answers(observer[owner[p]], p)
      BY <1>0 DEF Truthful, LiesOwned
    <2>2. owner[p] # o
      BY <1>3, <2>1 DEF Answers
    <2> QED
      BY <1>7, <2>1, <2>2
  <1>10. Truthful(files', owner', observer', View')
    <2>1. \A x \in Observer : /\ PathHeld(observer'[x]) /\ Owned(observer'[x], x, owner')
                              /\ Judged(observer'[x], files) /\ Kept(observer'[x], View)
      BY <1>7, <1>8
    <2> QED
      BY <1>1, <1>4, <1>9, <2>1 DEF Truthful
  <1>11. ObserversRuled(observer', rules')
    <2>1. c.policy = rules
      BY <1>0, <1>1, <1>6 DEF ObserversRuled
    <2>2. ASSUME NEW x \in Observer, observer'[x].stage \notin {"idle", "over"}
          PROVE  observer'[x].policy = rules
      BY <1>0, <1>7, <2>1, <2>2 DEF ObserversRuled
    <2> QED
      BY <1>1, <2>2 DEF ObserversRuled
  <1> QED
    BY <1>0, <1>1, <1>4, <1>10, <1>11 DEF HonestParts

\* An edit refused in place gives back a file it has not written.
LEMMA RefusedHonest ==
  ASSUME NEW o \in Observer, Honestly(o), Refused(o)
  PROVE  HonestParts(files', owner', observer', walks', rules', View', clock')
  <1> DEFINE b == observer[o]
             c == [b EXCEPT !.stage = "spoiled", !.changing = {}]
  <1>0. /\ TypeOK /\ WalksRuled(walks, rules) /\ Truthful(files, owner, observer, View)
        /\ Old(View, clock) /\ ObserversRuled(observer, rules)
        /\ Shows(walks, Stored, rules, View) /\ Shows(walks', Stored', rules', View')
        /\ Owned(b, o, owner) /\ InOrder(b) /\ b \in Observation
        /\ b.changing \in SUBSET Path /\ b.fresh \in SUBSET Path
    BY DEF Honestly, HonestParts
  <1>1. /\ b.stage = "owning" /\ b.inPlace /\ Set(o, c)
        /\ owner' = [p \in Path |-> IF p \in b.changing THEN None ELSE owner[p]]
        /\ UNCHANGED <<files, clock, rules, walks, pending, disk>>
    BY DEF Refused
  <1>2. \A x \in Observer : observer'[x] = IF x = o THEN c ELSE observer[x]
    BY <1>0, <1>1 DEF Set, TypeOK
  <1>3. /\ c.stage = "spoiled" /\ c.changing = {} /\ c.fresh = b.fresh
        /\ c.policy = b.policy
    BY <1>0 DEF Observation
  <1> HIDE DEF c
  <1>4. View' = View /\ WalksRuled(walks', rules)
    BY <1>0, <1>1, WalksStill, StillHonest DEF Stored
  <1>5. \A p \in Path : owner'[p] = IF p \in b.changing THEN None ELSE owner[p]
    BY <1>1
  <1>6. \A p \in b.changing : owner[p] = o
    BY <1>0 DEF Owned
  <1>7. ASSUME NEW x \in Observer
        PROVE  /\ PathHeld(observer'[x]) /\ Owned(observer'[x], x, owner')
               /\ Judged(observer'[x], files) /\ Kept(observer'[x], View)
    <2>1. CASE x = o
      <3>1. Owned(c, o, owner')
        BY <1>0, <1>3, <1>5 DEF Owned
      <3>2. PathHeld(c) /\ Judged(c, files) /\ Kept(c, View)
        BY <1>3 DEF PathHeld, Judged, Kept
      <3> QED
        BY <1>2, <2>1, <3>1, <3>2
    <2>2. CASE x # o
      <3>1. /\ PathHeld(observer[x]) /\ Owned(observer[x], x, owner)
            /\ Judged(observer[x], files) /\ Kept(observer[x], View)
            /\ observer[x].changing \in SUBSET Path /\ observer[x].fresh \in SUBSET Path
        BY <1>0, ObservationTypes DEF Truthful
      <3>2. \A p \in observer[x].changing : p \notin b.changing
        BY <1>6, <2>2, <3>1 DEF Owned
      <3>3. Owned(observer[x], x, owner')
        BY <1>5, <3>1, <3>2 DEF Owned
      <3> QED
        BY <1>2, <2>2, <3>1, <3>3
    <2> QED
      BY <2>1, <2>2
  <1>8. LiesOwned(files, owner', observer', View)
    <2> SUFFICES ASSUME NEW p \in Path, LieAt(files, View, p)
                 PROVE  owner'[p] \in Observer /\ Answers(observer'[owner'[p]], p)
      BY DEF LiesOwned
    <2>1. owner[p] \in Observer /\ Answers(observer[owner[p]], p)
      BY <1>0 DEF Truthful, LiesOwned
    <2>2. owner[p] # o
      BY <1>0, <1>1, <2>1 DEF Answers, InOrder
    <2>3. owner'[p] = owner[p]
      BY <1>5, <1>6, <2>2
    <2> QED
      BY <1>2, <2>1, <2>2, <2>3
  <1>9. Truthful(files', owner', observer', View')
    BY <1>1, <1>4, <1>7, <1>8 DEF Truthful
  <1>10. ObserversRuled(observer', rules')
    BY <1>0, <1>1, <1>2, <1>3 DEF ObserversRuled
  <1> QED
    BY <1>0, <1>1, <1>4, <1>9, <1>10 DEF HonestParts

\* Changing files: what is written under an entry is still to be answered for by the
\* observation that wrote it, which took the only stamp there is of the file.
LEMMA ChangingHonest ==
  ASSUME NEW o \in Observer, Honestly(o), Changing(o), intact'
  PROVE  HonestParts(files', owner', observer', walks', rules', View', clock')
  <1> DEFINE b == observer[o]
             p == b.path
             q == b.target
  <1>0. /\ TypeOK /\ HonestParts(files, owner, observer, walks, rules, View, clock)
        /\ Shows(walks, Stored, rules, View) /\ Shows(walks', Stored', rules', View')
        /\ b \in Observation /\ p \in Path /\ q \in Path /\ b.changing \in SUBSET Path
        /\ InOrder(b) /\ Owned(b, o, owner) /\ Kept(b, View)
        /\ b.stage \notin {"idle", "over"} => b.policy = rules
        /\ Truthful(files, owner, observer, View) /\ Old(View, clock)
    BY DEF Honestly, HonestParts
  <1>1. clock \in Nat /\ \A r \in Path : View[r] # None => View[r].key \in Nat
    BY <1>0, ObservationTypes, ViewTypes
  <1>2. ASSUME NEW keeps \in BOOLEAN, NEW stage \in {"open", "spoiled"},
               EditInPlace(o, keeps, stage)
        PROVE  HonestParts(files', owner', observer', walks', rules', View', clock')
    <2> DEFINE c == [b EXCEPT !.stage = stage, !.wrote = TRUE, !.edited = TRUE]
    <2>1. /\ b.stage = "owning" /\ b.inPlace /\ files[p] # None /\ Set(o, c)
          /\ clock' = clock + 1 /\ UNCHANGED <<rules, owner, walks, pending, disk>>
          /\ \A r \in Path \ {p} : files'[r] = files[r]
      BY <1>0, <1>2 DEF EditInPlace, TypeOK
    <2>2. /\ c.stage = stage /\ c.wrote /\ c.path = b.path /\ c.changing = b.changing
          /\ c.fresh = b.fresh /\ c.policy = b.policy /\ c.published = b.published
      BY <1>0 DEF Observation
    <2> HIDE DEF c
    <2>3. b.changing = {p} /\ ~b.published
      BY <1>0, <2>1 DEF InOrder
    <2>4. ASSUME NEW r \in b.changing, LieAt(files', View, r) PROVE Answers(c, r)
      BY <1>0, <2>1, <2>2, <2>3, <2>4 DEF Answers, LieAt, Kept
    <2> QED
      BY <1>0, <2>1, <2>2, <2>3, <2>4, ChangedHonest
  <1>3. CASE Rewrite(o)
    <2> DEFINE c == [b EXCEPT !.stage = "open", !.edited = TRUE]
    <2>1. /\ b.stage = "owning" /\ files[p] # None /\ Set(o, c)
          /\ clock' = clock + 1 /\ UNCHANGED <<rules, owner, walks, pending, disk>>
      BY <1>3 DEF Rewrite
    <2>2. PICK left \in {None, files[p]} :
            files' = [files EXCEPT ![p] = left,
                                   ![q] = [content |-> clock + 1, key |-> clock + 1]]
      BY <1>3 DEF Rewrite
    <2>3. /\ files'[q].key = clock + 1
          /\ p # q => files'[p] \in {None, files[p]}
          /\ \A r \in Path \ {p, q} : files'[r] = files[r]
      BY <1>0, <2>2 DEF TypeOK
    <2>4. /\ c.stage = "open" /\ c.path = b.path /\ c.changing = b.changing
          /\ c.fresh = b.fresh /\ c.policy = b.policy
      BY <1>0 DEF Observation
    <2> HIDE DEF c
    <2>5. b.changing = {p, q}
      BY <1>0, <2>1 DEF InOrder
    <2>6. ASSUME NEW r \in b.changing, LieAt(files', View, r) PROVE FALSE
      <3>1. r # q
        BY <1>0, <1>1, <2>3, <2>6 DEF LieAt, Old
      <3>2. r = p /\ p # q
        BY <2>5, <3>1
      <3>3. LieAt(files, View, p)
        BY <2>3, <2>6, <3>2 DEF LieAt
      <3>4. Answers(b, p)
        BY <1>0, <2>5, <3>3 DEF Truthful, LiesOwned, Owned
      <3> QED
        BY <2>5, <3>2, <3>4 DEF Answers
    <2> QED
      BY <1>0, <2>1, <2>3, <2>4, <2>5, <2>6, ChangedHonest
  <1>4. CASE Rejected(o)
    <2> DEFINE c == [b EXCEPT !.stage = "spoiled", !.wrote = TRUE, !.edited = TRUE,
                              !.target = b.path]
    <2>1. /\ b.stage = "owning" /\ Set(o, c)
          /\ UNCHANGED <<files, clock, rules, owner, walks, pending, disk>>
      BY <1>4 DEF Rejected
    <2>2. /\ c.stage = "spoiled" /\ c.wrote /\ c.path = b.path /\ c.changing = b.changing
          /\ c.fresh = b.fresh /\ c.policy = b.policy /\ c.published = b.published
      BY <1>0 DEF Observation
    <2> HIDE DEF c
    <2>3. Holds(b, c) /\ Judged(c, files)
      BY <2>1, <2>2 DEF Holds, Judged
    <2> QED
      BY <1>0, <2>1, <2>2, <2>3, WalksStill, QuietHonest
  <1>5. CASE Unchanged(o)
    <2> DEFINE c == [b EXCEPT !.stage = "judged", !.edited = TRUE]
    <2>1. /\ b.stage = "owning" /\ b.inPlace /\ Set(o, c) /\ files[p].key # b.key
          /\ UNCHANGED <<files, clock, rules, owner, walks, pending, disk>>
      BY <1>5 DEF Unchanged
    <2>2. /\ c.stage = "judged" /\ c.path = b.path /\ c.changing = b.changing
          /\ c.fresh = b.fresh /\ c.policy = b.policy /\ c.published = b.published
          /\ c.wrote = b.wrote /\ c.target = b.target /\ c.key = b.key
      BY <1>0 DEF Observation
    <2> HIDE DEF c
    <2>3. q = p
      BY <1>0, <2>1 DEF InOrder
    <2>4. Holds(b, c) /\ Judged(c, files)
      BY <2>1, <2>2, <2>3 DEF Holds, Judged
    <2> QED
      BY <1>0, <2>1, <2>2, <2>4, WalksStill, QuietHonest
  <1> QED
    BY <1>2, <1>3, <1>4, <1>5, TakeHonest, RefusedHonest DEF Changing

\* What changes from outside has a key that nothing was judged under.
LEMMA OutsideHonest ==
  ASSUME TypeInv, HonestParts(files, owner, observer, walks, rules, View, clock),
         Shows(walks, Stored, rules, View), Shows(walks', Stored', rules', View'),
         NEW p \in Path, Outside(p)
  PROVE  HonestParts(files', owner', observer', walks', rules', View', clock')
  <1>0. /\ TypeOK /\ WalksRuled(walks, rules) /\ Truthful(files, owner, observer, View)
        /\ Old(View, clock) /\ ObserversRuled(observer, rules)
    BY DEF TypeInv, HonestParts
  <1>1. /\ clock' = clock + 1 /\ UNCHANGED <<rules, owner, observer, walks, pending, disk>>
        /\ \A q \in Path \ {p} : files'[q] = files[q]
        /\ files'[p] = None \/ files'[p].key = clock + 1
    BY <1>0 DEF Outside, TypeOK
  <1>2. /\ clock \in Nat /\ \A q \in Path : View[q] # None => View[q].key \in Nat
        /\ None \notin Nat
    BY <1>0, ObservationTypes, ViewTypes, SweepCacheAssumption
  <1>3. View' = View /\ WalksRuled(walks', rules)
    BY <1>0, <1>1, WalksStill, StillHonest DEF Stored
  <1>4. ASSUME NEW x \in Observer
        PROVE  /\ PathHeld(observer[x]) /\ Owned(observer[x], x, owner)
               /\ Judged(observer[x], files') /\ Kept(observer[x], View)
    <2>1. /\ PathHeld(observer[x]) /\ Owned(observer[x], x, owner)
          /\ Judged(observer[x], files) /\ Kept(observer[x], View)
          /\ observer[x].target \in Path /\ KeyIsOld(observer[x], clock)
          /\ observer[x].key # None => observer[x].key \in Nat
      BY <1>0, ObservationTypes, SweepCacheAssumption
      DEF Truthful, TypeInv, Observation, Stamp
    <2>2. CASE observer[x].target # p
      BY <1>1, <2>1, <2>2 DEF Judged
    <2>3. CASE observer[x].target = p
      <3>1. files'[p] # None => files'[p].key # observer[x].key
        BY <1>1, <1>2, <2>1 DEF KeyIsOld
      <3> QED
        BY <2>1, <2>3, <3>1 DEF Judged
    <2> QED
      BY <2>2, <2>3
  <1>5. LiesOwned(files', owner, observer, View)
    <2> SUFFICES ASSUME NEW q \in Path, LieAt(files', View, q)
                 PROVE  owner[q] \in Observer /\ Answers(observer[owner[q]], q)
      BY DEF LiesOwned
    <2>1. q # p
      BY <1>0, <1>1, <1>2 DEF LieAt, Old
    <2>2. LieAt(files, View, q)
      BY <1>1, <2>1 DEF LieAt
    <2> QED
      BY <1>0, <2>2 DEF Truthful, LiesOwned
  <1>6. Truthful(files', owner', observer', View')
    BY <1>1, <1>3, <1>4, <1>5 DEF Truthful
  <1>7. Old(View', clock')
    BY <1>0, <1>1, <1>2, <1>3 DEF Old
  <1> QED
    BY <1>0, <1>1, <1>3, <1>6, <1>7 DEF HonestParts

-----------------------------------------------------------------------------
\* A step that leaves the files, their owners, the observations and the view alone.
LEMMA StayHonest ==
  ASSUME HonestParts(files, owner, observer, walks, rules, View, clock),
         UNCHANGED <<files, clock, rules, owner, observer>>, View' = View,
         WalksRuled(walks', rules)
  PROVE  HonestParts(files', owner', observer', walks', rules', View', clock')
  <1>1. Truthful(files', owner', observer', View')
    BY DEF HonestParts, Truthful, LiesOwned
  <1> QED
    BY <1>1 DEF HonestParts, Old, ObserversRuled

\* A step that takes entries and every stamp of their files.
LEMMA ForgetHonest ==
  ASSUME TypeOK, HonestParts(files, owner, observer, walks, rules, View, clock), NEW set,
         observer' = Fence(observer, set),
         \A p \in Path : View'[p] = IF p \in set THEN None ELSE View[p],
         UNCHANGED <<files, clock, rules, owner>>, WalksRuled(walks', rules)
  PROVE  HonestParts(files', owner', observer', walks', rules', View', clock')
  <1>1. ASSUME NEW x \in Observer
        PROVE  observer'[x] = [observer[x] EXCEPT !.fresh = @ \ set]
    BY DEF Fence
  <1>2. ASSUME NEW x \in Observer
        PROVE  observer'[x].stage = observer[x].stage /\ observer'[x].policy = observer[x].policy
    BY <1>1, FencedFields
  <1>3. Truthful(files', owner', observer', View')
    BY <1>1, ForgottenTruth DEF HonestParts
  <1> QED
    BY <1>2, <1>3 DEF HonestParts, Old, ObserversRuled

\* Walks come, go, checkpoint and prune under one set of rules.
LEMMA WalkingHonest ==
  ASSUME WalkInv, HonestParts(files, owner, observer, walks, rules, View, clock),
         Shows(walks, Stored, rules, View), Shows(walks', Stored', rules', View'),
         NEW w \in Walk, Walking(w), intact'
  PROVE  HonestParts(files', owner', observer', walks', rules', View', clock')
  <1>0. /\ TypeOK /\ WalkParts(walks, observer, Stored, intact) /\ WalksRuled(walks, rules)
        /\ InForce
    BY DEF WalkInv, TypeInv, HonestParts, InForce, WalksRuled, Counts
  <1>1. ASSUME MovesOn(w), Counts(walks[w]),
               UNCHANGED <<files, clock, rules, owner, observer>>
        PROVE  HonestParts(files', owner', observer', walks', rules', View', clock')
    <2>1. View' = View
      BY <1>0, <1>1, OneWalkShown DEF MovesOn
    <2>2. WalksRuled(walks', rules)
      BY <1>0, <1>1 DEF MovesOn, WalksRuled, Counts
    <2> QED
      BY <1>1, <2>1, <2>2, StayHonest
  <1>2. CASE Load(w)
    <2> DEFINE d == [NotWalking EXCEPT !.stage = "loaded", !.policy = rules]
    <2>1. /\ walks' = [walks EXCEPT ![w] = d] /\ walks[w].stage = "idle"
          /\ UNCHANGED <<files, clock, rules, owner, observer, pending, disk>>
      BY <1>2 DEF Load
    <2>2. d.stage = "loaded" /\ d.policy = rules /\ ~d.superseded
      BY DEF NotWalking
    <2> HIDE DEF d
    <2>3. \A v \in Walk : walks'[v] = IF v = w THEN d ELSE walks[v]
      BY <1>0, <2>1 DEF TypeOK
    <2>4. WalksRuled(walks', rules)
      BY <1>0, <2>2, <2>3 DEF WalksRuled
    <2>5. View' = View
      BY <1>0, <2>1, <2>2, <2>3, StillShown DEF Counts, Stored
    <2> QED
      BY <2>1, <2>4, <2>5, StayHonest
  <1>3. CASE Join(w)
    <2>1. UNCHANGED <<files, clock, rules, owner>>
      BY <1>3 DEF Join
    <2>2. Joins(w) /\ UNCHANGED observer
      BY <1>0, <1>3, JoinJoins
    <2>3. WalksRuled(walks', rules)
      BY <1>0, <2>2 DEF Joins, WalksRuled, Counts
    <2>4. View' = View
      BY <1>0, <1>3, <2>1, JoinShown
    <2> QED
      BY <2>1, <2>2, <2>3, <2>4, StayHonest
  <1>4. CASE Leave(w)
    <2> DEFINE d == [NotWalking EXCEPT !.stage = "over"]
    <2>1. /\ walks' = [walks EXCEPT ![w] = d]
          /\ UNCHANGED <<files, clock, rules, owner, observer>>
      BY <1>4 DEF Leave
    <2>2. d.stage = "over"
      BY DEF NotWalking
    <2> HIDE DEF d
    <2>3. WalksRuled(walks', rules)
      BY <1>0, <2>1, <2>2 DEF WalksRuled, TypeOK
    <2>4. View' = View
      BY <1>0, <1>4, <2>1, LeaveShown
    <2> QED
      BY <2>1, <2>3, <2>4, StayHonest
  <1>5. ASSUME NEW scope \in SUBSET Path, List(w, scope)
        PROVE  HonestParts(files', owner', observer', walks', rules', View', clock')
    <2>1. walks[w].stage = "live" /\ UNCHANGED <<files, clock, rules, owner, observer>>
      BY <1>5 DEF List
    <2>2. Counts(walks[w])
      BY <1>0, <2>1 DEF Counts, WalksRuled
    <2> QED
      BY <1>0, <1>1, <1>5, <2>1, <2>2, ListKeeps
  <1>6. ASSUME NEW written \in BOOLEAN, NEW stage \in {"walking", "saved"},
               Keep(w, stage, written)
        PROVE  HonestParts(files', owner', observer', walks', rules', View', clock')
    <2>1. walks[w].stage = "walking" /\ UNCHANGED <<files, clock, rules, owner, observer>>
      BY <1>6 DEF Keep
    <2>2. Counts(walks[w])
      BY <1>0, <2>1 DEF Counts, WalksRuled
    <2> QED
      BY <1>0, <1>1, <1>6, <2>1, <2>2, KeepKeeps
  <1>7. ASSUME NEW written \in BOOLEAN, Save(w, written)
        PROVE  HonestParts(files', owner', observer', walks', rules', View', clock')
    <2> DEFINE gone == Pruned(w)
    <2>1. /\ walks[w].stage = "walking" /\ ~walks[w].superseded
          /\ UNCHANGED <<files, clock, rules, owner>>
      BY <1>0, <1>7 DEF Save, WalksRuled
    <2>2. Saves(w, gone) /\ observer' = Fence(observer, gone)
      BY <1>0, <1>7, <2>1, SaveViews
    <2> HIDE DEF gone
    <2>3. ASSUME NEW v \in Walk
          PROVE  /\ walks'[v].stage = "saved" \/ walks'[v].stage = walks[v].stage
                 /\ walks[v].stage \notin {"idle", "over"} =>
                      walks'[v].policy = rules /\ ~walks'[v].superseded
      BY <1>0, <2>1, <2>2 DEF Saves, Becomes, WalksRuled
    <2>4. WalksRuled(walks', rules)
      BY <1>0, <2>1, <2>2, <2>3 DEF Saves, Becomes, WalksRuled
    <2>5. /\ Counts(walks[w]) /\ walks[w].policy = rules
          /\ Counts(walks'[w]) /\ walks'[w].policy = rules
      BY <1>0, <2>1, <2>2 DEF Saves, Counts, WalksRuled
    <2>6. View = Stands(walks[w]) /\ View' = Stands(walks'[w])
      BY <2>1, <2>5 DEF Shows
    <2>7. \A p \in Path : View'[p] = IF p \in gone THEN None ELSE View[p]
      BY <2>2, <2>6 DEF Saves, Put, Empty
    <2> QED
      BY <1>0, <2>1, <2>2, <2>4, <2>7, ForgetHonest
  <1> QED
    BY <1>2, <1>3, <1>4, <1>5, <1>6, <1>7 DEF Walking

\* A clear leaves nothing to answer for.
LEMMA ClearHonest ==
  ASSUME TypeOK, HonestParts(files, owner, observer, walks, rules, View, clock),
         Shows(walks', Stored', rules', View'), Clear, rules' = rules
  PROVE  HonestParts(files', owner', observer', walks', rules', View', clock')
  <1>1. /\ observer' = Fence(observer, Path) /\ disk' = None /\ pending' = None
        /\ UNCHANGED <<files, clock, rules, owner>>
    BY DEF Clear
  <1>2. WalksRuled(walks', rules)
    BY ClearEmpties DEF HonestParts, WalksRuled
  <1>3. View' = Empty
    <2>1. CASE \E w \in Walk : Counts(walks'[w]) /\ walks'[w].policy = rules
      BY <1>1, <2>1, ClearEmpties DEF Shows
    <2>2. CASE \A w \in Walk : ~(Counts(walks'[w]) /\ walks'[w].policy = rules)
      BY <1>1, <2>2 DEF Shows, Stored, Marked
    <2> QED
      BY <2>1, <2>2
  <1>4. \A p \in Path : View'[p] = IF p \in Path THEN None ELSE View[p]
    BY <1>3 DEF Empty
  <1> QED
    BY <1>1, <1>2, <1>4, ForgetHonest

-----------------------------------------------------------------------------
LEMMA HonestKept ==
  ASSUME WalkInv, WalkInv', [Next]_vars, intact', intact, changes' = 0, changes = 0,
         HonestParts(files, owner, observer, walks, rules, View, clock)
  PROVE  HonestParts(files', owner', observer', walks', rules', View', clock')
  <1>1. /\ TypeInv /\ TypeOK /\ WalkParts(walks, observer, Stored, intact)
        /\ Walkers(walks, observer) /\ WalksRuled(walks, rules)
        /\ Shows(walks, Stored, rules, View) /\ Shows(walks', Stored', rules', View')
    BY ViewShows, ViewShowsPrimed DEF WalkInv, TypeInv, WalkParts, HonestParts
  <1>2. ASSUME NEW o \in Observer, Observe(o) \/ Changing(o)
        PROVE  HonestParts(files', owner', observer', walks', rules', View', clock')
    BY <1>1, <1>2, StartsHonestly, ObserveHonest, ChangingHonest
  <1>3. ASSUME NEW w \in Walk, Walking(w)
        PROVE  HonestParts(files', owner', observer', walks', rules', View', clock')
    BY <1>1, <1>3, WalkingHonest
  <1>4. CASE Clear
    <2>1. rules' = rules
      BY <1>4 DEF Clear
    <2> QED
      BY <1>1, <1>4, <2>1, ClearHonest
  <1>5. ASSUME NEW written \in BOOLEAN, Flush(written)
        PROVE  HonestParts(files', owner', observer', walks', rules', View', clock')
    <2>1. UNCHANGED <<files, clock, rules, owner, observer, walks>>
      BY <1>5 DEF Flush
    <2>2. Stored' = Stored
      BY <1>1, <1>5, ServiceKeeps
    <2>3. View' = View /\ WalksRuled(walks', rules)
      BY <1>1, <2>1, <2>2, WalksStill, StillHonest
    <2> QED
      BY <2>1, <2>3, StayHonest
  <1>6. ASSUME NEW policy \in Policy, ChangeRules(policy) PROVE FALSE
    BY <1>6 DEF ChangeRules
  <1>7. ASSUME NEW p \in Path, Outside(p)
        PROVE  HonestParts(files', owner', observer', walks', rules', View', clock')
    BY <1>1, <1>7, OutsideHonest
  <1>8. CASE UNCHANGED vars
    <2>1. UNCHANGED <<files, clock, rules, owner, observer, walks>> /\ Stored' = Stored
      BY <1>8 DEF vars, Stored
    <2>2. View' = View /\ WalksRuled(walks', rules)
      BY <1>1, <2>1, WalksStill, StillHonest
    <2> QED
      BY <2>1, <2>2, StayHonest
  <1> QED
    BY <1>2, <1>3, <1>4, <1>5, <1>6, <1>7, <1>8 DEF Next

\* The settings' changes are counted, and never fewer.
LEMMA ChangesCounted ==
  ASSUME TypeOK, [Next]_vars, changes' = 0
  PROVE  changes = 0
  <1>1. changes \in Nat
    BY SweepCacheAssumption DEF TypeOK
  <1>2. ASSUME NEW o \in Observer, Observe(o) PROVE changes' = changes
    BY <1>2 DEF Observe, Begin, Watch, StopWaiting, Stat, Hit, Probe, Publish,
                PublishNothing, Abandon, Invalidate, Release
  <1>3. ASSUME NEW o \in Observer, Changing(o) PROVE changes' = changes
    <2>1. ASSUME NEW q \in Path, NEW inPlace \in BOOLEAN, Take(o, q, inPlace)
          PROVE  changes' = changes
      BY <2>1 DEF Take
    <2>2. ASSUME NEW keeps \in BOOLEAN, NEW stage \in {"open", "spoiled"},
                 EditInPlace(o, keeps, stage)
          PROVE  changes' = changes
      BY <2>2 DEF EditInPlace
    <2>3. CASE Rewrite(o)
      BY <2>3 DEF Rewrite
    <2>4. CASE Rejected(o) \/ Refused(o) \/ Unchanged(o)
      BY <2>4 DEF Rejected, Refused, Unchanged
    <2> QED
      BY <1>3, <2>1, <2>2, <2>3, <2>4 DEF Changing
  <1>4. ASSUME NEW w \in Walk, Walking(w) PROVE changes' = changes
    BY <1>4 DEF Walking, Load, Join, List, Keep, Save, Leave
  <1>5. ASSUME NEW policy \in Policy, ChangeRules(policy) PROVE changes' = changes + 1
    BY <1>5 DEF ChangeRules
  <1>6. CASE \/ \E written \in BOOLEAN : Flush(written)
             \/ Clear
             \/ \E p \in Path : Outside(p)
             \/ UNCHANGED vars
    BY <1>6 DEF Flush, Clear, Outside, vars
  <1> QED
    BY <1>1, <1>2, <1>3, <1>4, <1>5, <1>6 DEF Next

LEMMA InitHonest == Init => HitInv
  <1> SUFFICES ASSUME Init PROVE HonestParts(files, owner, observer, walks, rules, View, clock)
    BY InitWalks DEF HitInv
  <1>1. WalkInv /\ Shows(walks, Stored, rules, View)
    BY InitWalks, ViewShows
  <1>2. /\ \A w \in Walk : walks[w] = NotWalking
        /\ \A o \in Observer : observer[o] = NotObserving
        /\ clock = 0 /\ Stored = disk
        /\ files \in [Path -> {None, [content |-> 0, key |-> 0]}]
        /\ disk \in {None} \cup [policy : Policy, entries : {Earlier(files)}]
    BY DEF Init, Stored
  <1>3. /\ NotWalking.stage = "idle" /\ NotObserving.stage = "idle"
        /\ NotObserving.changing = {} /\ NotObserving.fresh = {}
    BY DEF NotWalking, NotObserving
  <1>4. View = Marked(disk, rules)
    BY <1>1, <1>2, <1>3 DEF Shows, Counts
  <1>5. \A p \in Path : View[p] # None =>
          View[p].key = 0 /\ View[p].content = 0
    <2>1. CASE disk = None
      BY <1>4, <2>1 DEF Marked, Empty
    <2>2. CASE disk # None
      <3>1. \A p \in Path : disk.entries[p] \in {None, [content |-> 0, key |-> 0, mark |-> "good"]}
        BY <1>2, <2>2 DEF Earlier
      <3>2. \A p \in Path : View[p] \in {None, [content |-> 0, key |-> 0, mark |-> "good"],
                                         [content |-> 0, key |-> 0, mark |-> "stale"]}
        BY <1>4, <2>2, <3>1 DEF Marked
      <3> QED
        BY <3>2
    <2> QED
      BY <2>1, <2>2
  <1>6. \A p \in Path : ~LieAt(files, View, p)
    BY <1>2, <1>5 DEF LieAt
  <1>7. Truthful(files, owner, observer, View)
    BY <1>2, <1>3, <1>6 DEF Truthful, PathHeld, Owned, Judged, Kept, LiesOwned
  <1> QED
    BY <1>2, <1>3, <1>5, <1>7 DEF HonestParts, Old, WalksRuled, ObserversRuled

LEMMA HitsKept == HitInv /\ [Next]_vars => HitInv'
  <1> SUFFICES ASSUME HitInv, [Next]_vars PROVE HitInv'
    OBVIOUS
  <1>1. WalkInv /\ WalkInv' /\ TypeOK /\ (intact' => intact)
    BY WalksKept DEF HitInv, WalkInv, TypeInv
  <1>2. ASSUME intact', changes' = 0
        PROVE  HonestParts(files, owner, observer, walks, rules, View, clock)'
    <2>1. intact /\ changes = 0
      BY <1>1, <1>2, ChangesCounted
    <2>2. HonestParts(files', owner', observer', walks', rules', View', clock')
      BY <1>1, <1>2, <2>1, HonestKept DEF HitInv
    <2> QED
      BY <2>2, HonestPrimed
  <1> QED
    BY <1>1, <1>2 DEF HitInv

\* While the rules stay and nothing is lost, whatever an entry would answer wrongly
\* for is still to be answered for by the file's owner (changing, accepts, close).
THEOREM HitInvHolds == Spec => []HitInv
  <1> QED
    BY InitHonest, HitsKept, PTL DEF Spec

\* So no hit answers for a file that nobody is changing and the entry does not
\* describe, though a header edit may leave size and mtime alone.
THEOREM HitsStayTrue == Spec => []HitsAreTrue
  <1>1. HitInv => HitsAreTrue
    <2> SUFFICES ASSUME HitInv, intact, changes = 0, NEW p \in Path,
                        View[p] # None, files[p] # None, owner[p] = None,
                        View[p].mark = "good", View[p].key = files[p].key
                 PROVE  View[p].content = files[p].content
      BY DEF HitsAreTrue
    <2>1. LiesOwned(files, owner, observer, View)
      BY DEF HitInv, HonestParts, Truthful
    <2> QED
      BY <2>1, SweepCacheAssumption DEF LiesOwned, LieAt
  <1> QED
    BY <1>1, HitInvHolds, PTL
===============================================================================
