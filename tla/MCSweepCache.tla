----------------------------- MODULE MCSweepCache -----------------------------
(***************************************************************************)
(* Small instances of SweepCache.  A scene says how many of the              *)
(* observations, walks, files, changes of the rules and changes of the files  *)
(* an instance has, so that it has what it is about and no more.             *)
(***************************************************************************)
EXTENDS SweepCache, TLC

CONSTANTS film, remux, old
VARIABLE scene

MCPaths == {film, remux}
\* Observations and walks differ only by name; a choice among walks is a choice
\* among equals wherever WalksAgree holds.
MCSymmetry == Permutations(Observer) \cup Permutations(Walk)

Started(things) == Cardinality({x \in DOMAIN things : things[x].stage # "idle"})

\* Nothing touches a file that is not in the scene.
Unused(p) ==
  /\ files[p] = None
  /\ \A o \in Observer : p \notin {observer[o].path, observer[o].target}
  /\ \A w \in Walk : p \notin walks[w].scope

InScene ==
  /\ Started(observer) <= scene.observers /\ Started(walks) <= scene.walks
  /\ changes <= scene.rules /\ clock <= scene.writes
  /\ \A p \in Path \ scene.paths : Unused(p)

\* The store is an earlier sweep's under the rules in force, or under others where
\* the scene is about rules.
Opening(scenes) ==
  /\ Init /\ scene \in scenes /\ InScene
  /\ rules = old
  /\ disk = None \/ disk.policy = rules \/ scene.rules > 0

\* An edit or a delivery against another and a walk.
WalkScene == [observers |-> 2, walks |-> 1, paths |-> {film}, rules |-> 0, writes |-> 1]
\* Two walks, and two walks under rules that change.
TogetherScene == [observers |-> 1, walks |-> 2, paths |-> {film}, rules |-> 0, writes |-> 1]
RulesScene == [observers |-> 1, walks |-> 2, paths |-> {film}, rules |-> 1, writes |-> 0]
\* A walk that rewrites a file to another name.
RemuxScene == [observers |-> 1, walks |-> 1, paths |-> MCPaths, rules |-> 0, writes |-> 1]
\* Two rewrites of two files, and two edits of one, with no walk.
MeetScene == [observers |-> 2, walks |-> 0, paths |-> MCPaths, rules |-> 0, writes |-> 1]
AgainScene == [observers |-> 2, walks |-> 0, paths |-> {film}, rules |-> 0, writes |-> 2]

FencesInit == Opening({WalkScene, TogetherScene, RulesScene, RemuxScene, MeetScene, AgainScene})
FencesNext == Next /\ UNCHANGED scene /\ InScene'
FencesSpec == FencesInit /\ [][FencesNext]_<<vars, scene>>

\* One walk of a file that does not change, under rules that may.  It
\* leaves a file with nothing said only as its verdict of the file is refused.
PruneScene == [observers |-> 1, walks |-> 1, paths |-> {film}, rules |-> 1, writes |-> 0]
PruneNext == /\ FencesNext
             /\ \A o \in Observer : Abandon(o, FALSE) => Publish(o, "good")
PruneSpec == Opening({PruneScene}) /\ [][PruneNext]_<<vars, scene>>
===============================================================================
