----------------------------- MODULE MCScheduler -----------------------------
(***************************************************************************)
(* Small instances of Scheduler: a sweep of two files and a delivery of one  *)
(* of them, with one worker per lane.                                       *)
(***************************************************************************)
EXTENDS Scheduler, TLC

CONSTANTS sweep, delivery, film, show

MCRuns == {sweep, delivery}
MCImports == {delivery}
MCPaths == {film, show}
MCKeys == {<<sweep, film>>, <<sweep, show>>, <<delivery, film>>}
MCSweepKeys == {<<sweep, film>>, <<sweep, show>>}
MCSharedKeys == {<<sweep, film>>, <<delivery, film>>}
\* Pause commands differ only by name.
MCSymmetry == Permutations(Commands)
MCLimit == [l \in Lanes |-> 1]

\* A delivery opens its run filling; a recheck's reopening is in ShutdownSpec.
Opening == \E r \in Runs : OpenRun(r, r \in Imports)

\* Callbacks run before anything else happens.  ShutdownSpec and FairSpec
\* interleave them with everything.
Briskly(A) == \/ tails = {} /\ A
              \/ \E k \in Keys : TailStep(k)

\* Claims against stops, skips, pauses and pause commands.
CommandNext == Briskly(\/ Opening \/ Working \/ Abandoning \/ Pausing
                       \/ \E k \in Keys : Submit(k, Run(k) \in Imports) \/ Decide(k)
                       \/ \E on \in BOOLEAN : SetPaused(on))

\* Claims against reorders, automatic promotions and undos.
ReorderNext == Briskly(Opening \/ Admitting \/ Working \/ Reordering)

\* Runs opening and retiring, walks draining, and the service winding down.
ShutdownNext == Producing \/ Admitting \/ Working \/ Holding \/ Ending
ShutdownSpec == Init /\ [][ShutdownNext]_vars

\* The same with skips and pause commands, under the scheduling the code has.
FairNext == Opening \/ Admitting \/ Working \/ Abandoning \/ Pausing \/ Holding \/ Ending
FairSpec == Init /\ [][FairNext]_vars /\ Fairness
=============================================================================
