------------------------------- MODULE MCImports -------------------------------
(***************************************************************************)
(* Small instances of Imports: two deliveries of one file, and one delivery *)
(* of a season's two files.                                                *)
(***************************************************************************)
EXTENDS Imports

CONSTANTS pilot, finale, again, season, upgrade, first, last

MCTwice == {pilot, again}
MCTwiceRun == [j \in MCTwice |-> IF j = again THEN upgrade ELSE season]
MCTwicePath == [j \in MCTwice |-> first]

MCSeason == {pilot, finale}
MCSeasonRun == [j \in MCSeason |-> season]
MCSeasonPath == [j \in MCSeason |-> IF j = finale THEN last ELSE first]

\* The history of what is owed decides nothing, so runs that do not ask for it
\* tell states apart by the rest.
MCView == <<files, queue, controls, records, request, handing, pass>>

\* Deliveries, rechecks and restarts, against stops, shutdown and the setting.
DeliveryNext == \/ Webhook \/ Rechecking \/ Restart \/ Close \/ SetParking
                \/ \E j \in Jobs : Work(j)
                \/ \E p \in Paths : Unlink(p)
                \/ \E r \in Runs : StopRun(r)
DeliverySpec == Init /\ [][DeliveryNext]_vars

\* One life of the process, under the scheduling the code has.
LifeNext == \/ Webhook \/ Rechecking \/ Close
            \/ \E j \in Jobs : Work(j) \/ SkipFile(j)
            \/ \E p \in Paths : Unlink(p) \/ Vanish(p)
LifeSpec == Init /\ [][LifeNext]_vars /\ Fairness
=============================================================================
