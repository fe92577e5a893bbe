-------------------------------- MODULE MCQueue --------------------------------
(***************************************************************************)
(* One instance of Scheduler in two scenes: claims against what an operator  *)
(* stops, skips and pauses, and claims against reorders, whose front ranks   *)
(* reach further.                                                           *)
(***************************************************************************)
EXTENDS MCScheduler

VARIABLE scene

QueueInit == scene \in {"commands", "reorders"} /\ Init

InCommands == scene = "commands" /\ CommandNext /\ front' >= -1 /\ UNCHANGED scene
InReorders == scene = "reorders" /\ ReorderNext /\ UNCHANGED scene
QueueNext == InCommands \/ InReorders

QueueSpec == QueueInit /\ [][QueueNext]_<<scene, vars>>
=============================================================================
