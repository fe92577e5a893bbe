------------------------------ MODULE FileQueue ------------------------------
(***************************************************************************)
(* What the shared queue promises, without heaps, parking or counters:      *)
(* a worker takes the FIRST file, in queue order, that may start, and two    *)
(* workers never hold one file.  Commands may reorder, abandon, hold and     *)
(* pause at any moment, but only a start puts a file on a worker.           *)
(***************************************************************************)
EXTENDS Integers, FiniteSets

CONSTANTS
  Keys,     \* <<run, path>> pairs
  Limit     \* workers per lane

VARIABLES
  phase,      \* key -> "absent", "pending", "active" or "awaiting"
  lane,       \* key -> the lane of its current phase
  order,      \* key -> its place in the queue: a priority flag and a rank
  abandoned,  \* keys whose phase only has to reach its early exit
  held,       \* keys a pause command holds
  paused      \* nothing starts but abandoned work

vars == <<phase, lane, order, abandoned, held, paused>>

Running == {k \in Keys : phase[k] = "active"}

Ahead(a, b) == \/ a.priority /\ ~b.priority
               \/ a.priority = b.priority /\ a.rank < b.rank

MayStart(k) ==
  /\ phase[k] = "pending"
  /\ k \notin held
  /\ \A j \in Running : j[2] # k[2]
  /\ Cardinality({j \in Running : lane[j] = lane[k]}) < Limit[lane[k]]
  /\ paused => k \in abandoned

Init ==
  /\ phase = [k \in Keys |-> "absent"]
  /\ held = {}

\* A free worker takes the first file that may start.
Start(k) ==
  /\ MayStart(k)
  /\ \A j \in Keys : MayStart(j) => ~Ahead(order[j], order[k])
  /\ phase' = [phase EXCEPT ![k] = "active"]
  /\ UNCHANGED <<lane, order, abandoned, held, paused>>

\* A file is admitted, or goes on to its rewrite.
Wait(k) ==
  /\ phase[k] \in {"absent", "awaiting"}
  /\ phase' = [phase EXCEPT ![k] = "pending"]
  /\ UNCHANGED <<held, paused>>

\* A worker lets a file go; a discovery may leave it undecided.
LetGo(k) ==
  /\ phase[k] = "active"
  /\ \E next \in {"awaiting", "absent"} : phase' = [phase EXCEPT ![k] = next]
  /\ UNCHANGED <<held, paused>>

\* An undecided file turns out to need nothing.
Leave(k) ==
  /\ phase[k] = "awaiting"
  /\ phase' = [phase EXCEPT ![k] = "absent"]
  /\ UNCHANGED <<held, paused>>

\* A command changes anything but what runs and what waits; it can only hold
\* files that wait.
Command ==
  /\ UNCHANGED <<phase, lane>>
  /\ \A k \in held' : phase[k] = "pending"

Next == Command \/ \E k \in Keys : Start(k) \/ Wait(k) \/ LetGo(k) \/ Leave(k)

Spec == Init /\ [][Next]_vars
=============================================================================
