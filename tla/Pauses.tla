-------------------------------- MODULE Pauses --------------------------------
(***************************************************************************)
(* Pauses: src/trackstarr/pauses.py, the store of paused files and folders   *)
(* that serve and sweeps run beside it share, with processing.py's question  *)
(* whether a file may be rewritten; and the pause of the whole service with  *)
(* its flag file, of lifecycle.py.                                           *)
(*                                                                         *)
(* A pause is the moment it lapses.  Every write of the store moves the mark *)
(* (size and mtime) by which a process knows its memo of it is current.      *)
(***************************************************************************)
EXTENDS Integers, FiniteSets

CONSTANTS
  Client,      \* requests that place and resume pauses
  Reader,      \* files about to be rewritten
  Commander,   \* requests that pause and resume the service
  Site,        \* processes that share the store
  SiteOf,      \* client or reader -> its process
  Place,       \* what can be paused: folders and files
  Covers,      \* pairs of a place and one that is within it
  FileOf,      \* reader -> the file it asks about
  Free,        \* nobody holds a lock, nothing is memoised, no record is to be written
  Capacity,    \* MAX_PAUSES
  MaxNow, MaxSaves  \* bounds on the clock and on writes of the store

\* Until when a place is paused.
Absent == 0
Never == -1
Moment == {Absent, Never} \cup 1..(MaxNow + 1)
Pauses == [Place -> Moment]

ASSUME PausesAssumption ==
  /\ SiteOf \in [Client \cup Reader -> Site] /\ FileOf \in [Reader -> Place]
  /\ IsFiniteSet(Place) /\ Capacity \in Nat /\ MaxNow \in Nat /\ MaxSaves \in Nat
  /\ Free \notin Client \cup Commander /\ Free \notin [paused : BOOLEAN]
  /\ Free \notin [mark : 0..MaxSaves, found : Pauses]

VARIABLES
  store,      \* place -> when its pause lapses: Absent, Never or a moment
  migrated,   \* whether the store still has the name it had before (holds.json)
  saves,      \* writes of the store: the mark of the file
  now,        \* the clock
  lock,       \* who is in a transaction
  client,     \* client -> what it was asked, what it read, how far it is
  memo,       \* process -> the mark and the content it remembers, or Free
  reader,     \* reader -> the mark it took, the content it goes by, how far it is
  standing,   \* reader -> places whose pause has stood since before it began to ask
  flag,       \* whether the service is paused
  flagFile,   \* what a restart would find
  writer,     \* who holds the flag's lock
  record,     \* commander -> what it is about to write, or Free
  persisted   \* whether the last write of the flag succeeded

storeVars == <<store, migrated, saves, lock, client>>
readVars == <<memo, reader, standing>>
flagVars == <<flag, flagFile, writer, record, persisted>>
pausesVars == <<storeVars, readVars, now, flagVars>>

Live(until) == until = Never \/ now < until
Paused(found) == {p \in Place : Live(found[p])}
\* Expired records are dropped by the next write, never by a read.
OnlyLive(found) == [p \in Place |-> IF Live(found[p]) THEN found[p] ELSE Absent]
\* What is on disk under the store's name.
Disk == IF migrated THEN store ELSE [p \in Place |-> Absent]

Idle == [stage |-> "idle", targets |-> {}, until |-> Absent, found |-> [p \in Place |-> Absent]]

(***************************************************************************)
(* Transactions: a thread lock, then the sidecar's flock.                   *)
(***************************************************************************)
\* A request for pauses for some time (1) or for good, or for a resume (Absent).
Lock(c) ==
  /\ client[c].stage = "idle" /\ lock = Free
  /\ lock' = c /\ migrated' = TRUE
  /\ \E targets \in (SUBSET Place) \ {{}}, until \in {Absent, Never, 1} :
       client' = [client EXCEPT ![c] = [Idle EXCEPT !.stage = "locked",
                                        !.targets = targets, !.until = until]]
  /\ UNCHANGED <<store, saves, now, readVars, flagVars>>

CurrentMemo(c) == IF memo[SiteOf[c]] = Free THEN Disk ELSE memo[SiteOf[c]].found

\* The disk, never the memo: another process may have written since.
Current(c) == Disk

ReadDisk(c) ==
  /\ client[c].stage = "locked"
  /\ client' = [client EXCEPT ![c].stage = "read", ![c].found = Current(c)]
  /\ UNCHANGED <<store, migrated, saves, lock, now, readVars, flagVars>>

Until(c) == IF client[c].until = 1 THEN now + 1 ELSE client[c].until
Changed(c) ==
  [p \in Place |-> IF p \in client[c].targets THEN Until(c)
                   ELSE OnlyLive(client[c].found)[p]]
\* The capacity counts places, so a pause can be extended at the limit.
OverLimit(c) ==
  /\ client[c].until # Absent
  /\ Cardinality(client[c].targets \cup Paused(client[c].found)) > Capacity

Unlock(c) ==
  /\ lock' = Free
  /\ client' = [client EXCEPT ![c] = Idle]

\* The whole batch or none of it; the process's own memo goes with the write.
Save(c) ==
  /\ client[c].stage = "read" /\ ~OverLimit(c) /\ Changed(c) # client[c].found
  /\ saves < MaxSaves
  /\ store' = Changed(c) /\ saves' = saves + 1
  /\ memo' = [memo EXCEPT ![SiteOf[c]] = Free]
  /\ standing' = [r \in Reader |-> {p \in standing[r] : Changed(c)[p] = store[p]}]
  /\ Unlock(c)
  /\ UNCHANGED <<migrated, now, reader, flagVars>>

\* Refused, nothing to change, or a write that failed.
LeaveStore(c) ==
  /\ client[c].stage = "read"
  /\ Unlock(c)
  /\ UNCHANGED <<store, migrated, saves, now, readVars, flagVars>>

Tick ==
  /\ now < MaxNow /\ now' = now + 1
  /\ standing' = [r \in Reader |-> {p \in standing[r] : store[p] = Never \/ now + 1 < store[p]}]
  /\ UNCHANGED <<storeVars, memo, reader, flagVars>>

(***************************************************************************)
(* Whether a file is paused, asked by the worker that would rewrite it.     *)
(***************************************************************************)
\* The first read after an upgrade renames the old store, in a transaction.
Stat(r) ==
  /\ reader[r].stage = "idle"
  /\ migrated \/ lock = Free
  /\ migrated' = TRUE
  /\ reader' = [reader EXCEPT ![r].stage = "marked", ![r].mark = saves]
  /\ standing' = [standing EXCEPT ![r] = Paused(store)]
  /\ UNCHANGED <<store, saves, lock, client, now, memo, flagVars>>

Hits(r) == memo[SiteOf[r]] # Free /\ memo[SiteOf[r]].mark = reader[r].mark

AskMemo(r) ==
  /\ reader[r].stage = "marked"
  /\ reader' = [reader EXCEPT
       ![r].stage = IF Hits(r) THEN "known" ELSE "missed",
       ![r].found = IF Hits(r) THEN memo[SiteOf[r]].found ELSE @]
  /\ UNCHANGED <<storeVars, memo, standing, now, flagVars>>

Parse(r) ==
  /\ reader[r].stage = "missed"
  /\ reader' = [reader EXCEPT ![r].stage = "parsed", ![r].found = Disk]
  /\ UNCHANGED <<storeVars, memo, standing, now, flagVars>>

\* Under the mark taken before the file was read: a write in between is noticed by
\* the next reader, which finds another mark.
RememberLate(r) ==
  /\ reader[r].stage = "parsed"
  /\ memo' = [memo EXCEPT ![SiteOf[r]] = [mark |-> saves, found |-> reader[r].found]]
  /\ reader' = [reader EXCEPT ![r].stage = "known"]
  /\ UNCHANGED <<storeVars, standing, now, flagVars>>

Remember(r) ==
  /\ reader[r].stage = "parsed"
  /\ memo' = [memo EXCEPT ![SiteOf[r]] = [mark |-> reader[r].mark, found |-> reader[r].found]]
  /\ reader' = [reader EXCEPT ![r].stage = "known"]
  /\ UNCHANGED <<storeVars, standing, now, flagVars>>

\* The innermost live pause decides, so a lapsed one hides none around it.
Covered(r) == \E p \in Paused(reader[r].found) : <<p, FileOf[r]>> \in Covers

Decide(r) ==
  /\ reader[r].stage = "known"
  /\ reader' = [reader EXCEPT ![r].stage = IF Covered(r) THEN "waits" ELSE "rewrites"]
  /\ UNCHANGED <<storeVars, memo, standing, now, flagVars>>

Return(r) ==
  /\ reader[r].stage \in {"waits", "rewrites"}
  /\ reader' = [reader EXCEPT ![r] = [stage |-> "idle", mark |-> 0, found |-> Idle.found]]
  /\ standing' = [standing EXCEPT ![r] = {}]
  /\ UNCHANGED <<storeVars, memo, now, flagVars>>

(***************************************************************************)
(* The service's own pause.                                                 *)
(***************************************************************************)
\* The live flag first, under the scheduler's lock; the flag's lock is kept until
\* the file is written.
CommandUnlocked(c, on) ==
  /\ writer = Free /\ flag # on /\ record[c] = Free
  /\ flag' = on /\ record' = [record EXCEPT ![c] = [paused |-> on]]
  /\ UNCHANGED <<storeVars, readVars, now, flagFile, writer, persisted>>

Command(c, on) ==
  /\ writer = Free /\ flag # on
  /\ flag' = on /\ writer' = c
  /\ record' = [record EXCEPT ![c] = [paused |-> on]]
  /\ UNCHANGED <<storeVars, readVars, now, flagFile, persisted>>

\* A failed write does not undo the live command.
WriteFlag(c) ==
  /\ record[c] # Free
  /\ \/ flagFile' = record[c].paused /\ persisted' = TRUE
     \/ persisted' = FALSE /\ UNCHANGED flagFile
  /\ record' = [record EXCEPT ![c] = Free]
  /\ writer' = Free
  /\ UNCHANGED <<storeVars, readVars, now, flag>>

\* Restored before anything is dispatched.
RestartService ==
  /\ flag' = flagFile /\ writer' = Free
  /\ record' = [c \in Commander |-> Free] /\ persisted' = TRUE
  /\ UNCHANGED <<storeVars, readVars, now, flagFile>>

PausesInit ==
  /\ now = 0 /\ store \in [Place -> {Absent, Never, 1}]
  /\ Cardinality(Paused(store)) <= Capacity
  /\ migrated \in BOOLEAN
  /\ saves = 0 /\ lock = Free
  /\ client = [c \in Client |-> Idle]
  /\ memo = [s \in Site |-> Free]
  /\ reader = [r \in Reader |-> [stage |-> "idle", mark |-> 0, found |-> Idle.found]]
  /\ standing = [r \in Reader |-> {}]
  /\ flag \in BOOLEAN /\ flagFile = flag /\ writer = Free
  /\ record = [c \in Commander |-> Free] /\ persisted = TRUE

PausesNext ==
  \/ \E c \in Client : Lock(c) \/ ReadDisk(c) \/ Save(c) \/ LeaveStore(c)
  \/ Tick
  \/ \E r \in Reader :
       Stat(r) \/ AskMemo(r) \/ Parse(r) \/ Remember(r) \/ Decide(r) \/ Return(r)
  \/ \E c \in Commander : WriteFlag(c) \/ \E on \in BOOLEAN : Command(c, on)
  \/ RestartService

PausesSpec == PausesInit /\ [][PausesNext]_pausesVars

PausesTypeOK ==
  /\ store \in Pauses /\ migrated \in BOOLEAN /\ saves \in 0..MaxSaves /\ now \in 0..MaxNow
  /\ lock \in Client \cup {Free}
  /\ client \in [Client -> [stage : {"idle", "locked", "read"}, targets : SUBSET Place,
                            until : Moment, found : Pauses]]
  /\ memo \in [Site -> {Free} \cup [mark : 0..MaxSaves, found : Pauses]]
  /\ reader \in [Reader -> [stage : {"idle", "marked", "missed", "parsed", "known", "waits",
                                     "rewrites"}, mark : 0..MaxSaves, found : Pauses]]
  /\ standing \in [Reader -> SUBSET Place]
  /\ {flag, flagFile, persisted} \subseteq BOOLEAN /\ writer \in Commander \cup {Free}
  /\ record \in [Commander -> {Free} \cup [paused : BOOLEAN]]

\* However batches of two processes meet, whatever each remembers and whatever lapses
\* meanwhile, a write changes no live pause it was not asked about, and leaves no more
\* of them than the limit.
BatchesKeepOtherPauses ==
  [][store' # store =>
       /\ Cardinality(Paused(store')) <= Capacity
       /\ \A p \in Paused(store) :
            store'[p] = store[p] \/ \E c \in Client : lock = c /\ p \in client[c].targets]_pausesVars

\* A file goes to its rewrite only if no pause covering it has stood since before its
\* worker asked, whatever the worker's process remembers and whoever wrote the store.
PausedFilesRest ==
  \A r \in Reader : reader[r].stage = "rewrites" =>
    \A p \in standing[r] : <<p, FileOf[r]>> \notin Covers

\* The flag a restart will find is the service's own, once no command is under way,
\* unless the last write failed: commands that overlap are written in their order.
FlagSurvivesRestart ==
  (\A c \in Commander : record[c] = Free) /\ persisted => flagFile = flag
===============================================================================
