----------------------------- MODULE StoresProofs -----------------------------
(***************************************************************************)
(* What holds of the two stores a page writes: of pauses, for any requests,  *)
(* readers, processes and places, and of settings, for any of them and any   *)
(* deploy and changes.  The two have no state in common.                     *)
(***************************************************************************)
EXTENDS Pauses, Settings, FiniteSetTheorems, TLAPS

-----------------------------------------------------------------------------
(***************************************************************************)
(* Types.                                                                  *)
(***************************************************************************)
\* Every step keeps the types.
LEMMA PauseTyped ==
  ASSUME PausesTypeOK, PausesNext
  PROVE  PausesTypeOK'
  <1> DEFINE Asked == [stage : {"idle", "locked", "read"}, targets : SUBSET Place,
                       until : Moment, found : Pauses]
             Held == {Free} \cup [mark : 0..MaxSaves, found : Pauses]
             Ask == [stage : {"idle", "marked", "missed", "parsed", "known", "waits", "rewrites"},
                     mark : 0..MaxSaves, found : Pauses]
  <1>1. Idle \in Asked /\ Idle.found \in Pauses /\ Disk \in Pauses
    BY DEF PausesTypeOK, Idle, Disk, Pauses, Moment, Absent
  <1> HIDE DEF Asked, Held, Ask
  <1>2. /\ store' \in Pauses /\ migrated' \in BOOLEAN /\ saves' \in 0..MaxSaves
        /\ now' \in 0..MaxNow /\ lock' \in Client \cup {Free}
    <2>1. ASSUME NEW c \in Client, Save(c) PROVE Changed(c) \in Pauses
      <3>1. client[c].found \in Pauses /\ client[c].until \in Moment
        BY DEF PausesTypeOK
      <3>2. Until(c) \in Moment
        BY <3>1, PausesAssumption DEF PausesTypeOK, Until, Moment, Absent, Never
      <3>3. OnlyLive(client[c].found) \in Pauses
        BY <3>1 DEF OnlyLive, Pauses, Moment
      <3> QED
        BY <3>2, <3>3 DEF Changed, Pauses
    <2>2. ASSUME NEW c \in Client, Save(c) PROVE saves + 1 \in 0..MaxSaves
      BY <2>2, PausesAssumption DEF PausesTypeOK, Save
    <2>3. Tick => now + 1 \in 0..MaxNow
      BY PausesAssumption DEF PausesTypeOK, Tick
    <2>4. CASE UNCHANGED <<storeVars, now>>
      BY <2>4 DEF PausesTypeOK, storeVars
    <2>5. ASSUME NEW c \in Client, Lock(c) \/ ReadDisk(c) \/ LeaveStore(c)
          PROVE  /\ store' \in Pauses /\ migrated' \in BOOLEAN /\ saves' \in 0..MaxSaves
                 /\ now' \in 0..MaxNow /\ lock' \in Client \cup {Free}
      BY <2>5 DEF PausesTypeOK, Lock, ReadDisk, LeaveStore, Unlock
    <2>6. ASSUME NEW c \in Client, Save(c)
          PROVE  /\ store' \in Pauses /\ migrated' \in BOOLEAN /\ saves' \in 0..MaxSaves
                 /\ now' \in 0..MaxNow /\ lock' \in Client \cup {Free}
      BY <2>1, <2>2, <2>6 DEF PausesTypeOK, Save, Unlock
    <2>7. CASE Tick
      BY <2>3, <2>7 DEF PausesTypeOK, Tick, storeVars
    <2>8. ASSUME NEW r \in Reader, Stat(r)
          PROVE  /\ store' \in Pauses /\ migrated' \in BOOLEAN /\ saves' \in 0..MaxSaves
                 /\ now' \in 0..MaxNow /\ lock' \in Client \cup {Free}
      BY <2>8 DEF PausesTypeOK, Stat
    <2> QED
      BY <2>4, <2>5, <2>6, <2>7, <2>8
      DEF PausesNext, AskMemo, Parse, Remember, Decide, Return, WriteFlag, Command,
          RestartService
  <1>3. client' \in [Client -> Asked]
    <2>1. client \in [Client -> Asked]
      BY DEF PausesTypeOK, Asked
    <2>2. ASSUME NEW c \in Client, Lock(c) PROVE client' \in [Client -> Asked]
      <3>1. PICK targets \in SUBSET Place, until \in {Absent, Never, 1} :
              client' = [client EXCEPT ![c] = [Idle EXCEPT !.stage = "locked",
                                               !.targets = targets, !.until = until]]
        BY <2>2 DEF Lock
      <3>2. until \in Moment
        BY PausesAssumption DEF Moment
      <3>3. [Idle EXCEPT !.stage = "locked", !.targets = targets, !.until = until] \in Asked
        BY <1>1, <3>2 DEF Asked
      <3> QED
        BY <2>1, <3>1, <3>3
    <2>3. ASSUME NEW c \in Client, ReadDisk(c) PROVE client' \in [Client -> Asked]
      <3>1. [client[c] EXCEPT !.stage = "read", !.found = Disk] \in Asked
        BY <1>1, <2>1 DEF Asked
      <3>2. client' = [client EXCEPT ![c] = [client[c] EXCEPT !.stage = "read", !.found = Disk]]
        BY <2>1, <2>3 DEF ReadDisk, Current
      <3> QED
        BY <2>1, <3>1, <3>2
    <2>4. ASSUME NEW c \in Client, Unlock(c) PROVE client' \in [Client -> Asked]
      BY <1>1, <2>1, <2>4 DEF Unlock
    <2> QED
      BY <2>1, <2>2, <2>3, <2>4
      DEF PausesNext, Save, LeaveStore, Tick, Stat, AskMemo, Parse, Remember,
         Decide, Return, WriteFlag, Command, RestartService, storeVars
  <1>4. memo' \in [Site -> Held]
    <2>1. memo \in [Site -> Held] /\ Free \in Held
      BY DEF PausesTypeOK, Held
    <2>2. ASSUME NEW r \in Reader
          PROVE [mark |-> reader[r].mark, found |-> reader[r].found] \in Held
      BY DEF PausesTypeOK, Held
    <2> QED
      BY <2>1, <2>2 DEF PausesNext, Lock, ReadDisk, Save, LeaveStore, Tick, Stat, AskMemo,
          Parse, Remember, Decide, Return, WriteFlag, Command, RestartService, readVars
  <1>5. reader' \in [Reader -> Ask]
    <2>1. reader \in [Reader -> Ask]
      BY DEF PausesTypeOK, Ask
    <2>2. ASSUME NEW r \in Reader, Stat(r) PROVE reader' \in [Reader -> Ask]
      BY <2>1, <2>2 DEF Stat, Ask, PausesTypeOK
    <2>3. ASSUME NEW r \in Reader, AskMemo(r) PROVE reader' \in [Reader -> Ask]
      <3>1. Hits(r) => memo[SiteOf[r]].found \in Pauses
        BY PausesAssumption DEF PausesTypeOK, Hits
      <3>2. /\ [reader[r] EXCEPT !.stage = "missed"] \in Ask
            /\ Hits(r) => [reader[r] EXCEPT !.stage = "known",
                                          !.found = memo[SiteOf[r]].found] \in Ask
        BY <2>1, <3>1 DEF Ask
      <3>3. \/ reader' = [reader EXCEPT ![r] = [reader[r] EXCEPT !.stage = "missed"]]
            \/ /\ Hits(r)
               /\ reader' = [reader EXCEPT ![r] = [reader[r] EXCEPT
                                  !.stage = "known", !.found = memo[SiteOf[r]].found]]
        <4>1. CASE Hits(r)
          BY <2>1, <2>3, <4>1 DEF AskMemo, Ask
        <4>2. CASE ~Hits(r)
          BY <2>1, <2>3, <4>2 DEF AskMemo, Ask
        <4> QED
          BY <4>1, <4>2
      <3> QED
        BY <2>1, <3>2, <3>3
    <2>4. ASSUME NEW r \in Reader, Parse(r) PROVE reader' \in [Reader -> Ask]
      BY <1>1, <2>1, <2>4 DEF Parse, Ask
    <2>5. ASSUME NEW r \in Reader, Remember(r) \/ Decide(r) PROVE reader' \in [Reader -> Ask]
      BY <2>1, <2>5 DEF Remember, Decide, Ask
    <2>6. ASSUME NEW r \in Reader, Return(r) PROVE reader' \in [Reader -> Ask]
      BY <1>1, <2>1, <2>6, PausesAssumption DEF Return, Ask
    <2> QED
      BY <2>1, <2>2, <2>3, <2>4, <2>5, <2>6
      DEF PausesNext, Lock, ReadDisk, Save, LeaveStore, Tick, WriteFlag, Command,
          RestartService, readVars
  <1>6. standing' \in [Reader -> SUBSET Place]
    <2>1. standing \in [Reader -> SUBSET Place] /\ Paused(store) \in SUBSET Place
      BY DEF PausesTypeOK, Paused
    <2>2. ASSUME NEW c \in Client, Save(c) PROVE standing' \in [Reader -> SUBSET Place]
      BY <2>1, <2>2 DEF Save
    <2>3. CASE Tick
      BY <2>1, <2>3 DEF Tick
    <2>4. ASSUME NEW r \in Reader, Stat(r) \/ Return(r)
          PROVE  standing' \in [Reader -> SUBSET Place]
      BY <2>1, <2>4 DEF Stat, Return
    <2> QED
      BY <2>1, <2>2, <2>3, <2>4
      DEF PausesNext, Lock, ReadDisk, LeaveStore, AskMemo, Parse, Remember, Decide, WriteFlag,
          Command, RestartService, readVars
  <1>7. /\ {flag', flagFile', persisted'} \subseteq BOOLEAN /\ writer' \in Commander \cup {Free}
        /\ record' \in [Commander -> {Free} \cup [paused : BOOLEAN]]
    <2>1. CASE UNCHANGED flagVars
      BY <2>1 DEF PausesTypeOK, flagVars
    <2>2. ASSUME NEW c \in Commander, WriteFlag(c)
          PROVE  /\ {flag', flagFile', persisted'} \subseteq BOOLEAN
                 /\ writer' \in Commander \cup {Free}
                 /\ record' \in [Commander -> {Free} \cup [paused : BOOLEAN]]
      <3>1. record[c].paused \in BOOLEAN
        BY <2>2 DEF PausesTypeOK, WriteFlag
      <3> QED
        BY <2>2, <3>1 DEF PausesTypeOK, WriteFlag
    <2>3. ASSUME NEW c \in Commander, NEW on \in BOOLEAN, Command(c, on)
          PROVE  /\ {flag', flagFile', persisted'} \subseteq BOOLEAN
                 /\ writer' \in Commander \cup {Free}
                 /\ record' \in [Commander -> {Free} \cup [paused : BOOLEAN]]
      BY <2>3 DEF PausesTypeOK, Command
    <2>4. CASE RestartService
      BY <2>4 DEF PausesTypeOK, RestartService
    <2> QED
      BY <2>1, <2>2, <2>3, <2>4
      DEF PausesNext, Lock, ReadDisk, Save, LeaveStore, Tick, Stat, AskMemo, Parse,
         Remember, Decide, Return
  <1> QED
    BY <1>2, <1>3, <1>4, <1>5, <1>6, <1>7 DEF PausesTypeOK, Asked, Held, Ask

\* Every variable of Pauses keeps its type.
THEOREM PausesTypeCorrect == PausesSpec => []PausesTypeOK
  <1>1. PausesInit => PausesTypeOK
    BY PausesAssumption DEF PausesInit, PausesTypeOK, Idle, Pauses, Moment, Absent, Never
  <1>2. PausesTypeOK /\ [PausesNext]_pausesVars => PausesTypeOK'
    BY PauseTyped DEF PausesTypeOK, pausesVars, storeVars, readVars, flagVars
  <1> QED
    BY <1>1, <1>2, PTL DEF PausesSpec

-----------------------------------------------------------------------------
(***************************************************************************)
(* The store: what a transaction read is what it writes over, so a batch     *)
(* meets no pause it has not seen.                                          *)
(***************************************************************************)
StoreHolds ==
  /\ \A c \in Client : /\ client[c].stage # "idle" => lock = c /\ migrated
                       /\ client[c].stage = "read" => client[c].found = store
  /\ Cardinality(Paused(store)) <= Capacity
\* Every step keeps it.
LEMMA StoreStep ==
  ASSUME PausesTypeOK, StoreHolds, PausesNext
  PROVE  StoreHolds'
  <1> DEFINE ClientTyped == client \in [Client -> [stage : {"idle", "locked", "read"},
                                 targets : SUBSET Place, until : Moment, found : Pauses]]
  <1>t. ClientTyped /\ IsFiniteSet(Place) /\ Capacity \in Nat /\ now \in Nat
    BY PausesAssumption DEF PausesTypeOK
  <1>1. CASE UNCHANGED <<storeVars, now>>
    BY <1>1 DEF StoreHolds, Paused, Live, storeVars
  <1>2. ASSUME NEW c \in Client, Lock(c) PROVE StoreHolds'
    <2>1. UNCHANGED Paused(store)
      BY <1>2 DEF Lock, Paused, Live
    <2>2. \A d \in Client : client[d].stage = "idle"
      BY <1>2, PausesAssumption DEF Lock, StoreHolds
    <2>3. \A d \in Client : /\ client'[d].stage \in {"idle", "locked"}
                            /\ client'[d].stage # "idle" => d = c
      <3>1. PICK targets \in SUBSET Place, until \in {Absent, Never, 1} :
              client' = [client EXCEPT ![c] = [Idle EXCEPT !.stage = "locked",
                                               !.targets = targets, !.until = until]]
        BY <1>2 DEF Lock
      <3>2. [Idle EXCEPT !.stage = "locked", !.targets = targets, !.until = until].stage = "locked"
        BY DEF Idle
      <3> QED
        BY <1>t, <2>2, <3>1, <3>2
    <2> QED
      BY <1>2, <1>t, <2>1, <2>2, <2>3 DEF Lock, StoreHolds
  <1>3. ASSUME NEW c \in Client, ReadDisk(c) PROVE StoreHolds'
    <2>1. UNCHANGED Paused(store)
      BY <1>3 DEF ReadDisk, Paused, Live
    <2> QED
      BY <1>3, <1>t, <2>1 DEF ReadDisk, Current, Disk, StoreHolds
  <1>4. ASSUME NEW c \in Client, Save(c) PROVE StoreHolds'
    <2>1. client[c].found = store /\ lock = c
      BY <1>4 DEF Save, StoreHolds
    <2>2. Cardinality(Paused(Changed(c))) <= Capacity
      <3>1. CASE client[c].until = Absent
        <4>1. Paused(Changed(c)) \subseteq Paused(store)
          BY <1>t, <2>1, <3>1 DEF Paused, Changed, Until, OnlyLive, Live, Absent, Never
        <4>2. IsFiniteSet(Paused(store))
          BY <1>t, FS_Subset DEF Paused
        <4> QED
          BY <1>t, <4>1, <4>2, FS_Subset, FS_CardinalityType DEF StoreHolds
      <3>2. CASE client[c].until # Absent
        <4> DEFINE whole == client[c].targets \cup Paused(store)
        <4>1. whole \in SUBSET Place
          BY <1>t DEF Paused
        <4>2. IsFiniteSet(whole) /\ Cardinality(whole) \in Nat
          BY <1>t, <4>1, FS_Subset, FS_CardinalityType
        <4>3. Cardinality(whole) <= Capacity
          <5>1. ~ (Cardinality(whole) > Capacity)
            BY <1>4, <2>1, <3>2 DEF Save, OverLimit
          <5> QED
            BY <1>t, <4>2, <5>1
        <4>4. Paused(Changed(c)) \subseteq whole
          BY <1>t, <2>1 DEF Paused, Changed, OnlyLive, Live, Absent, Never
        <4> QED
          BY <1>t, <4>2, <4>3, <4>4, FS_Subset, FS_CardinalityType
      <3> QED
        BY <3>1, <3>2
    <2>3. Paused(store)' = Paused(Changed(c))
      BY <1>4 DEF Save, Paused, Live
    <2>4. \A d \in Client : client'[d].stage = "idle"
      BY <1>t, <1>4, <2>1 DEF Save, Unlock, Idle, StoreHolds
    <2> QED
      BY <2>2, <2>3, <2>4 DEF StoreHolds
  <1>5. ASSUME NEW c \in Client, LeaveStore(c) PROVE StoreHolds'
    <2>1. UNCHANGED Paused(store)
      BY <1>5 DEF LeaveStore, Paused, Live
    <2>2. \A d \in Client : client'[d].stage = "idle"
      BY <1>t, <1>5 DEF LeaveStore, Unlock, Idle, StoreHolds
    <2> QED
      BY <2>1, <2>2 DEF StoreHolds
  <1>6. CASE Tick
    <2>1. Paused(store)' \subseteq Paused(store)
      BY <1>t, <1>6 DEF PausesTypeOK, Pauses, Moment, Absent, Never, Tick, Paused, Live, storeVars
    <2>2. IsFiniteSet(Paused(store))
      BY <1>t, FS_Subset DEF Paused
    <2>3. Cardinality(Paused(store)') <= Capacity
      BY <1>t, <2>1, <2>2, FS_Subset, FS_CardinalityType DEF StoreHolds
    <2> QED
      BY <1>6, <2>3 DEF Tick, StoreHolds, storeVars
  <1>7. ASSUME NEW r \in Reader, Stat(r) PROVE StoreHolds'
    <2>1. UNCHANGED Paused(store)
      BY <1>7 DEF Stat, Paused, Live
    <2> QED
      BY <1>7, <2>1 DEF Stat, StoreHolds
  <1> QED
    BY <1>1, <1>2, <1>3, <1>4, <1>5, <1>6, <1>7
    DEF PausesNext, AskMemo, Parse, Remember, Decide, Return, WriteFlag, Command, RestartService

\* However batches of two processes meet, a write changes no live pause it was not
\* asked about, and leaves no more of them than the limit (pauses._mutate, place_many).
THEOREM BatchesStayWhole == PausesSpec => BatchesKeepOtherPauses
  <1>1. PausesInit => StoreHolds
    BY DEF PausesInit, StoreHolds, Idle
  <1>2. PausesTypeOK /\ StoreHolds /\ [PausesNext]_pausesVars => StoreHolds'
    BY StoreStep DEF StoreHolds, Paused, Live, pausesVars, storeVars
  <1>3. PausesTypeOK /\ StoreHolds /\ StoreHolds' /\ [PausesNext]_pausesVars =>
          [store' # store =>
             /\ Cardinality(Paused(store')) <= Capacity
             /\ \A p \in Paused(store) :
                  store'[p] = store[p] \/ \E c \in Client : lock = c /\ p \in client[c].targets
          ]_pausesVars
    <2> SUFFICES ASSUME PausesTypeOK, StoreHolds, StoreHolds', PausesNext, store' # store
                 PROVE  /\ Cardinality(Paused(store')) <= Capacity
                        /\ \A p \in Paused(store) :
                             store'[p] = store[p]
                             \/ \E c \in Client : lock = c /\ p \in client[c].targets
      BY DEF pausesVars, storeVars
    <2>1. PICK c \in Client : Save(c)
      BY DEF PausesNext, Lock, ReadDisk, LeaveStore, Tick, Stat, AskMemo, Parse, Remember,
             Decide, Return, WriteFlag, Command, RestartService, storeVars
    <2>2. client[c].found = store /\ lock = c
      BY <2>1 DEF Save, StoreHolds
    <2>3. Paused(store') = Paused(store)'
      BY <2>1 DEF Save, Paused, Live
    <2>4. \A p \in Paused(store) : store'[p] = store[p] \/ p \in client[c].targets
      BY <2>1, <2>2 DEF Save, Changed, OnlyLive, Paused, Live
    <2> QED
      BY <2>2, <2>3, <2>4 DEF StoreHolds
  <1> QED
    BY <1>1, <1>2, <1>3, PausesTypeCorrect, PTL DEF PausesSpec, BatchesKeepOtherPauses

-----------------------------------------------------------------------------
(***************************************************************************)
(* Readers.  A memo under a mark may be newer than the mark, never older: it *)
(* has every pause that has stood since a reader took that mark or an        *)
(* earlier one.                                                            *)
(***************************************************************************)
Reading(r) == reader[r].stage # "idle"
Knowing(r) == reader[r].stage \in {"known", "waits", "rewrites"}

MemoFresh ==
  \A s \in Site : memo[s] # Free =>
    /\ memo[s].mark <= saves
    /\ memo[s].mark = saves => memo[s].found = store
    /\ \A r \in Reader : Reading(r) /\ reader[r].mark <= memo[s].mark =>
         \A p \in standing[r] : memo[s].found[p] = store[p]

ReadersFresh ==
  \A q \in Reader :
    /\ reader[q].mark <= saves
    /\ Reading(q) => migrated
    /\ reader[q].stage = "parsed" /\ reader[q].mark = saves => reader[q].found = store
    /\ \A r \in Reader :
         reader[q].stage = "parsed" /\ Reading(r) /\ reader[r].mark <= reader[q].mark =>
           \A p \in standing[r] : reader[q].found[p] = store[p]
    /\ \A p \in standing[q] : Reading(q) /\ Live(store[p])
    /\ Knowing(q) => \A p \in standing[q] : reader[q].found[p] = store[p]
    /\ reader[q].stage = "rewrites" => \A p \in standing[q] : <<p, FileOf[q]>> \notin Covers

MemoHolds == MemoFresh /\ ReadersFresh

\* Every step keeps it.
LEMMA MemoStep ==
  ASSUME PausesTypeOK, MemoHolds, PausesNext
  PROVE  MemoHolds'
  <1> DEFINE Ask == [stage : {"idle", "marked", "missed", "parsed", "known", "waits", "rewrites"},
                     mark : 0..MaxSaves, found : Pauses]
             Held == {Free} \cup [mark : 0..MaxSaves, found : Pauses]
  <1>t. /\ reader \in [Reader -> Ask] /\ memo \in [Site -> Held]
        /\ standing \in [Reader -> SUBSET Place] /\ store \in Pauses
        /\ saves \in Nat /\ now \in Nat /\ SiteOf \in [Client \cup Reader -> Site]
        /\ Free \notin [mark : 0..MaxSaves, found : Pauses]
    BY PausesAssumption DEF PausesTypeOK
  <1>1. CASE UNCHANGED <<store, migrated, saves, now, readVars>>
    BY <1>1 DEF MemoHolds, MemoFresh, ReadersFresh, Reading, Knowing, Live, readVars
  <1>2. ASSUME NEW c \in Client, Lock(c) PROVE MemoHolds'
    BY <1>2 DEF Lock, MemoHolds, MemoFresh, ReadersFresh, Reading, Knowing, Live, readVars
  <1>3. ASSUME NEW c \in Client, Save(c) PROVE MemoHolds'
    <2>1. \A r \in Reader : \A p \in standing'[r] : p \in standing[r] /\ store'[p] = store[p]
      BY <1>t, <1>3 DEF Save
    <2>2. UNCHANGED <<migrated, now, reader>> /\ saves' = saves + 1
      BY <1>3 DEF Save
    <2>3. \A s \in Site : memo'[s] # Free => memo'[s] = memo[s]
      BY <1>t, <1>3 DEF Save
    <2>4. MemoFresh'
      BY <1>t, <2>1, <2>2, <2>3 DEF MemoHolds, MemoFresh, Reading
    <2>5. ReadersFresh'
      BY <1>t, <2>1, <2>2 DEF MemoHolds, ReadersFresh, Reading, Knowing, Live
    <2> QED
      BY <2>4, <2>5 DEF MemoHolds
  <1>4. CASE Tick
    <2>1. \A r \in Reader : \A p \in standing'[r] : p \in standing[r] /\ Live(store[p])'
      BY <1>t, <1>4 DEF Tick, Live, storeVars
    <2>2. UNCHANGED <<store, saves, migrated, memo, reader>>
      BY <1>4 DEF Tick, storeVars
    <2>3. MemoFresh'
      BY <2>1, <2>2 DEF MemoHolds, MemoFresh, Reading
    <2>4. ReadersFresh'
      BY <2>1, <2>2 DEF MemoHolds, ReadersFresh, Reading, Knowing
    <2> QED
      BY <2>3, <2>4 DEF MemoHolds
  <1>5. ASSUME NEW r \in Reader, Stat(r) PROVE MemoHolds'
    <2>1. /\ UNCHANGED <<store, saves, now, memo>> /\ migrated'
          /\ reader'[r].stage = "marked" /\ reader'[r].mark = saves
          /\ standing'[r] = Paused(store)
          /\ \A q \in Reader : q # r => reader'[q] = reader[q] /\ standing'[q] = standing[q]
      BY <1>t, <1>5 DEF Stat
    <2>2. MemoFresh'
      BY <1>t, <2>1 DEF MemoHolds, MemoFresh, Reading
    <2>3. \A p \in standing'[r] : Live(store[p])'
      BY <2>1 DEF Paused, Live
    <2>4. ReadersFresh'
      BY <1>t, <2>1, <2>3 DEF MemoHolds, ReadersFresh, Reading, Knowing, Live
    <2> QED
      BY <2>2, <2>4 DEF MemoHolds
  <1>6. ASSUME NEW r \in Reader, AskMemo(r) PROVE MemoHolds'
    <2>1. /\ UNCHANGED <<store, saves, migrated, now, memo, standing>>
          /\ reader[r].stage = "marked" /\ reader'[r].stage \in {"known", "missed"}
          /\ reader'[r].mark = reader[r].mark
          /\ reader'[r].stage = "known" => Hits(r) /\ reader'[r].found = memo[SiteOf[r]].found
          /\ \A q \in Reader : q # r => reader'[q] = reader[q]
      BY <1>t, <1>6 DEF AskMemo, storeVars
    <2>2. reader'[r].stage = "known" => \A p \in standing[r] : reader'[r].found[p] = store[p]
      BY <1>t, <2>1 DEF Hits, Reading, MemoHolds, MemoFresh
    <2>3. MemoFresh'
      BY <2>1 DEF MemoHolds, MemoFresh, Reading
    <2>4. ReadersFresh'
      BY <2>1, <2>2 DEF MemoHolds, ReadersFresh, Reading, Knowing, Live
    <2> QED
      BY <2>3, <2>4 DEF MemoHolds
  <1>7. ASSUME NEW r \in Reader, Parse(r) PROVE MemoHolds'
    <2>1. /\ UNCHANGED <<store, saves, migrated, now, memo, standing>>
          /\ reader[r].stage = "missed" /\ reader'[r].stage = "parsed"
          /\ reader'[r].mark = reader[r].mark /\ reader'[r].found = Disk
          /\ \A q \in Reader : q # r => reader'[q] = reader[q]
      BY <1>t, <1>7 DEF Parse, storeVars
    <2>2. Disk = store
      BY <2>1 DEF Disk, MemoHolds, ReadersFresh, Reading
    <2>3. MemoFresh'
      BY <2>1 DEF MemoHolds, MemoFresh, Reading
    <2>4. ReadersFresh'
      BY <2>1, <2>2 DEF MemoHolds, ReadersFresh, Reading, Knowing, Live
    <2> QED
      BY <2>3, <2>4 DEF MemoHolds
  <1>8. ASSUME NEW r \in Reader, Remember(r) PROVE MemoHolds'
    <2>1. /\ UNCHANGED <<store, saves, migrated, now, standing>>
          /\ reader[r].stage = "parsed" /\ reader'[r].stage = "known"
          /\ reader'[r].mark = reader[r].mark /\ reader'[r].found = reader[r].found
          /\ \A q \in Reader : q # r => reader'[q] = reader[q]
      BY <1>t, <1>8 DEF Remember, storeVars
    <2>2. \A s \in Site :
            \/ memo'[s] = memo[s]
            \/ memo'[s].mark = reader[r].mark /\ memo'[s].found = reader[r].found
      BY <1>t, <1>8 DEF Remember
    <2>3. MemoFresh'
      BY <2>1, <2>2 DEF MemoHolds, MemoFresh, ReadersFresh, Reading
    <2>4. \A p \in standing[r] : reader[r].found[p] = store[p]
      BY <1>t, <2>1 DEF MemoHolds, ReadersFresh, Reading
    <2>5. ReadersFresh'
      BY <2>1, <2>4 DEF MemoHolds, ReadersFresh, Reading, Knowing, Live
    <2> QED
      BY <2>3, <2>5 DEF MemoHolds
  <1>9. ASSUME NEW r \in Reader, Decide(r) PROVE MemoHolds'
    <2>1. /\ UNCHANGED <<store, saves, migrated, now, memo, standing>>
          /\ reader[r].stage = "known" /\ reader'[r].stage \in {"waits", "rewrites"}
          /\ reader'[r].stage = "rewrites" => ~Covered(r)
          /\ reader'[r].mark = reader[r].mark /\ reader'[r].found = reader[r].found
          /\ \A q \in Reader : q # r => reader'[q] = reader[q]
      BY <1>t, <1>9 DEF Decide, storeVars
    <2>2. reader'[r].stage = "rewrites" => \A p \in standing[r] : <<p, FileOf[r]>> \notin Covers
      <3>1. \A p \in standing[r] : p \in Place /\ Live(store[p]) /\ reader[r].found[p] = store[p]
        BY <1>t, <2>1 DEF MemoHolds, ReadersFresh, Knowing
      <3>2. \A p \in standing[r] : p \in Paused(reader[r].found)
        BY <3>1 DEF Paused
      <3> QED
        BY <2>1, <3>2 DEF Covered
    <2>3. MemoFresh'
      BY <2>1 DEF MemoHolds, MemoFresh, Reading
    <2>4. ReadersFresh'
      BY <2>1, <2>2 DEF MemoHolds, ReadersFresh, Reading, Knowing, Live
    <2> QED
      BY <2>3, <2>4 DEF MemoHolds
  <1>10. ASSUME NEW r \in Reader, Return(r) PROVE MemoHolds'
    <2>1. /\ UNCHANGED <<store, saves, migrated, now, memo>>
          /\ reader'[r].stage = "idle" /\ reader'[r].mark = 0 /\ standing'[r] = {}
          /\ \A q \in Reader : q # r => reader'[q] = reader[q] /\ standing'[q] = standing[q]
      BY <1>t, <1>10 DEF Return, storeVars
    <2>2. MemoFresh'
      BY <2>1 DEF MemoHolds, MemoFresh, Reading
    <2>3. ReadersFresh'
      BY <1>t, <2>1, SMTT(20) DEF MemoHolds, ReadersFresh, Reading, Knowing, Live
    <2> QED
      BY <2>2, <2>3 DEF MemoHolds
  <1> QED
    BY <1>1, <1>2, <1>3, <1>4, <1>5, <1>6, <1>7, <1>8, <1>9, <1>10
    DEF PausesNext, ReadDisk, LeaveStore, WriteFlag, Command, RestartService, storeVars

\* A file goes to its rewrite only if no pause covering it has stood since before its
\* worker asked (pauses._read, processing.effective_dry_run).
THEOREM PausedFilesAlwaysRest == PausesSpec => []PausedFilesRest
  <1>1. PausesInit => MemoHolds
    BY DEF PausesInit, MemoHolds, MemoFresh, ReadersFresh, Reading, Knowing
  <1>2. PausesTypeOK /\ MemoHolds /\ [PausesNext]_pausesVars => MemoHolds'
    BY MemoStep DEF MemoHolds, MemoFresh, ReadersFresh, Reading, Knowing, Live, pausesVars,
                    storeVars, readVars
  <1>3. MemoHolds => PausedFilesRest
    BY DEF MemoHolds, ReadersFresh, PausedFilesRest
  <1> QED
    BY <1>1, <1>2, <1>3, PausesTypeCorrect, PTL DEF PausesSpec

-----------------------------------------------------------------------------
(***************************************************************************)
(* The flag: whoever has a record to write has the flag's lock, and writes   *)
(* what is live.                                                            *)
(***************************************************************************)
FlagHolds ==
  /\ \A c \in Commander : record[c] # Free => writer = c /\ record[c].paused = flag
  /\ (\A c \in Commander : record[c] = Free) /\ persisted => flagFile = flag
\* Every step keeps it.
LEMMA FlagStep ==
  ASSUME PausesTypeOK, FlagHolds, PausesNext
  PROVE  FlagHolds'
  <1>t. DOMAIN record = Commander /\ Free \notin [paused : BOOLEAN]
    BY PausesAssumption DEF PausesTypeOK
  <1>1. CASE UNCHANGED flagVars
    BY <1>1 DEF FlagHolds, flagVars
  <1>2. ASSUME NEW c \in Commander, WriteFlag(c) PROVE FlagHolds'
    BY <1>t, <1>2 DEF WriteFlag, FlagHolds
  <1>3. ASSUME NEW c \in Commander, NEW on \in BOOLEAN, Command(c, on) PROVE FlagHolds'
    <2>1. \A d \in Commander : record[d] = Free
      BY <1>3, PausesAssumption DEF Command, FlagHolds
    <2>2. record' = [record EXCEPT ![c] = [paused |-> on]] /\ writer' = c /\ flag' = on
      BY <1>3 DEF Command
    <2>3. record'[c] # Free /\ record'[c].paused = flag'
      BY <1>t, <2>2
    <2> QED
      BY <1>t, <2>1, <2>2, <2>3 DEF FlagHolds
  <1>4. CASE RestartService
    BY <1>4 DEF RestartService, FlagHolds
  <1> QED
    BY <1>1, <1>2, <1>3, <1>4
    DEF PausesNext, Lock, ReadDisk, Save, LeaveStore, Tick, Stat, AskMemo, Parse,
         Remember, Decide, Return

\* The flag a restart will find is the service's own once no command is under way,
\* unless the last write failed (lifecycle._set_paused, load_paused).
THEOREM FlagAlwaysSurvives == PausesSpec => []FlagSurvivesRestart
  <1>1. PausesInit => FlagHolds
    BY PausesAssumption DEF PausesInit, FlagHolds
  <1>2. PausesTypeOK /\ FlagHolds /\ [PausesNext]_pausesVars => FlagHolds'
    BY FlagStep DEF FlagHolds, pausesVars, flagVars
  <1>3. FlagHolds => FlagSurvivesRestart
    BY DEF FlagHolds, FlagSurvivesRestart
  <1> QED
    BY <1>1, <1>2, <1>3, PausesTypeCorrect, PTL DEF PausesSpec

-----------------------------------------------------------------------------
(***************************************************************************)
(* What a file means where every credential in it opens: a function of the  *)
(* deploy and the file alone.                                               *)
(***************************************************************************)
RawIn(e, f, n) == IF e.direct[n] # "" THEN e.direct[n]
                  ELSE IF n \in DOMAIN f.holds THEN f.holds[n].text ELSE Default[n]
ParsedIn(e, f, n) ==
  IF <<n, RawIn(e, f, n)>> \in Unreadable THEN Default[n] ELSE RawIn(e, f, n)
FormsIn(e, n) == (IF e.direct[n] # "" THEN {"direct"} ELSE {})
                 \cup (IF n \in Secret /\ e.indirect[n] # Unset THEN {"indirect"} ELSE {})
CredentialIn(e, f, n) ==
  CASE FormsIn(e, n) = {"direct", "indirect"} -> ""
    [] FormsIn(e, n) = {"direct"} -> e.direct[n]
    [] FormsIn(e, n) = {"indirect"} -> e.indirect[n]
    [] OTHER -> RawIn(e, f, n)
BadlyIn(e, n) ==
  \/ Cardinality(FormsIn(e, n)) > 1
  \/ FormsIn(e, n) = {"indirect"} /\ e.indirect[n] = ""
ProblemsIn(e, f) ==
  {<<n, RawIn(e, f, n)>> : n \in {u \in Setting \ Secret : <<u, RawIn(e, f, u)>> \in Unreadable}}
  \cup {<<n, "stated badly">> : n \in {s \in Secret : BadlyIn(e, s)}} \cup FileProblems(f)
SourcesIn(e, f) ==
  Standing \cup ({SourceOf[n] : n \in DOMAIN f.holds \cup {m \in Setting : FormsIn(e, m) # {}}}
                 \ {NoSource})
LoadIn(e, f) ==
  [values |-> [n \in Setting |-> IF n \in Secret THEN CredentialIn(e, f, n) ELSE ParsedIn(e, f, n)],
   problems |-> ProblemsIn(e, f), sealed |-> {}, sources |-> SourcesIn(e, f)]

\* A file a start would take.
Clean(e, f) == Problems(LoadIn(e, f)) = {}

LEMMA SourceParts ==
  ASSUME NEW f, NEW n
  PROVE  /\ Raw(f, n) = RawIn(env, f, n) /\ Parsed(f, n) = ParsedIn(env, f, n)
         /\ Forms(n) = FormsIn(env, n) /\ BadlyStated(n) = BadlyIn(env, n)
  BY DEF Raw, RawIn, Parsed, ParsedIn, Forms, FormsIn, BadlyStated, BadlyIn

LEMMA LoadParts ==
  ASSUME NEW f
  PROVE  /\ load(f).problems = ProblemsIn(env, f) /\ load(f).sources = SourcesIn(env, f)
         /\ load(f).sealed = Unopened(f)
         /\ DOMAIN load(f).values = Setting
         /\ \A n \in Setting \ Secret : load(f).values[n] = ParsedIn(env, f, n)
         /\ \A n \in Setting \cap Secret : load(f).values[n] = Credential(f, n)
  <1>1. load(f).problems = ProblemsIn(env, f)
    <2>1. {u \in Setting \ Secret : <<u, Raw(f, u)>> \in Unreadable}
            = {u \in Setting \ Secret : <<u, RawIn(env, f, u)>> \in Unreadable}
      BY SourceParts
    <2>2. {<<n, Raw(f, n)>> : n \in {u \in Setting \ Secret : <<u, Raw(f, u)>> \in Unreadable}}
            = {<<n, RawIn(env, f, n)>>
               : n \in {u \in Setting \ Secret : <<u, RawIn(env, f, u)>> \in Unreadable}}
      BY <2>1, SourceParts
    <2>3. SecretProblems = {<<n, "stated badly">> : n \in {s \in Secret : BadlyIn(env, s)}}
      <3>1. {s \in Secret : BadlyStated(s)} = {s \in Secret : BadlyIn(env, s)}
        BY SourceParts
      <3> QED
        BY <3>1 DEF SecretProblems
    <2> QED
      BY <2>2, <2>3 DEF load, ProblemsIn
  <1>2. load(f).sources = SourcesIn(env, f)
    <2>1. Stated(f) = DOMAIN f.holds \cup {m \in Setting : FormsIn(env, m) # {}}
      BY SourceParts DEF Stated
    <2> QED
      BY <2>1 DEF load, SourcesIn
  <1>3. /\ load(f).sealed = Unopened(f) /\ DOMAIN load(f).values = Setting
        /\ \A n \in Setting \ Secret : load(f).values[n] = Parsed(f, n)
        /\ \A n \in Setting \cap Secret : load(f).values[n] = Credential(f, n)
    BY DEF load
  <1> QED
    BY <1>1, <1>2, <1>3, SourceParts

\* Nothing left sealed, a file means what it says.
LEMMA LoadOpened ==
  ASSUME NEW f, Unopened(f) = {}
  PROVE  load(f) = LoadIn(env, f)
  <1>1. \A n \in Setting \cap Secret : Credential(f, n) = CredentialIn(env, f, n)
    BY SourceParts DEF Credential, CredentialIn
  <1>2. load(f).values = LoadIn(env, f).values
    BY <1>1, LoadParts DEF LoadIn, load
  <1> QED
    BY <1>2, LoadParts DEF load, LoadIn

\* No start judges a credential, so a sealed one changes nothing of what it finds.
LEMMA ProblemsOpened ==
  ASSUME NEW f
  PROVE  Problems(load(f)) = Problems(LoadIn(env, f))
  <1> DEFINE real == {<<n, load(f).values[n]>> : n \in Setting}
             open == {<<n, LoadIn(env, f).values[n]>> : n \in Setting}
  <1>1. load(f).problems = LoadIn(env, f).problems
    BY LoadParts DEF LoadIn
  <1>2. \A n \in Setting \ Secret : load(f).values[n] = LoadIn(env, f).values[n]
    BY LoadParts DEF LoadIn
  <1>3. \A u \in Unfit \cup UNION Clash : (u \in real) = (u \in open)
    BY <1>2, SettingsAssumption
  <1> HIDE DEF real, open
  <1>4. real \cap Unfit = open \cap Unfit
    BY <1>3
  <1>5. {c \in Clash : c \subseteq real} = {c \in Clash : c \subseteq open}
    <2>1. \A c \in Clash : c \subseteq UNION Clash
      OBVIOUS
    <2> QED
      BY <1>3, <2>1
  <1> QED
    BY <1>1, <1>4, <1>5 DEF Problems, real, open

LEMMA NoProblems ==
  ASSUME NEW s, Problems(s) = {}
  PROVE  s.problems = {} /\ \A n \in Setting : <<n, s.values[n]>> \notin Unfit
  <1> DEFINE texts == {<<n, s.values[n]>> : n \in Setting}
             found == s.problems \cup (texts \cap Unfit)
  <1>1. {{p} : p \in found} = {}
    BY DEF Problems
  <1>2. \A p \in found : {p} \in {{q} : q \in found}
    OBVIOUS
  <1>3. found = {}
    BY <1>1, <1>2
  <1> QED
    BY <1>3

\* Settings a start takes have the zone libc is told.
LEMMA ZoneStands ==
  ASSUME NEW f, NEW kept, Problems(load(f)) = {},
         env.direct["TZ"] # "" => kept = env.direct["TZ"]
  PROVE  ZoneOf(load(f), kept) = load(f).values["TZ"]
  <1> DEFINE said == load(f).values["TZ"]
  <1>1. "TZ" \in Setting \ Secret
    BY SettingsAssumption
  <1>2. said = ParsedIn(env, f, "TZ")
    BY <1>1, LoadParts
  <1>3. load(f).problems = {}
    BY NoProblems
  <1>4. <<"TZ", RawIn(env, f, "TZ")>> \notin Unreadable
    <2>1. ProblemsIn(env, f) = {}
      BY <1>3, LoadParts
    <2>2. SUFFICES ASSUME <<"TZ", RawIn(env, f, "TZ")>> \in Unreadable PROVE FALSE
      OBVIOUS
    <2>3. "TZ" \in {u \in Setting \ Secret : <<u, RawIn(env, f, u)>> \in Unreadable}
      BY <1>1, <2>2
    <2> QED
      BY <2>1, <2>3 DEF ProblemsIn
  <1>5. env.direct["TZ"] # "" => said = env.direct["TZ"]
    BY <1>2, <1>4 DEF ParsedIn, RawIn
  <1>6. <<"TZ", said>> \notin Unfit
    BY <1>1, NoProblems
  <1> QED
    BY <1>5, <1>6 DEF ZoneOf

-----------------------------------------------------------------------------
(***************************************************************************)
(* Whole saves.  What a save may end in is what a start would take: while    *)
(* it is under way, what it would go back to is, and what it put in force    *)
(* is what the file says, whichever process made the key meanwhile.         *)
(***************************************************************************)
\* A file's entries, and those of them that are under the key.
Shaped(holds) == \A n \in DOMAIN holds : holds[n] = [text |-> holds[n].text, key |-> holds[n].key]
Keyed(holds, k) ==
  \A n \in DOMAIN holds \cap Secret : holds[n].key = 0 \/ (k > 0 /\ holds[n].key = k)

\* One process at a time fills a key file it made.
KeyInv ==
  /\ minted \in Nat /\ key \in -1..minted
  /\ step = "filling" => key = EmptyKey
  /\ rival = "filling" => key = EmptyKey /\ step # "filling"

SealInv ==
  /\ Shaped(saved.holds) /\ Shaped(save.previous.holds) /\ Shaped(save.merged)
  /\ ~keyLost => /\ Keyed(saved.holds, key) /\ Keyed(save.previous.holds, key)
                 /\ Keyed(save.merged, key)

ZoneInv == env.direct["TZ"] # "" => zone = env.direct["TZ"]

Before == {"up", "sealing", "minting", "filling", "writing"}
Saving == {"sealing", "minting", "filling", "writing", "loading", "judging", "undoing"}

\* What is in force is what the file says.
Applied == live.values["TZ"] = zone /\ (~keyLost => live = LoadIn(env, saved))

SaveInv ==
  ~tainted =>
    /\ step \in Before => (Problems(live) = {} /\ Applied /\ Clean(env, saved))
    /\ step \in Saving => (save.known = {} /\ Clean(env, save.previous))
    /\ step = "judging" => /\ Problems(live) = Problems(LoadIn(env, saved))
                          /\ (Problems(live) = {} => Applied)
    /\ step = "reloading" => Clean(env, saved)

WholeInv == KeyInv /\ SealInv /\ ZoneInv /\ SaveInv

LEMMA KeyKept ==
  ASSUME KeyInv, SettingsNext
  PROVE  KeyInv'
  <1>1. CASE BeginSave
    BY <1>1 DEF KeyInv, BeginSave, keyVars
  <1>2. CASE LookForKey
    BY <1>2 DEF KeyInv, LookForKey, Seal, keyVars, NoKey, EmptyKey
  <1>3. CASE CreateKey
    BY <1>3 DEF KeyInv, CreateKey, Seal, keyVars, NoKey, EmptyKey
  <1>4. CASE FillKey
    BY <1>4 DEF KeyInv, FillKey, EmptyKey
  <1>5. CASE RivalMints
    BY <1>5 DEF KeyInv, RivalMints, NoKey, EmptyKey
  <1>6. CASE Tamper
    BY <1>6 DEF KeyInv, Tamper, keyVars, NoKey, EmptyKey
  <1>7. CASE Stop
    BY <1>7 DEF KeyInv, Stop, keyVars
  <1>8. CASE WriteMerged \/ LoadMerged \/ JudgeSave \/ Undo \/ Reload \/ Start
    BY <1>8 DEF KeyInv, WriteMerged, LoadMerged, JudgeSave, Undo, Reload, Start, keyVars
  <1> QED
    BY <1>1, <1>2, <1>3, <1>4, <1>5, <1>6, <1>7, <1>8 DEF SettingsNext

LEMMA TypedEntry ==
  ASSUME NEW text
  PROVE  Typed(text) = [text |-> Typed(text).text, key |-> Typed(text).key] /\ Typed(text).key = 0
  BY DEF Typed

\* A save's merged file, before it is sealed.
LEMMA MergedSealed ==
  ASSUME NEW c, Shaped(saved.holds)
  PROVE  /\ Shaped(Merged(c))
         /\ \A k : Keyed(saved.holds, k) => Keyed(Merged(c), k)
  <1>1. \A n \in DOMAIN Merged(c) : \/ n \in DOMAIN saved.holds /\ Merged(c)[n] = saved.holds[n]
                                   \/ \E text : Merged(c)[n] = Typed(text)
    BY DEF Merged
  <1>2. Shaped(Merged(c))
    BY <1>1, TypedEntry DEF Shaped
  <1>3. ASSUME NEW k, Keyed(saved.holds, k) PROVE Keyed(Merged(c), k)
    BY <1>1, <1>3, TypedEntry DEF Keyed
  <1> QED
    BY <1>2, <1>3

LEMMA SealedKeyed ==
  ASSUME NEW holds, Shaped(holds), NEW k \in Int, k > 0
  PROVE  Shaped(Sealed(holds, k)) /\ (Keyed(holds, k) => Keyed(Sealed(holds, k), k))
  <1>1. /\ DOMAIN Sealed(holds, k) = DOMAIN holds
        /\ \A n \in DOMAIN holds :
             \/ Sealed(holds, k)[n] = holds[n]
             \/ Sealed(holds, k)[n] = [holds[n] EXCEPT !.key = k]
    BY DEF Sealed
  <1>2. ASSUME NEW n \in DOMAIN holds
        PROVE  LET entry == [holds[n] EXCEPT !.key = k]
               IN entry = [text |-> entry.text, key |-> entry.key] /\ entry.key = k
    <2>1. holds[n] = [text |-> holds[n].text, key |-> holds[n].key]
      BY DEF Shaped
    <2> QED
      BY <2>1
  <1>3. Shaped(Sealed(holds, k))
    BY <1>1, <1>2 DEF Shaped
  <1>4. ASSUME Keyed(holds, k) PROVE Keyed(Sealed(holds, k), k)
    <2>1. ASSUME NEW n \in DOMAIN holds \cap Secret
          PROVE  Sealed(holds, k)[n].key = 0 \/ Sealed(holds, k)[n].key = k
      <3>1. holds[n].key = 0 \/ holds[n].key = k
        BY <1>4 DEF Keyed
      <3> QED
        BY <1>1, <1>2, <3>1
    <2> QED
      BY <1>1, <2>1 DEF Keyed
  <1> QED
    BY <1>3, <1>4

\* Where no key is, nothing is sealed, so a new one closes nothing.
LEMMA NewKeyOpens ==
  ASSUME NEW holds, NEW k, Keyed(holds, key), key <= 0, KeyInv
  PROVE  Keyed(holds, k)
  BY DEF Keyed, KeyInv

LEMMA SealKept ==
  ASSUME KeyInv, SealInv, SettingsNext
  PROVE  SealInv'
  <1>1. CASE BeginSave
    BY <1>1, MergedSealed DEF SealInv, BeginSave, keyVars, fileVars
  <1>2. ASSUME Seal, key # NoKey, UNCHANGED saved PROVE SealInv'
    <2>1. CASE key = EmptyKey
      BY <1>2, <2>1 DEF SealInv, Seal, keyVars
    <2>2. CASE key # EmptyKey
      <3>1. key \in Int /\ key > 0
        BY <1>2, <2>2 DEF KeyInv, NoKey, EmptyKey
      <3>2. /\ save'.merged = Sealed(save.merged, key) /\ save'.previous = save.previous
            /\ key' = key /\ keyLost' = keyLost
        BY <1>2, <2>2 DEF Seal, keyVars, SealInv
      <3> QED
        BY <1>2, <3>1, <3>2, SealedKeyed DEF SealInv
    <2> QED
      BY <2>1, <2>2
  <1>3. CASE LookForKey
    BY <1>2, <1>3 DEF SealInv, LookForKey, keyVars, fileVars
  <1>4. CASE CreateKey
    <2>1. CASE key # NoKey /\ Seal
      BY <1>2, <1>4, <2>1 DEF CreateKey, fileVars
    <2>2. CASE key = NoKey /\ key' = EmptyKey /\ UNCHANGED <<save, keyLost>>
      <3>1. key <= 0 /\ UNCHANGED saved
        BY <1>4, <2>2 DEF CreateKey, fileVars, NoKey
      <3> QED
        BY <2>2, <3>1, NewKeyOpens DEF SealInv
    <2> QED
      BY <1>4, <2>1, <2>2 DEF CreateKey
  <1>5. CASE FillKey
    <2>1. key <= 0 /\ UNCHANGED <<saved, keyLost>>
      BY <1>5 DEF FillKey, KeyInv, fileVars, EmptyKey
    <2>2. CASE UNCHANGED <<key, save>>
      BY <2>1, <2>2 DEF SealInv
    <2>3. CASE key' = minted + 1 /\ save' = [save EXCEPT !.merged = Sealed(@, minted + 1)]
      <3>1. minted + 1 \in Int /\ minted + 1 > 0
        BY DEF KeyInv
      <3> QED
        BY <2>1, <2>3, <3>1, NewKeyOpens, SealedKeyed DEF SealInv
    <2> QED
      BY <1>5, <2>2, <2>3 DEF FillKey
  <1>6. CASE RivalMints
    <2>1. key' = key \/ key <= 0
      BY <1>6 DEF RivalMints, KeyInv, NoKey, EmptyKey
    <2> QED
      BY <1>6, <2>1, NewKeyOpens DEF SealInv, RivalMints, fileVars
  <1>7. CASE Tamper
    <2>1. UNCHANGED save
      BY <1>7 DEF Tamper
    <2>2. CASE UNCHANGED keyVars
      <3>1. /\ Shaped(NoFile.holds) /\ Keyed(NoFile.holds, key)
            /\ [NoFile EXCEPT !.kind = "damaged"].holds = NoFile.holds
        BY DEF NoFile, Shaped, Keyed
      <3>2. ASSUME NEW n, NEW text
            PROVE  /\ Shaped(WithText(n, text).holds)
                   /\ (Keyed(saved.holds, key) => Keyed(WithText(n, text).holds, key))
        <4>1. \A m \in DOMAIN WithText(n, text).holds :
                 \/ WithText(n, text).holds[m] = Typed(text)
                 \/ m \in DOMAIN saved.holds /\ WithText(n, text).holds[m] = saved.holds[m]
          BY DEF WithText
        <4> QED
          BY <4>1, TypedEntry DEF SealInv, Shaped, Keyed
      <3>3. \/ saved' = NoFile \/ saved' = [NoFile EXCEPT !.kind = "damaged"] \/ saved' = saved
            \/ \E n, text : saved' = WithText(n, text)
        BY <1>7, <2>2 DEF Tamper, fileVars
      <3> QED
        BY <2>1, <2>2, <3>1, <3>2, <3>3 DEF SealInv, keyVars
    <2>3. CASE keyLost' = TRUE /\ UNCHANGED fileVars
      BY <2>1, <2>3 DEF SealInv, fileVars
    <2> QED
      BY <1>7, <2>2, <2>3 DEF Tamper
  <1>8. CASE WriteMerged
    BY <1>8 DEF SealInv, WriteMerged, keyVars
  <1>9. CASE Undo
    BY <1>9 DEF SealInv, Undo, keyVars
  <1>10. CASE LoadMerged \/ JudgeSave \/ Reload \/ Stop \/ Start
    BY <1>10 DEF SealInv, LoadMerged, JudgeSave, Reload, Stop, Start, keyVars, fileVars
  <1> QED
    BY <1>1, <1>3, <1>4, <1>5, <1>6, <1>7, <1>8, <1>9, <1>10 DEF SettingsNext

LEMMA ZoneKept ==
  ASSUME ZoneInv, SettingsNext
  PROVE  ZoneInv'
  <1>1. \A s, kept : env.direct["TZ"] # "" => ZoneOf(s, kept) = kept
    BY DEF ZoneOf
  <1>2. CASE LoadMerged
    BY <1>1, <1>2 DEF LoadMerged, PutInForce, ZoneInv
  <1>3. CASE Reload
    BY <1>1, <1>3 DEF Reload, PutInForce, ZoneInv
  <1>4. CASE Start
    BY <1>1, <1>4 DEF Start, ZoneInv
  <1>5. CASE UNCHANGED <<env, zone>>
    BY <1>5 DEF ZoneInv
  <1> QED
    BY <1>2, <1>3, <1>4, <1>5
    DEF SettingsNext, BeginSave, LookForKey, CreateKey, FillKey, WriteMerged, JudgeSave, Undo,
        RivalMints, Tamper, Stop, liveVars

LEMMA KeyedOpens ==
  ASSUME NEW f, Keyed(f.holds, key)
  PROVE  Unopened(f) = {}
  BY DEF Keyed, Unopened

\* What a load puts in force.
LEMMA InForce ==
  ASSUME SealInv, NEW kept, env.direct["TZ"] # "" => kept = env.direct["TZ"],
         live' = load(saved), zone' = ZoneOf(load(saved), kept), UNCHANGED <<env, saved, keyLost>>
  PROVE  Problems(live') = Problems(LoadIn(env, saved)) /\ (Problems(live') = {} => Applied')
  <1>1. Problems(live') = Problems(LoadIn(env, saved))
    BY ProblemsOpened
  <1>2. ~keyLost => live' = LoadIn(env, saved)
    BY KeyedOpens, LoadOpened DEF SealInv
  <1>3. Problems(live') = {} => live'.values["TZ"] = zone'
    BY ZoneStands
  <1> QED
    BY <1>1, <1>2, <1>3 DEF Applied

LEMMA SaveKept ==
  ASSUME WholeInv, SettingsNext
  PROVE  SaveInv'
  <1> USE DEF WholeInv
  <1>1. CASE BeginSave
    <2>1. /\ UNCHANGED <<env, saved, tainted, keyLost, live, zone>>
          /\ step = "up" /\ step' \in {"writing", "sealing"}
          /\ save'.previous = saved /\ save'.known = Problems(live)
      BY <1>1 DEF BeginSave, fileVars, keyVars, liveVars
    <2>2. ~tainted => Problems(live) = {} /\ Applied /\ Clean(env, saved)
      BY <2>1 DEF SaveInv, Before
    <2>3. Applied => Applied'
      BY <2>1 DEF Applied
    <2> QED
      BY <2>1, <2>2, <2>3 DEF SaveInv, Before, Saving
  <1>2. ASSUME step \in {"sealing", "minting", "filling", "writing"},
               step' \in {"up", "minting", "filling", "writing"},
               UNCHANGED <<env, saved, tainted, keyLost, live, zone>>,
               save'.known = save.known /\ save'.previous = save.previous
        PROVE  SaveInv'
    <2>1. Applied => Applied'
      BY <1>2 DEF Applied
    <2> QED
      BY <1>2, <2>1 DEF SaveInv, Before, Saving
  <1>3. ASSUME Seal PROVE save'.known = save.known /\ save'.previous = save.previous
    BY <1>3 DEF Seal
  <1>4. CASE LookForKey
    BY <1>2, <1>3, <1>4 DEF LookForKey, Seal, fileVars, keyVars, liveVars
  <1>5. CASE CreateKey
    BY <1>2, <1>3, <1>5 DEF CreateKey, Seal, fileVars, keyVars, liveVars
  <1>6. CASE FillKey
    <2>1. save'.known = save.known /\ save'.previous = save.previous
      <3>1. CASE UNCHANGED save
        BY <3>1
      <3>2. CASE save' = [save EXCEPT !.merged = Sealed(@, minted + 1)]
        BY <3>2
      <3> QED
        BY <1>6, <3>1, <3>2 DEF FillKey
    <2>2. UNCHANGED <<env, saved, tainted, keyLost, live, zone>>
      BY <1>6 DEF FillKey, fileVars, liveVars
    <2> QED
      BY <1>2, <1>6, <2>1, <2>2 DEF FillKey
  <1>7. CASE WriteMerged
    <2>1. CASE step' = "up" /\ UNCHANGED saved
      BY <1>2, <1>7, <2>1 DEF WriteMerged, keyVars, liveVars
    <2>2. CASE step' = "loading"
      BY <1>7, <2>2 DEF WriteMerged, SaveInv, Before, Saving
    <2> QED
      BY <1>7, <2>1, <2>2 DEF WriteMerged
  <1>8. CASE LoadMerged
    <2>1. UNCHANGED <<env, saved, tainted, keyLost, save>> /\ step = "loading" /\ step' = "judging"
      BY <1>8 DEF LoadMerged, fileVars, keyVars
    <2>2. Problems(live') = Problems(LoadIn(env, saved)) /\ (Problems(live') = {} => Applied')
      BY <1>8, <2>1, InForce DEF LoadMerged, PutInForce, ZoneInv
    <2> QED
      BY <2>1, <2>2 DEF SaveInv, Before, Saving
  <1>9. CASE JudgeSave
    <2>1. UNCHANGED <<env, saved, tainted, keyLost, save, live, zone>> /\ step = "judging"
      BY <1>9 DEF JudgeSave, fileVars, keyVars, liveVars
    <2>2. CASE Problems(live) \subseteq save.known
      <3>1. ~tainted => Problems(live) = {} /\ Applied /\ Clean(env, saved)
        BY <2>1, <2>2 DEF SaveInv, Saving, Clean
      <3>2. Applied => Applied'
        BY <2>1 DEF Applied
      <3>3. step' = "up"
        BY <1>9, <2>2 DEF JudgeSave
      <3> QED
        BY <2>1, <3>1, <3>2, <3>3 DEF SaveInv, Saving, Before
    <2>3. CASE ~(Problems(live) \subseteq save.known)
      BY <1>9, <2>1, <2>3 DEF JudgeSave, SaveInv, Saving, Before
    <2> QED
      BY <2>2, <2>3
  <1>10. CASE Undo
    <2>1. CASE saved' = save.previous /\ step' = "reloading" /\ UNCHANGED tainted
      BY <1>10, <2>1 DEF Undo, SaveInv, Saving, Before
    <2>2. CASE tainted'
      BY <2>2 DEF SaveInv
    <2> QED
      BY <1>10, <2>1, <2>2 DEF Undo
  <1>11. CASE Reload
    <2>1. UNCHANGED <<env, saved, tainted, keyLost, save>> /\ step = "reloading" /\ step' = "up"
      BY <1>11 DEF Reload, fileVars, keyVars
    <2>2. Problems(live') = Problems(LoadIn(env, saved)) /\ (Problems(live') = {} => Applied')
      BY <1>11, <2>1, InForce DEF Reload, PutInForce, ZoneInv
    <2> QED
      BY <2>1, <2>2 DEF SaveInv, Before, Saving, Clean
  <1>12. CASE RivalMints
    <2>1. UNCHANGED <<env, saved, tainted, keyLost, save, live, zone, step>>
      BY <1>12 DEF RivalMints, fileVars, liveVars
    <2>2. Applied => Applied'
      BY <2>1 DEF Applied
    <2> QED
      BY <2>1, <2>2 DEF SaveInv
  <1>13. CASE Tamper
    <2>1. CASE tainted'
      BY <2>1 DEF SaveInv
    <2>2. CASE keyLost' = TRUE /\ UNCHANGED fileVars
      <3>1. UNCHANGED <<env, saved, tainted, save, live, zone, step>>
        BY <1>13, <2>2 DEF Tamper, fileVars, liveVars
      <3>2. Applied => Applied'
        BY <2>2, <3>1 DEF Applied
      <3> QED
        BY <3>1, <3>2 DEF SaveInv
    <2> QED
      BY <1>13, <2>1, <2>2 DEF Tamper
  <1>14. CASE Stop
    BY <1>14 DEF Stop, SaveInv, Before, Saving
  <1>15. CASE Start
    <2>1. UNCHANGED <<env, saved, keyLost, save>> /\ step' = "up"
      BY <1>15 DEF Start, keyVars
    <2>2. Problems(live') = Problems(LoadIn(env, saved)) /\ (Problems(live') = {} => Applied')
      BY <1>15, <2>1, InForce DEF Start
    <2>3. Problems(live') = {}
      BY <1>15 DEF Start
    <2> QED
      BY <2>1, <2>2, <2>3 DEF SaveInv, Before, Saving, Clean
  <1> QED
    BY <1>1, <1>4, <1>5, <1>6, <1>7, <1>8, <1>9, <1>10, <1>11, <1>12, <1>13, <1>14, <1>15
    DEF SettingsNext

LEMMA WholeAtFirst ==
  ASSUME SettingsInit
  PROVE  WholeInv
  <1>1. saved = NoFile /\ live = load(NoFile) /\ key = -1 /\ keyLost = FALSE /\ minted = 0
    BY DEF SettingsInit, NoKey
  <1>2. Shaped(NoFile.holds) /\ Keyed(NoFile.holds, key)
    BY DEF NoFile, Shaped, Keyed
  <1>3. KeyInv /\ SealInv /\ ZoneInv
    <2>1. step \in {"up", "down"} /\ rival = "idle"
      BY DEF SettingsInit
    <2>2. KeyInv
      BY <1>1, <2>1 DEF KeyInv
    <2>3. save = [previous |-> NoFile, merged |-> NoFile.holds, known |-> {}]
      BY DEF SettingsInit
    <2>4. SealInv
      BY <1>1, <1>2, <2>3 DEF SealInv
    <2>5. ZoneInv
      BY DEF SettingsInit, ZoneInv, ZoneOf
    <2> QED
      BY <2>2, <2>4, <2>5
  <1>4. live = LoadIn(env, saved)
    BY <1>1, <1>2, KeyedOpens, LoadOpened
  <1>5. Problems(live) = {} => live.values["TZ"] = zone
    BY <1>1, ZoneStands DEF SettingsInit
  <1>6. (step = "up" /\ Problems(live) = {}) \/ step = "down"
    BY DEF SettingsInit
  <1>7. SaveInv
    BY <1>4, <1>5, <1>6 DEF SaveInv, Before, Saving, Applied, Clean
  <1> QED
    BY <1>3, <1>7 DEF WholeInv

\* settings.py's update, with keystore.ensure under it: the key is filled by the one
\* that made it, what the page sealed opens, and a save that is undone goes back to
\* a file a start takes.
THEOREM WholeInvHolds == SettingsSpec => []WholeInv
  <1>1. ASSUME WholeInv, [SettingsNext]_settingsVars PROVE WholeInv'
    <2>1. CASE SettingsNext
      BY <1>1, <2>1, KeyKept, SealKept, ZoneKept, SaveKept DEF WholeInv
    <2>2. CASE UNCHANGED settingsVars
      BY <1>1, <2>2
      DEF settingsVars, fileVars, keyVars, liveVars, WholeInv, KeyInv, SealInv, ZoneInv, SaveInv,
          Applied
    <2> QED
      BY <1>1, <2>1, <2>2
  <1> QED
    BY <1>1, WholeAtFirst, PTL DEF SettingsSpec

\* A change names settings, and so does what it makes of the file.
LEMMA MergedNames ==
  ASSUME NEW c \in Change, DOMAIN saved.holds \subseteq Setting
  PROVE  DOMAIN Merged(c) \subseteq Setting
  <1>1. DOMAIN c.values \subseteq Setting
    BY SettingsAssumption
  <1>2. DOMAIN Flat(c) \subseteq Setting
    <2>1. CASE c.kind = "remove"
      BY <2>1 DEF Flat, Fields
    <2>2. CASE c.kind = "create"
      BY <2>2 DEF Flat, Fields
    <2>3. CASE c.kind = "edit"
      <3>1. DOMAIN Flat(c) \subseteq DOMAIN c.values
        BY <2>3 DEF Flat
      <3> QED
        BY <1>1, <3>1
    <2>4. CASE c.kind \notin {"remove", "create", "edit"}
      <3>1. Flat(c) = c.values
        BY <2>4 DEF Flat
      <3> QED
        BY <1>1, <3>1
    <2> QED
      BY <2>1, <2>2, <2>3, <2>4
  <1>3. DOMAIN Merged(c) \subseteq DOMAIN saved.holds \cup DOMAIN Flat(c)
    BY DEF Merged
  <1> QED
    BY <1>2, <1>3

\* What a save may go back to is of the shape of the file.
NamesInv ==
  /\ SettingsTypeOK
  /\ save.previous.kind \in {"absent", "damaged", "settings"}
  /\ DOMAIN save.previous.holds \subseteq Setting

LEMMA NamesKept ==
  ASSUME NamesInv, KeyInv, KeyInv', SettingsNext
  PROVE  NamesInv'
  <1> DEFINE File(f) == /\ f.kind \in {"absent", "damaged", "settings"}
                        /\ DOMAIN f.holds \subseteq Setting
             Loaded(s) == DOMAIN s.values = Setting /\ s.sealed \subseteq Secret
             Steps == {"up", "sealing", "minting", "filling", "writing", "loading", "judging",
                       "undoing", "reloading", "down"}
  <1>1. /\ File(saved) /\ File(save.previous) /\ Loaded(live) /\ step \in Steps
        /\ DOMAIN save.merged \subseteq Setting /\ rival \in {"idle", "filling", "done"}
    BY DEF NamesInv, SettingsTypeOK
  <1>2. \A f : Loaded(load(f))
    BY LoadParts DEF Unopened
  <1>3. \A k : DOMAIN Sealed(save.merged, k) = DOMAIN save.merged
    BY DEF Sealed
  <1>4. File(NoFile) /\ File([NoFile EXCEPT !.kind = "damaged"])
    BY DEF NoFile
  <1>5. \A n \in Setting : \A text : File(WithText(n, text))
    BY <1>1 DEF WithText
  <1> HIDE DEF File, Loaded, Steps
  <1>6. File(saved')
    <2>1. CASE UNCHANGED saved
      BY <1>1, <2>1
    <2>2. CASE WriteMerged
      BY <1>1, <2>2 DEF WriteMerged, File
    <2>3. CASE Undo
      BY <1>1, <2>3 DEF Undo
    <2>4. CASE Tamper
      BY <1>1, <1>4, <1>5, <2>4 DEF Tamper, fileVars
    <2> QED
      BY <2>1, <2>2, <2>3, <2>4
      DEF SettingsNext, BeginSave, LookForKey, CreateKey, FillKey, LoadMerged, JudgeSave, Reload,
          RivalMints, Stop, Start, fileVars
  <1>7. File(save'.previous) /\ DOMAIN save'.merged \subseteq Setting
    <2>1. CASE UNCHANGED save
      BY <1>1, <2>1
    <2>2. CASE BeginSave
      <3>1. PICK c \in Change :
              save' = [previous |-> saved, merged |-> Merged(c), known |-> Problems(live)]
        BY <2>2 DEF BeginSave
      <3> QED
        BY <1>1, <3>1, MergedNames DEF File
    <2>3. ASSUME NEW k, save' = [save EXCEPT !.merged = Sealed(@, k)]
          PROVE  File(save'.previous) /\ DOMAIN save'.merged \subseteq Setting
      <3>1. save'.previous = save.previous /\ save'.merged = Sealed(save.merged, k)
        BY <2>3
      <3> QED
        BY <1>1, <1>3, <3>1
    <2>4. CASE Seal
      BY <2>1, <2>3, <2>4 DEF Seal
    <2>5. CASE FillKey
      BY <2>1, <2>3, <2>5 DEF FillKey
    <2> QED
      BY <2>1, <2>2, <2>4, <2>5
      DEF SettingsNext, LookForKey, CreateKey, WriteMerged, LoadMerged, JudgeSave, Undo, Reload,
          RivalMints, Tamper, Stop, Start
  <1>8. Loaded(live')
    BY <1>1, <1>2
    DEF SettingsNext, BeginSave, LookForKey, CreateKey, FillKey, WriteMerged, LoadMerged,
        JudgeSave, Undo, Reload, RivalMints, Tamper, Stop, Start, PutInForce, liveVars
  <1>9. step' \in Steps
    BY <1>1
    DEF Steps, SettingsNext, BeginSave, LookForKey, CreateKey, Seal, FillKey, WriteMerged,
        LoadMerged, JudgeSave, Undo, Reload, RivalMints, Tamper, Stop, Start
  <1>10. rival' \in {"idle", "filling", "done"}
    BY <1>1
    DEF SettingsNext, BeginSave, LookForKey, CreateKey, FillKey, WriteMerged, LoadMerged,
        JudgeSave, Undo, Reload, RivalMints, Tamper, Stop, Start
  <1> QED
    BY <1>6, <1>7, <1>8, <1>9, <1>10 DEF NamesInv, SettingsTypeOK, KeyInv, File, Loaded, Steps

\* Settings have their types: files and saves name settings only, what is sealed are
\* credentials, and the key is one that was drawn (settings.py, keystore.py).
THEOREM SettingsTypeCorrect == SettingsSpec => []SettingsTypeOK
  <1>1. SettingsInit => NamesInv
    <2>1. SUFFICES ASSUME SettingsInit PROVE NamesInv
      OBVIOUS
    <2>2. /\ NoFile.kind \in {"absent", "damaged", "settings"}
          /\ DOMAIN NoFile.holds \subseteq Setting
      BY DEF NoFile
    <2>3. DOMAIN load(NoFile).values = Setting /\ load(NoFile).sealed \subseteq Secret
      BY LoadParts DEF Unopened
    <2> QED
      BY <2>1, <2>2, <2>3 DEF SettingsInit, NamesInv, SettingsTypeOK, NoKey
  <1>2. NamesInv /\ WholeInv /\ WholeInv' /\ [SettingsNext]_settingsVars => NamesInv'
    <2>1. SUFFICES ASSUME NamesInv, WholeInv, WholeInv', [SettingsNext]_settingsVars
                   PROVE  NamesInv'
      OBVIOUS
    <2>2. CASE SettingsNext
      BY <2>1, <2>2, NamesKept DEF WholeInv
    <2>3. CASE UNCHANGED settingsVars
      BY <2>1, <2>3
      DEF settingsVars, fileVars, keyVars, liveVars, NamesInv, SettingsTypeOK
    <2> QED
      BY <2>1, <2>2, <2>3
  <1>3. NamesInv => SettingsTypeOK
    BY DEF NamesInv
  <1> QED
    BY <1>1, <1>2, <1>3, WholeInvHolds, PTL DEF SettingsSpec

\* Between saves the settings in force are what a start would load and take, with
\* every credential the page sealed open and libc in the saved zone, whatever was
\* saved, undone, sealed under a key another process made, or cut short: settings.py's
\* "a change that would refuse startup is rolled back whole".
THEOREM SavesStayWhole == SettingsSpec => []SavesAreWhole
  <1>1. WholeInv => SavesAreWhole
    <2>1. SUFFICES ASSUME WholeInv, step = "up", ~tainted
                   PROVE  /\ Problems(live) = {} /\ live.values["TZ"] = zone
                          /\ (~keyLost => live = load(saved) /\ live.sealed = {})
      BY DEF SavesAreWhole
    <2>2. Problems(live) = {} /\ Applied
      BY <2>1 DEF WholeInv, SaveInv, Before
    <2>3. ~keyLost => load(saved) = LoadIn(env, saved)
      BY <2>1, KeyedOpens, LoadOpened DEF WholeInv, SealInv
    <2> QED
      BY <2>2, <2>3 DEF Applied, LoadIn
  <1> QED
    BY <1>1, WholeInvHolds, PTL
=============================================================================
