----------------------------- MODULE ImportsProofs -----------------------------
(***************************************************************************)
(* What holds of deliveries for any jobs, runs and files.                   *)
(***************************************************************************)
EXTENDS Imports, TLAPS

-----------------------------------------------------------------------------
(***************************************************************************)
(* Types.                                                                  *)
(***************************************************************************)

\* A job's run and file are runs and files of the instance.
LEMMA JobParts == \A j \in Jobs : RunOf[j] \in Runs /\ PathOf[j] \in Paths
  BY DEF Runs, Paths

\* retire_run forgets a run's control and its stop together.
LEMMA RetireTypes ==
  ASSUME NEW r, NEW fills, NEW unbooked, open \subseteq Runs, stopping \subseteq open,
         Retire(r, fills, unbooked)
  PROVE  open' \subseteq Runs /\ stopping' \subseteq open'
  BY DEF Retire

\* A handover's step is recorded for its producer and job alone.
LEMMA HandTypes ==
  ASSUME TypeOK, NEW p \in Producers, NEW j \in Jobs,
         NEW step \in {"none", "found", "popped", "opened", "claimed", "sealing",
                       "refused"},
         Hand(p, j, step)
  PROVE  /\ handing' \in [Producers -> [Jobs -> {"none", "found", "popped", "opened",
                                                  "claimed", "sealing", "refused"}]]
         /\ handing'[p][j] = step
         /\ \A q \in Producers, i \in Jobs :
               q # p \/ i # j => handing'[q][i] = handing[q][i]
  BY DEF TypeOK, Hand

\* What a write of parked.json leaves.
LEMMA SaveTypes ==
  ASSUME TypeOK, Save(parked)
  PROVE  disk' \in [Paths -> Jobs \cup {Nobody}] /\ unwritten' \in BOOLEAN
  BY DEF TypeOK, Save

\* The initial state is typed.
LEMMA InitTypes == Init => TypeOK
  <1> SUFFICES ASSUME Init PROVE TypeOK
    OBVIOUS
  <1>1. parking \in BOOLEAN /\ closed \in BOOLEAN /\ unwritten \in BOOLEAN
          /\ dirty \in BOOLEAN
    BY Zenon DEF Init
  <1>2. /\ linked \subseteq Paths /\ gone \subseteq Paths /\ inflight \subseteq Paths
        /\ skipped \subseteq Jobs /\ open \subseteq Runs /\ filling \subseteq Runs
        /\ stopping \subseteq open /\ batch \subseteq Jobs /\ owed \subseteq Paths
    BY DEF Init
  <1>3. /\ parked \in [Paths -> Jobs \cup {Nobody}] /\ disk \in [Paths -> Jobs \cup {Nobody}]
        /\ toHand \in [Runs -> SUBSET Jobs]
    BY DEF Init
  <1>4. /\ stage \in [Jobs -> {"absent", "queued", "checked", "saving", "ending",
                               "booked"}]
        /\ lane \in [Jobs -> {"probe", "work"}]
        /\ hook \in [Runs -> {"new", "filling", "answered", "failed"}]
        /\ recheck \in {"idle", "unlinked", "all"}
    BY DEF Init
  <1>5. handing \in [Producers -> [Jobs -> {"none", "found", "popped", "opened", "claimed",
                                            "sealing", "refused"}]]
    BY DEF Init
  <1> QED
    BY <1>1, <1>2, <1>3, <1>4, <1>5 DEF TypeOK

\* The webhook's steps keep the types.
LEMMA WebhookTypes == TypeOK /\ Webhook => TypeOK'
  <1> SUFFICES ASSUME TypeOK, Webhook PROVE TypeOK'
    OBVIOUS
  <1> USE JobParts
  <1>1. ASSUME NEW r \in Runs, Receive(r) PROVE TypeOK'
    BY <1>1 DEF TypeOK, Receive, files, queue, records, pass
  <1>2. ASSUME NEW r \in Runs, SealRequest(r) PROVE TypeOK'
    <2>1. open' \subseteq Runs /\ stopping' \subseteq open'
      BY <1>2, RetireTypes DEF SealRequest, Seal, TypeOK
    <2> QED
      BY <1>2, <2>1 DEF TypeOK, SealRequest, Seal, files, queue, records, pass
  <1>3. ASSUME NEW j \in Jobs, TakeFile(j) PROVE TypeOK'
    BY <1>3 DEF TypeOK, TakeFile, Hand, Producers, files, queue, controls, records, pass
  <1>4. ASSUME NEW j \in Jobs, NEW p \in Producers, HandOver(p, j) PROVE TypeOK'
    <2>1. CASE Claim(p, j)
      <3>1. inflight' \subseteq Paths
        BY <2>1 DEF TypeOK, Claim
      <3>2. handing' \in [Producers -> [Jobs -> {"none", "found", "popped", "opened", "claimed",
                                                 "sealing", "refused"}]]
        <4>1. \E step \in {"none", "sealing", "claimed"} :
                 handing' = [handing EXCEPT ![p][j] = step]
          BY <2>1 DEF Claim, Hand
        <4> QED
          BY <4>1 DEF TypeOK
      <3> QED
        BY <2>1, <3>1, <3>2 DEF TypeOK, Claim, files, controls, records, request, pass
    <2>2. CASE Submit(p, j)
      BY <2>2 DEF TypeOK, Submit, Hand, files, controls, records, request, pass
    <2>3. CASE Refused(p, j)
      BY <2>3 DEF TypeOK, Refused, Hand, files, controls, records, pass
    <2> QED
      BY <1>4, <2>1, <2>2, <2>3 DEF HandOver
  <1> QED
    BY <1>1, <1>2, <1>3, <1>4 DEF Webhook, Producers

\* A worker's steps through a job keep the types.
LEMMA WorkTypes == TypeOK /\ (\E j \in Jobs : Work(j)) => TypeOK'
  <1> SUFFICES ASSUME TypeOK, NEW j \in Jobs, Work(j) PROVE TypeOK'
    OBVIOUS
  <1> USE JobParts
  <1>1. CASE LeaveAlone(j) \/ Check(j)
    BY <1>1 DEF TypeOK, LeaveAlone, Check, Step, files, controls, records, request, pass
  <1>2. CASE Park(j)
    BY <1>2 DEF TypeOK, Park, Step, files, controls, request, pass
  <1>3. CASE SaveParked(j)
    BY <1>3, SaveTypes DEF TypeOK, SaveParked, Step, files, controls, request, pass
  <1>4. CASE Process(j)
    BY <1>4 DEF TypeOK, Process, Continues, Judged, Step, files, controls, records,
                request, pass
  <1>5. CASE Book(j)
    <2>1. open' \subseteq Runs /\ stopping' \subseteq open'
      BY <1>5, RetireTypes DEF Book, TypeOK
    <2> QED
      BY <1>5, <2>1 DEF TypeOK, Book, Step, files, records, request, pass
  <1>6. CASE Unclaim(j)
    BY <1>6 DEF TypeOK, Unclaim, Step, files, controls, records, request, pass
  <1> QED
    BY <1>1, <1>2, <1>3, <1>4, <1>5, <1>6 DEF Work

\* The recheck thread's steps keep the types.
LEMMA RecheckTypes == TypeOK /\ Rechecking => TypeOK'
  <1> SUFFICES ASSUME TypeOK, Rechecking PROVE TypeOK'
    OBVIOUS
  <1> USE JobParts
  <1>1. CASE Begin
    <2>1. {parked[p] : p \in Paths} \ {Nobody} \subseteq Jobs
      BY DEF TypeOK
    <2> QED
      BY <1>1, <2>1 DEF TypeOK, Begin, files, queue, controls, records, request
  <1>2. CASE Finish
    <2>1. disk' \in [Paths -> Jobs \cup {Nobody}] /\ unwritten' \in BOOLEAN
      BY <1>2, SaveTypes DEF Finish, TypeOK
    <2> QED
      BY <1>2, <2>1 DEF TypeOK, Finish, files, queue, controls, request
  <1>3. ASSUME NEW j \in Jobs, LeaveParked(j) PROVE TypeOK'
    BY <1>3 DEF TypeOK, LeaveParked, files, queue, controls, records, request
  <1>4. ASSUME NEW j \in Jobs, Find(j) \/ Pop(j) PROVE TypeOK'
    <2>1. CASE Find(j)
      BY <2>1 DEF TypeOK, Find, Hand, Producers, files, queue, controls, records, request
    <2>2. CASE Pop(j)
      <3>1. dirty' \in BOOLEAN
        BY <2>2, Zenon DEF Pop
      <3> QED
        BY <2>2, <3>1 DEF TypeOK, Pop, Hand, Producers, files, queue, controls, request
    <2> QED
      BY <1>4, <2>1, <2>2
  <1>5. ASSUME NEW j \in Jobs, Vanished(j) \/ Reopen(j) PROVE TypeOK'
    BY <1>5 DEF TypeOK, Vanished, Reopen, Hand, Producers, files, queue, controls, records,
                request, pass
  <1>6. ASSUME NEW j \in Jobs, SealRelease(j) PROVE TypeOK'
    <2>1. open' \subseteq Runs /\ stopping' \subseteq open'
      BY <1>6, RetireTypes DEF SealRelease, Seal, TypeOK
    <2> QED
      BY <1>6, <2>1 DEF TypeOK, SealRelease, Seal, Hand, Producers, files, queue, records,
                        request, pass
  <1>7. ASSUME NEW j \in Jobs, PutBack(j) PROVE TypeOK'
    BY <1>7 DEF TypeOK, PutBack, Hand, Producers, files, queue, controls, request
  <1>8. ASSUME NEW j \in Jobs, HandOver("recheck", j) PROVE TypeOK'
    <2>1. CASE Claim("recheck", j)
      BY <2>1 DEF TypeOK, Claim, Hand, Producers, files, controls, records, request, pass
    <2>2. CASE Submit("recheck", j)
      BY <2>2 DEF TypeOK, Submit, Hand, Producers, files, controls, records, request, pass
    <2>3. CASE Refused("recheck", j)
      BY <2>3 DEF TypeOK, Refused, Hand, Producers, files, controls, records, pass
    <2> QED
      BY <1>8, <2>1, <2>2, <2>3 DEF HandOver
  <1> QED
    BY <1>1, <1>2, <1>3, <1>4, <1>5, <1>6, <1>7, <1>8 DEF Rechecking, Release

\* What happens around the jobs, and a restart, keep the types.
LEMMA AroundTypes == TypeOK /\ (Around \/ Restart) => TypeOK'
  <1> SUFFICES ASSUME TypeOK, Around \/ Restart PROVE TypeOK'
    OBVIOUS
  <1>1. ASSUME NEW p \in Paths, Unlink(p) \/ Vanish(p) PROVE TypeOK'
    BY <1>1 DEF TypeOK, Unlink, Vanish, queue, controls, records, request, pass
  <1>2. CASE SetParking
    <2>1. parking' \in BOOLEAN
      BY <1>2, Zenon DEF SetParking
    <2> QED
      BY <1>2, <2>1 DEF TypeOK, SetParking, queue, controls, records, request, pass
  <1>3. ASSUME NEW r \in Runs, StopRun(r) PROVE TypeOK'
    BY <1>3 DEF TypeOK, StopRun, files, queue, records, request, pass
  <1>4. ASSUME NEW j \in Jobs, SkipFile(j) PROVE TypeOK'
    BY <1>4 DEF TypeOK, SkipFile, files, controls, records, request, pass
  <1>5. CASE Close
    <2>1. closed' \in BOOLEAN
      BY <1>5, Zenon DEF Close
    <2> QED
      BY <1>5, <2>1 DEF TypeOK, Close, files, queue, records, request, pass
  <1>6. CASE Restart
    <2>1. /\ handing' \in [Producers -> [Jobs -> {"none", "found", "popped", "opened",
                                                  "claimed", "sealing", "refused"}]]
          /\ stage' \in [Jobs -> {"absent", "queued", "checked", "saving", "ending",
                                  "booked"}]
          /\ lane' \in [Jobs -> {"probe", "work"}]
      BY <1>6 DEF Restart
    <2>2. /\ parked' \in [Paths -> Jobs \cup {Nobody}]
          /\ disk' \in [Paths -> Jobs \cup {Nobody}]
          /\ hook' \in [Runs -> {"new", "filling", "answered", "failed"}]
          /\ toHand' \in [Runs -> SUBSET Jobs]
      BY <1>6 DEF Restart, TypeOK
    <2>3. closed' \in BOOLEAN /\ unwritten' \in BOOLEAN /\ dirty' \in BOOLEAN
      BY <1>6, Zenon DEF Restart
    <2>4. parking' \in BOOLEAN
      BY <1>6, Zenon DEF Restart, TypeOK, files
    <2> QED
      BY <1>6, <2>1, <2>2, <2>3, <2>4 DEF Restart, TypeOK, files
  <1> QED
    BY <1>1, <1>2, <1>3, <1>4, <1>5, <1>6 DEF Around

\* Every step keeps the types.
LEMMA TypesKept == TypeOK /\ [Next]_vars => TypeOK'
  <1> SUFFICES ASSUME TypeOK, [Next]_vars PROVE TypeOK'
    OBVIOUS
  <1>1. CASE UNCHANGED vars
    BY <1>1, Zenon DEF TypeOK, vars, files, queue, controls, records, request, pass
  <1> QED
    BY <1>1, WebhookTypes, WorkTypes, RecheckTypes, AroundTypes DEF Next

-----------------------------------------------------------------------------
(***************************************************************************)
(* The claims on paths, and parked.json.                                    *)
(***************************************************************************)

\* What a recheck pass drops it also remembers to save: a released job's pass is
\* dirty until it saves (recheck_parked).
PassKnows ==
  \A j \in Jobs : handing["recheck"][j] \in {"popped", "opened", "claimed", "sealing",
                                             "refused"} => dirty

\* The inductive invariant.
DeliveryInv == TypeOK /\ OneJobPerPath /\ DiskFollowsMemory /\ PassKnows

\* A step that neither makes nor ends a claim keeps the claims.
LEMMA ClaimsKept ==
  ASSUME OneJobPerPath, inflight' = inflight,
         \A j \in Jobs : stage'[j] = "absent" <=> stage[j] = "absent",
         \A p \in Producers, j \in Jobs :
            handing'[p][j] = "claimed" <=> handing[p][j] = "claimed"
  PROVE  OneJobPerPath'
  <1>1. \A j \in Jobs : Claims(j)' = Claims(j)
    BY DEF Claims
  <1> QED
    BY <1>1 DEF OneJobPerPath

\* A step that only takes a job's claim one step further keeps the claims.
LEMMA ClaimMoves ==
  ASSUME OneJobPerPath, inflight' = inflight, NEW j \in Jobs,
         Claims(j) # {}, Claims(j)' # {}, \A p, q \in Claims(j)' : p = q,
         \A i \in Jobs \ {j} : Claims(i)' = Claims(i)
  PROVE  OneJobPerPath'
  BY DEF OneJobPerPath

\* A new claim is on a path nobody has.
LEMMA ClaimMade ==
  ASSUME OneJobPerPath, NEW j \in Jobs, PathOf[j] \notin inflight,
         inflight' = inflight \cup {PathOf[j]},
         Claims(j)' # {}, \A p, q \in Claims(j)' : p = q,
         \A i \in Jobs \ {j} : Claims(i)' = Claims(i)
  PROVE  OneJobPerPath'
  BY DEF OneJobPerPath

\* A claim that ends gives its path back.
LEMMA ClaimEnded ==
  ASSUME OneJobPerPath, NEW j \in Jobs, Claims(j) # {},
         inflight' = inflight \ {PathOf[j]}, Claims(j)' = {},
         \A i \in Jobs \ {j} : Claims(i)' = Claims(i)
  PROVE  OneJobPerPath'
  BY DEF OneJobPerPath

\* A step that leaves parked.json, the parked set and the writers alone.
LEMMA DiskKept ==
  ASSUME DiskFollowsMemory, UNCHANGED records, dirty => dirty',
         \A j \in Jobs : stage[j] = "saving" => stage'[j] = "saving"
  PROVE  DiskFollowsMemory'
  BY DEF DiskFollowsMemory, records

\* The recheck's handovers that go on do so in a dirty pass.
LEMMA PassKept ==
  ASSUME PassKnows, dirty => dirty',
         \A j \in Jobs : handing'["recheck"][j] \in {"popped", "opened", "claimed",
                                                     "sealing", "refused"}
            => \/ handing["recheck"][j] \in {"popped", "opened", "claimed", "sealing",
                                            "refused"}
               \/ dirty'
  PROVE  PassKnows'
  BY DEF PassKnows

\* enqueue's claim and lifecycle.submit_import's admission, from either producer.
LEMMA HandOverKept ==
  ASSUME DeliveryInv, TypeOK', NEW p \in Producers, NEW j \in Jobs, HandOver(p, j)
  PROVE  DeliveryInv'
  <1> USE JobParts DEF Producers
  <1>1. TypeOK /\ OneJobPerPath /\ DiskFollowsMemory /\ PassKnows
    BY DEF DeliveryInv
  <1>2. CASE Claim(p, j)
    <2>1. DiskFollowsMemory'
      BY <1>1, <1>2, DiskKept DEF Claim, pass
    <2>2. PassKnows'
      BY <1>1, <1>2 DEF TypeOK, PassKnows, Claim, Hand, pass
    <2>3. CASE PathOf[j] \in inflight
      <3>1. \A q \in Producers, i \in Jobs :
               handing'[q][i] = "claimed" <=> handing[q][i] = "claimed"
        BY <1>1, <1>2, <2>3 DEF TypeOK, Claim, Hand
      <3>2. OneJobPerPath'
        BY <1>1, <1>2, <2>3, <3>1, ClaimsKept DEF Claim
      <3> QED
        BY <2>1, <2>2, <3>2 DEF DeliveryInv
    <2>4. CASE PathOf[j] \notin inflight
      <3>1. handing'[p][j] = "claimed" /\ stage' = stage
            /\ \A q \in Producers, i \in Jobs :
                  q # p \/ i # j => handing'[q][i] = handing[q][i]
        BY <1>1, <1>2, <2>4 DEF TypeOK, Claim, Hand
      <3>2. Claims(j) = {}
        BY <1>1, <2>4 DEF OneJobPerPath
      <3>3. Claims(j)' = {p} /\ \A i \in Jobs \ {j} : Claims(i)' = Claims(i)
        BY <3>1, <3>2 DEF Claims
      <3>4. inflight' = inflight \cup {PathOf[j]}
        BY <1>2, <2>4 DEF Claim
      <3>5. OneJobPerPath'
        BY <1>1, <2>4, <3>3, <3>4, ClaimMade
      <3> QED
        BY <2>1, <2>2, <3>5 DEF DeliveryInv
    <2> QED
      BY <2>3, <2>4
  <1>3. CASE Submit(p, j)
    <2>1. PassKnows'
      BY <1>1, <1>3 DEF TypeOK, PassKnows, Submit, Hand, pass
    <2>2. handing[p][j] = "claimed" /\ handing'[p][j] # "claimed"
            /\ \A q \in Producers, i \in Jobs :
                  q # p \/ i # j => handing'[q][i] = handing[q][i]
      BY <1>1, <1>3 DEF TypeOK, Submit, Hand
    <2>3. p \in Claims(j) /\ \A q \in Claims(j) : q = p
      BY <1>1, <2>2 DEF OneJobPerPath, Claims
    <2>4. stage[j] = "absent"
      BY <2>3 DEF Claims
    <2>5. DiskFollowsMemory'
      BY <1>1, <1>3, <2>4, DiskKept DEF Submit, pass, TypeOK
    <2>6. Claims(j)' = {"queue"} /\ \A i \in Jobs \ {j} : Claims(i)' = Claims(i)
      BY <1>1, <1>3, <2>2, <2>3 DEF Claims, Submit, TypeOK
    <2>7. OneJobPerPath'
      BY <1>1, <1>3, <2>3, <2>6, ClaimMoves DEF Submit
    <2> QED
      BY <2>1, <2>5, <2>7 DEF DeliveryInv
  <1>4. CASE Refused(p, j)
    <2>1. DiskFollowsMemory'
      BY <1>1, <1>4, DiskKept DEF Refused, pass
    <2>2. PassKnows'
      BY <1>1, <1>4 DEF TypeOK, PassKnows, Refused, Hand, pass
    <2>3. handing[p][j] = "claimed" /\ handing'[p][j] # "claimed"
            /\ \A q \in Producers, i \in Jobs :
                  q # p \/ i # j => handing'[q][i] = handing[q][i]
      BY <1>1, <1>4 DEF TypeOK, Refused, Hand
    <2>4. p \in Claims(j) /\ \A q \in Claims(j) : q = p
      BY <1>1, <2>3 DEF OneJobPerPath, Claims
    <2>5. Claims(j)' = {} /\ \A i \in Jobs \ {j} : Claims(i)' = Claims(i)
      BY <1>4, <2>3, <2>4 DEF Claims, Refused
    <2>6. OneJobPerPath'
      BY <1>1, <1>4, <2>4, <2>5, ClaimEnded DEF Refused
    <2> QED
      BY <2>1, <2>2, <2>6 DEF DeliveryInv
  <1> QED
    BY <1>2, <1>3, <1>4 DEF HandOver

\* The webhook's request makes no claim of its own and writes no record.
LEMMA WebhookKept ==
  ASSUME DeliveryInv, TypeOK', Webhook
  PROVE  DeliveryInv'
  <1> USE JobParts DEF Producers
  <1>1. TypeOK /\ OneJobPerPath /\ DiskFollowsMemory /\ PassKnows
    BY DEF DeliveryInv
  <1>2. ASSUME NEW r \in Runs, Receive(r) \/ SealRequest(r) PROVE DeliveryInv'
    <2>1. UNCHANGED <<handing, queue, records, pass>>
      BY <1>2 DEF Receive, SealRequest, Seal
    <2>2. OneJobPerPath'
      BY <1>1, <2>1, ClaimsKept DEF queue
    <2>3. DiskFollowsMemory' /\ PassKnows'
      BY <1>1, <2>1, DiskKept, PassKept DEF queue, pass
    <2> QED
      BY <2>2, <2>3 DEF DeliveryInv
  <1>3. ASSUME NEW j \in Jobs, TakeFile(j) PROVE DeliveryInv'
    <2>1. UNCHANGED <<queue, records, pass>>
      BY <1>3 DEF TakeFile
    <2>2. handing["webhook"][j] = "none"
      BY <1>3 DEF TakeFile
    <2>3. /\ handing'["recheck"] = handing["recheck"]
          /\ \A p \in Producers, i \in Jobs :
                handing'[p][i] = "claimed" <=> handing[p][i] = "claimed"
      BY <1>1, <1>3, <2>2 DEF TypeOK, TakeFile, Hand
    <2>4. OneJobPerPath'
      BY <1>1, <2>1, <2>3, ClaimsKept DEF queue
    <2>5. DiskFollowsMemory' /\ PassKnows'
      BY <1>1, <2>1, <2>3, DiskKept, PassKept DEF queue, pass
    <2> QED
      BY <2>4, <2>5 DEF DeliveryInv
  <1>4. ASSUME NEW j \in Jobs, HandOver("webhook", j) PROVE DeliveryInv'
    BY <1>4, HandOverKept
  <1> QED
    BY <1>2, <1>3, <1>4 DEF Webhook

\* A worker's way through a job keeps its claim until the callback's last step,
\* and writes parked.json from the set it finds.
LEMMA WorkKept ==
  ASSUME DeliveryInv, TypeOK', NEW j \in Jobs, Work(j)
  PROVE  DeliveryInv'
  <1> USE JobParts
  <1>1. TypeOK /\ OneJobPerPath /\ DiskFollowsMemory /\ PassKnows
    BY DEF DeliveryInv
  <1>2. UNCHANGED <<handing, pass>>
    BY DEF Work, LeaveAlone, Check, Park, SaveParked, Process, Book, Unclaim
  <1>3. PassKnows'
    BY <1>1, <1>2, PassKept DEF pass
  <1>4. CASE LeaveAlone(j) \/ Check(j) \/ Process(j) \/ Book(j)
    <2>1. /\ UNCHANGED <<inflight, records>>
          /\ \A i \in Jobs : /\ stage'[i] = "absent" <=> stage[i] = "absent"
                             /\ stage[i] = "saving" => stage'[i] = "saving"
      BY <1>1, <1>4 DEF TypeOK, LeaveAlone, Check, Process, Continues, Judged, Book, Step
    <2> QED
      BY <1>1, <1>2, <1>3, <2>1, ClaimsKept, DiskKept DEF DeliveryInv, pass
  <1>5. CASE Park(j)
    <2>1. /\ UNCHANGED inflight
          /\ \A i \in Jobs : stage'[i] = "absent" <=> stage[i] = "absent"
          /\ stage'[j] = "saving"
      BY <1>1, <1>5 DEF TypeOK, Park, Step
    <2>2. OneJobPerPath'
      BY <1>1, <1>2, <2>1, ClaimsKept
    <2> QED
      BY <1>3, <2>1, <2>2 DEF DeliveryInv, DiskFollowsMemory
  <1>6. CASE SaveParked(j)
    <2>1. /\ UNCHANGED <<inflight, parked>>
          /\ \A i \in Jobs : stage'[i] = "absent" <=> stage[i] = "absent"
          /\ disk' = parked \/ unwritten'
      BY <1>1, <1>6 DEF TypeOK, SaveParked, Step, Save
    <2>2. OneJobPerPath'
      BY <1>1, <1>2, <2>1, ClaimsKept
    <2> QED
      BY <1>3, <2>1, <2>2 DEF DeliveryInv, DiskFollowsMemory
  <1>7. CASE Unclaim(j)
    <2>1. /\ stage[j] = "booked" /\ stage'[j] = "absent"
          /\ \A i \in Jobs \ {j} : stage'[i] = stage[i]
          /\ UNCHANGED records /\ inflight' = inflight \ {PathOf[j]}
      BY <1>1, <1>7 DEF TypeOK, Unclaim, Step
    <2>2. "queue" \in Claims(j) /\ \A q \in Claims(j) : q = "queue"
      BY <1>1, <2>1 DEF OneJobPerPath, Claims
    <2>3. Claims(j)' = {} /\ \A i \in Jobs \ {j} : Claims(i)' = Claims(i)
      BY <1>2, <2>1, <2>2 DEF Claims, Producers
    <2>4. OneJobPerPath'
      BY <1>1, <2>1, <2>2, <2>3, ClaimEnded
    <2>5. DiskFollowsMemory'
      BY <1>1, <1>2, <2>1, DiskKept DEF pass
    <2> QED
      BY <1>3, <2>4, <2>5 DEF DeliveryInv
  <1> QED
    BY <1>4, <1>5, <1>6, <1>7 DEF Work

\* The recheck's steps: a dropped record leaves the pass dirty until it saves.
LEMMA RecheckKept ==
  ASSUME DeliveryInv, TypeOK', Rechecking
  PROVE  DeliveryInv'
  <1> USE JobParts DEF Producers
  <1>1. TypeOK /\ OneJobPerPath /\ DiskFollowsMemory /\ PassKnows
    BY DEF DeliveryInv
  <1>2. CASE Begin
    BY <1>1, <1>2, ClaimsKept, DiskKept, PassKept DEF Begin, DeliveryInv, queue
  <1>3. CASE Finish
    <2>1. UNCHANGED <<queue, handing>> /\ UNCHANGED parked
      BY <1>3 DEF Finish
    <2>2. OneJobPerPath'
      BY <1>1, <2>1, ClaimsKept DEF queue
    <2>3. DiskFollowsMemory'
      BY <1>1, <1>3, <2>1 DEF DiskFollowsMemory, Finish, Save, queue
    <2>4. PassKnows'
      BY <1>3, <2>1 DEF Finish, InHand, PassKnows
    <2> QED
      BY <2>2, <2>3, <2>4 DEF DeliveryInv
  <1>4. ASSUME NEW j \in Jobs,
               LeaveParked(j) \/ Find(j) \/ Vanished(j) \/ Reopen(j) \/ SealRelease(j)
        PROVE  DeliveryInv'
    <2>1. UNCHANGED <<queue, records, dirty>>
      BY <1>4 DEF LeaveParked, Find, Vanished, Reopen, SealRelease, pass
    <2>2. \A p \in Producers, i \in Jobs :
             handing'[p][i] = "claimed" <=> handing[p][i] = "claimed"
      BY <1>1, <1>4 DEF TypeOK, LeaveParked, Find, Vanished, Reopen, SealRelease, Hand, InHand
    <2>3. \A i \in Jobs :
             handing'["recheck"][i] \in {"popped", "opened", "claimed", "sealing", "refused"}
               => handing["recheck"][i] \in {"popped", "opened", "claimed", "sealing",
                                           "refused"}
      BY <1>1, <1>4 DEF TypeOK, LeaveParked, Find, Vanished, Reopen, SealRelease, Hand, InHand
    <2>4. OneJobPerPath'
      BY <1>1, <2>1, <2>2, ClaimsKept DEF queue
    <2>5. DiskFollowsMemory' /\ PassKnows'
      BY <1>1, <2>1, <2>3, DiskKept, PassKept DEF queue
    <2> QED
      BY <2>4, <2>5 DEF DeliveryInv
  <1>5. ASSUME NEW j \in Jobs, Pop(j) PROVE DeliveryInv'
    <2>1. UNCHANGED queue /\ dirty' = TRUE
      BY <1>5 DEF Pop
    <2>2. \A p \in Producers, i \in Jobs :
             handing'[p][i] = "claimed" <=> handing[p][i] = "claimed"
      BY <1>1, <1>5 DEF TypeOK, Pop, Hand
    <2>3. OneJobPerPath'
      BY <1>1, <2>1, <2>2, ClaimsKept DEF queue
    <2> QED
      BY <2>1, <2>3 DEF DeliveryInv, DiskFollowsMemory, PassKnows
  <1>6. ASSUME NEW j \in Jobs, PutBack(j) PROVE DeliveryInv'
    <2>1. UNCHANGED queue /\ dirty' = dirty /\ dirty
      BY <1>1, <1>6 DEF PutBack, PassKnows
    <2>2. \A p \in Producers, i \in Jobs :
             handing'[p][i] = "claimed" <=> handing[p][i] = "claimed"
      BY <1>1, <1>6 DEF TypeOK, PutBack, Hand
    <2>3. OneJobPerPath'
      BY <1>1, <2>1, <2>2, ClaimsKept DEF queue
    <2> QED
      BY <2>1, <2>3 DEF DeliveryInv, DiskFollowsMemory, PassKnows
  <1>7. ASSUME NEW j \in Jobs, HandOver("recheck", j) PROVE DeliveryInv'
    BY <1>7, HandOverKept
  <1> QED
    BY <1>2, <1>3, <1>4, <1>5, <1>6, <1>7 DEF Rechecking, Release

\* What happens around the jobs touches neither; a restart starts from the disk.
LEMMA AroundKept ==
  ASSUME DeliveryInv, TypeOK', Around \/ Restart
  PROVE  DeliveryInv'
  <1>1. TypeOK /\ OneJobPerPath /\ DiskFollowsMemory /\ PassKnows
    BY DEF DeliveryInv
  <1>2. CASE Around
    <2>1. UNCHANGED <<inflight, stage, records, handing, pass>>
      BY <1>2 DEF Around, Unlink, Vanish, SetParking, StopRun, SkipFile, Close, queue
    <2> QED
      BY <1>1, <2>1, ClaimsKept, DiskKept, PassKept DEF DeliveryInv, pass
  <1>3. CASE Restart
    <2>1. \A j \in Jobs : Claims(j)' = {}
      BY <1>3 DEF Restart, Claims
    <2>2. OneJobPerPath'
      BY <1>3, <2>1 DEF Restart, OneJobPerPath
    <2>3. DiskFollowsMemory'
      BY <1>3 DEF Restart, DiskFollowsMemory
    <2>4. PassKnows'
      BY <1>3 DEF Restart, PassKnows, Producers
    <2> QED
      BY <2>2, <2>3, <2>4 DEF DeliveryInv
  <1> QED
    BY <1>2, <1>3

-----------------------------------------------------------------------------
(***************************************************************************)
(* What keeps a run on the overview.                                       *)
(***************************************************************************)

\* The recheck's handover of a file has its run open.
Reopened == {"opened", "claimed", "sealing"}

\* A job that keeps its run: admitted and not booked, or on its way in.
Keeps(j) == j \in Unbooked \/ handing["recheck"][j] \in Reopened

Held(r) == hook[r] = "filling" \/ \E j \in Jobs : RunOf[j] = r /\ Keeps(j)

\* The inductive invariant.
RunsHeld ==
  /\ filling \subseteq open
  /\ ~closed => /\ \A r \in filling : hook[r] = "filling"
                /\ \A r \in open : Held(r)
IdleInv == TypeOK /\ RunsHeld

\* A step that leaves the controls alone and takes no run's last reason.
LEMMA HeldKept ==
  ASSUME IdleInv, UNCHANGED <<open, filling>>, closed => closed',
         ~closed => \A r \in open : hook[r] = "filling" => hook'[r] = "filling",
         ~closed => \A j \in Jobs : RunOf[j] \in open /\ Keeps(j) => Keeps(j)'
  PROVE  RunsHeld'
  BY DEF IdleInv, RunsHeld, Held

\* A run sealed or booked goes unless something still keeps it.
LEMMA RetireKept ==
  ASSUME IdleInv, NEW r, NEW fills, NEW unbooked, Retire(r, fills, unbooked),
         filling' = fills, fills \subseteq filling, filling \subseteq fills \cup {r},
         UNCHANGED closed,
         \A x \in fills : hook'[x] = hook[x],
         \A x \in open \ {r} : Held(x) => Held(x)',
         \A j \in unbooked : j \in Jobs /\ Keeps(j)'
  PROVE  RunsHeld'
  <1>1. fills \subseteq open'
    BY DEF IdleInv, RunsHeld, Retire, Retired
  <1>2. ASSUME ~closed' PROVE \A x \in filling' : hook'[x] = "filling"
    BY <1>2 DEF IdleInv, RunsHeld
  <1>3. ASSUME ~closed', NEW x \in open' PROVE Held(x)'
    <2>1. x \in open /\ (x = r => ~Retired(r, fills, unbooked))
      BY <1>3 DEF Retire
    <2>2. CASE x # r
      BY <1>3, <2>1, <2>2 DEF IdleInv, RunsHeld
    <2>3. CASE x = r /\ r \in fills
      BY <1>2, <1>3, <2>3 DEF Held
    <2>4. CASE x = r /\ \E j \in unbooked : RunOf[j] = r
      BY <2>4 DEF Held
    <2> QED
      BY <2>1, <2>2, <2>3, <2>4 DEF Retired
  <1> QED
    BY <1>1, <1>2, <1>3 DEF RunsHeld

\* A handover takes a file's run from its own hands into the queue.
LEMMA HandOverHeld ==
  ASSUME IdleInv, NEW p \in Producers, NEW j \in Jobs, HandOver(p, j)
  PROVE  RunsHeld'
  <1>1. TypeOK /\ p \in {"webhook", "recheck"} /\ RunOf[j] \in Runs
    BY JobParts DEF IdleInv, Producers
  <1>2. ASSUME NEW step, Hand(p, j, step)
        PROVE  /\ handing'[p][j] = step
               /\ \A q \in Producers, i \in Jobs :
                    q # p \/ i # j => handing'[q][i] = handing[q][i]
    BY <1>1, <1>2 DEF Hand, TypeOK
  <1>3. CASE Claim(p, j)
    <2>1. UNCHANGED <<open, filling, closed, hook, stage>> /\ handing[p][j] = "opened"
      BY <1>3 DEF Claim, controls, request
    <2>2. /\ handing'[p][j] \in {"claimed", "sealing", "none"}
          /\ handing'[p][j] = "none" => p = "webhook"
          /\ \A q \in Producers, i \in Jobs :
               q # p \/ i # j => handing'[q][i] = handing[q][i]
      BY <1>1, <1>2, <1>3 DEF Claim
    <2>3. \A i \in Jobs : Keeps(i) => Keeps(i)'
      BY <1>1, <2>1, <2>2 DEF Keeps, Reopened, Unbooked, Producers
    <2> QED
      BY <2>1, <2>3, HeldKept
  <1>4. CASE Submit(p, j)
    <2>1. /\ UNCHANGED <<open, filling, closed, hook>>
          /\ stage' = [stage EXCEPT ![j] = "queued"]
      BY <1>4 DEF Submit, controls, request
    <2>2. \A q \in Producers, i \in Jobs : i # j => handing'[q][i] = handing[q][i]
      BY <1>1, <1>2, <1>4 DEF Submit
    <2>3. \A i \in Jobs : stage'[i] = IF i = j THEN "queued" ELSE stage[i]
      BY <1>1, <2>1 DEF TypeOK
    <2>4. \A i \in Jobs : Keeps(i) => Keeps(i)'
      BY <1>1, <2>2, <2>3 DEF Keeps, Unbooked, Producers
    <2> QED
      BY <2>1, <2>4, HeldKept
  <1>5. CASE Refused(p, j)
    <2>1. /\ UNCHANGED <<open, filling, closed, stage>>
          /\ ~closed => RunOf[j] \notin open
          /\ \A r \in Runs : r # RunOf[j] => hook'[r] = hook[r]
      BY <1>1, <1>5 DEF Refused, Admissible, controls, TypeOK
    <2>2. \A q \in Producers, i \in Jobs : i # j => handing'[q][i] = handing[q][i]
      BY <1>1, <1>2, <1>5 DEF Refused
    <2>3. \A i \in Jobs : i # j /\ Keeps(i) => Keeps(i)'
      BY <2>1, <2>2 DEF Keeps, Unbooked, Producers
    <2> QED
      BY <1>1, <2>1, <2>3, HeldKept DEF TypeOK
  <1> QED
    BY <1>3, <1>4, <1>5 DEF HandOver

\* The webhook's steps keep runs held.
LEMMA WebhookHeld == IdleInv /\ Webhook => RunsHeld'
  <1> SUFFICES ASSUME IdleInv, Webhook PROVE RunsHeld'
    OBVIOUS
  <1>0. TypeOK
    BY DEF IdleInv
  <1>1. ASSUME NEW r \in Runs, Receive(r) PROVE RunsHeld'
    <2>1. UNCHANGED <<handing, stage, closed>>
      BY <1>1 DEF Receive, queue
    <2>2. \A j \in Jobs : Keeps(j) => Keeps(j)'
      BY <2>1 DEF Keeps, Unbooked
    <2>3. CASE closed
      BY <1>1, <2>1, <2>2, <2>3, HeldKept DEF Receive
    <2>4. CASE ~closed
      <3>1. /\ \A x \in Runs : hook'[x] = IF x = r THEN "filling" ELSE hook[x]
            /\ open' = open \cup {r} /\ filling' = filling \cup {r}
        BY <1>0, <1>1, <2>4 DEF Receive, TypeOK
      <3> QED
        BY <1>0, <2>1, <2>2, <2>4, <3>1 DEF IdleInv, RunsHeld, Held, TypeOK
    <2> QED
      BY <2>3, <2>4
  <1>2. ASSUME NEW r \in Runs, SealRequest(r) PROVE RunsHeld'
    <2>1. /\ Retire(r, filling \ {r}, Unbooked) /\ filling' = filling \ {r}
          /\ UNCHANGED <<closed, handing, stage>>
          /\ hook' = [hook EXCEPT ![r] = "answered"]
      BY <1>2 DEF SealRequest, Seal, queue
    <2>2. \A j \in Jobs : (Keeps(j) => Keeps(j)') /\ (j \in Unbooked => Keeps(j)')
      BY <2>1 DEF Keeps, Unbooked
    <2>3. \A x \in Runs : x # r => hook'[x] = hook[x]
      BY <1>0, <2>1 DEF TypeOK
    <2>4. \A x \in open \ {r} : Held(x) => Held(x)'
      BY <1>0, <2>2, <2>3 DEF Held, TypeOK
    <2>5. Unbooked \subseteq Jobs
      BY DEF Unbooked
    <2> QED
      BY <1>0, <2>1, <2>2, <2>3, <2>4, <2>5, RetireKept DEF TypeOK
  <1>3. ASSUME NEW j \in Jobs, TakeFile(j) PROVE RunsHeld'
    <2>1. UNCHANGED <<open, filling, closed, hook, stage>>
      BY <1>3 DEF TakeFile, controls, queue
    <2>2. handing'["recheck"] = handing["recheck"]
      BY <1>0, <1>3 DEF TakeFile, Hand, TypeOK, Producers
    <2>3. \A i \in Jobs : Keeps(i) => Keeps(i)'
      BY <2>1, <2>2 DEF Keeps, Unbooked
    <2> QED
      BY <2>1, <2>3, HeldKept
  <1> QED
    BY <1>1, <1>2, <1>3, HandOverHeld DEF Webhook, Producers

\* A worker's steps keep runs held: a job keeps its run until it is booked.
LEMMA WorkHeld == IdleInv /\ (\E j \in Jobs : Work(j)) => RunsHeld'
  <1> SUFFICES ASSUME IdleInv, NEW j \in Jobs, Work(j) PROVE RunsHeld'
    OBVIOUS
  <1>0. TypeOK /\ RunOf[j] \in Runs
    BY JobParts DEF IdleInv
  <1>1. ASSUME NEW from, NEW to, Step(j, from, to), UNCHANGED handing,
               from \in {"absent", "booked"}
                 \/ to \in {"queued", "checked", "saving", "ending"}
        PROVE  \A i \in Jobs : Keeps(i) => Keeps(i)'
    BY <1>0, <1>1 DEF Step, Keeps, Unbooked, TypeOK
  <1>2. CASE Book(j)
    <2> DEFINE unbooked == Unbooked \ {j}
    <2>1. /\ Retire(RunOf[j], filling, unbooked)
          /\ UNCHANGED <<filling, closed, hook, handing>>
          /\ stage' = [stage EXCEPT ![j] = "booked"]
      BY <1>2 DEF Book, Step, request
    <2>2. \A i \in Jobs : i # j => stage'[i] = stage[i]
      BY <1>0, <2>1 DEF TypeOK
    <2>3. \A i \in Jobs : i # j => (Keeps(i) => Keeps(i)') /\ (i \in Unbooked => Keeps(i)')
      BY <2>1, <2>2 DEF Keeps, Unbooked
    <2>4. \A x \in open \ {RunOf[j]} : Held(x) => Held(x)'
      BY <2>1, <2>3 DEF Held
    <2>5. \A i \in unbooked : i \in Jobs /\ Keeps(i)'
      BY <2>3 DEF Unbooked
    <2> QED
      BY <2>1, <2>4, <2>5, RetireKept
  <1>3. CASE ~Book(j)
    <2>1. UNCHANGED <<open, filling, closed, hook, handing>>
      BY <1>3 DEF Work, LeaveAlone, Check, Park, SaveParked, Process, Unclaim, controls,
                  request
    <2>2. \/ Step(j, "queued", "ending") \/ Step(j, "queued", "checked")
          \/ Step(j, "checked", "saving") \/ Step(j, "saving", "ending")
          \/ Step(j, "checked", "queued") \/ Step(j, "checked", "ending")
          \/ Step(j, "booked", "absent")
      BY <1>3 DEF Work, LeaveAlone, Check, Park, SaveParked, Process, Continues, Judged,
                  Unclaim
    <2>3. \A i \in Jobs : Keeps(i) => Keeps(i)'
      BY <1>1, <2>1, <2>2
    <2> QED
      BY <2>1, <2>3, HeldKept
  <1> QED
    BY <1>2, <1>3

\* The recheck's steps keep runs held: a file it reopens a run for holds it until
\* the queue does or the run is sealed.
LEMMA RecheckHeld == IdleInv /\ Rechecking => RunsHeld'
  <1> SUFFICES ASSUME IdleInv, Rechecking PROVE RunsHeld'
    OBVIOUS
  <1>0. TypeOK
    BY DEF IdleInv
  <1>1. ASSUME NEW j \in Jobs, NEW step, Hand("recheck", j, step)
        PROVE  /\ handing'["recheck"][j] = step
               /\ \A i \in Jobs : i # j => handing'["recheck"][i] = handing["recheck"][i]
    BY <1>0, <1>1 DEF Hand, TypeOK, Producers
  <1>2. ASSUME UNCHANGED <<open, filling, closed, hook, stage, handing>> PROVE RunsHeld'
    <2>1. \A i \in Jobs : Keeps(i) => Keeps(i)'
      BY <1>2 DEF Keeps, Unbooked
    <2> QED
      BY <1>2, <2>1, HeldKept
  <1>3. CASE Begin \/ Finish \/ \E j \in Jobs : LeaveParked(j)
    BY <1>2, <1>3 DEF Begin, Finish, LeaveParked, controls, queue, request
  <1>4. ASSUME NEW j \in Jobs, Find(j) \/ Pop(j) \/ Vanished(j) \/ PutBack(j)
        PROVE  RunsHeld'
    <2>1. UNCHANGED <<open, filling, closed, hook, stage>>
      BY <1>4 DEF Find, Pop, Vanished, PutBack, controls, queue, request
    <2>2. handing["recheck"][j] \notin Reopened
      BY <1>4 DEF Find, Pop, Vanished, PutBack, InHand, Reopened
    <2>3. \A i \in Jobs : i # j => handing'["recheck"][i] = handing["recheck"][i]
      BY <1>1, <1>4 DEF Find, Pop, Vanished, PutBack
    <2>4. \A i \in Jobs : Keeps(i) => Keeps(i)'
      BY <2>1, <2>2, <2>3 DEF Keeps, Unbooked
    <2> QED
      BY <2>1, <2>4, HeldKept
  <1>5. ASSUME NEW j \in Jobs, Reopen(j) PROVE RunsHeld'
    <2>1. UNCHANGED <<filling, closed, hook, stage>> /\ handing["recheck"][j] = "popped"
      BY <1>5 DEF Reopen, queue, request
    <2>2. \A i \in Jobs : i # j => handing'["recheck"][i] = handing["recheck"][i]
      BY <1>1, <1>5 DEF Reopen
    <2>3. \A i \in Jobs : Keeps(i) => Keeps(i)'
      BY <2>1, <2>2 DEF Keeps, Reopened, Unbooked
    <2>4. CASE closed
      BY <1>5, <2>1, <2>3, <2>4, HeldKept DEF Reopen
    <2>5. CASE ~closed
      <3>1. handing'["recheck"][j] = "opened" /\ open' = open \cup {RunOf[j]}
        BY <1>1, <1>5, <2>5 DEF Reopen
      <3>2. Keeps(j)'
        BY <3>1 DEF Keeps, Reopened
      <3> QED
        BY <2>1, <2>3, <3>1, <3>2 DEF IdleInv, RunsHeld, Held
    <2> QED
      BY <2>4, <2>5
  <1>6. ASSUME NEW j \in Jobs, SealRelease(j) PROVE RunsHeld'
    <2> DEFINE r == RunOf[j]
    <2>1. /\ Retire(r, filling \ {r}, Unbooked) /\ filling' = filling \ {r}
          /\ UNCHANGED <<closed, hook, stage>>
      BY <1>6 DEF SealRelease, Seal, queue, request
    <2>2. \A i \in Jobs : i # j => handing'["recheck"][i] = handing["recheck"][i]
      BY <1>1, <1>6 DEF SealRelease
    <2>3. \A i \in Jobs : (i # j /\ Keeps(i) => Keeps(i)') /\ (i \in Unbooked => Keeps(i)')
      BY <2>1, <2>2 DEF Keeps, Unbooked
    <2>4. \A x \in open \ {r} : Held(x) => Held(x)'
      BY <2>1, <2>3 DEF Held
    <2>5. Unbooked \subseteq Jobs
      BY DEF Unbooked
    <2> QED
      BY <2>1, <2>3, <2>4, <2>5, RetireKept
  <1> QED
    BY <1>3, <1>4, <1>5, <1>6, HandOverHeld DEF Rechecking, Release, Producers

\* What happens around them keeps runs held, and a restart has none.
LEMMA AroundHeld == IdleInv /\ (Around \/ Restart) => RunsHeld'
  <1> SUFFICES ASSUME IdleInv, Around \/ Restart PROVE RunsHeld'
    OBVIOUS
  <1>1. CASE Restart
    BY <1>1 DEF Restart, RunsHeld
  <1>2. CASE Around
    <2>1. UNCHANGED <<open, filling, hook, stage, handing>> /\ (closed => closed')
      BY <1>2 DEF Around, Unlink, Vanish, SetParking, StopRun, SkipFile, Close, controls,
                  queue, request
    <2>2. \A i \in Jobs : Keeps(i) => Keeps(i)'
      BY <2>1 DEF Keeps, Unbooked
    <2> QED
      BY <2>1, <2>2, HeldKept
  <1> QED
    BY <1>1, <1>2

-----------------------------------------------------------------------------
(***************************************************************************)
(* The theorems.                                                           *)
(***************************************************************************)

\* The inductive invariant holds in every reachable state.
THEOREM DeliveryHolds == Spec => []DeliveryInv
  <1>1. Init => DeliveryInv
    <2> SUFFICES ASSUME Init PROVE DeliveryInv
      OBVIOUS
    <2>1. \A j \in Jobs : Claims(j) = {}
      BY DEF Init, Claims
    <2>2. OneJobPerPath
      BY <2>1 DEF Init, OneJobPerPath
    <2>3. DiskFollowsMemory /\ PassKnows
      BY DEF Init, DiskFollowsMemory, PassKnows, Producers
    <2> QED
      BY <2>2, <2>3, InitTypes DEF DeliveryInv
  <1>2. DeliveryInv /\ [Next]_vars => DeliveryInv'
    <2> SUFFICES ASSUME DeliveryInv, [Next]_vars PROVE DeliveryInv'
      OBVIOUS
    <2>1. TypeOK'
      BY TypesKept DEF DeliveryInv
    <2>2. CASE UNCHANGED vars
      BY <2>1, <2>2, ClaimsKept, DiskKept, PassKept
      DEF DeliveryInv, vars, queue, pass
    <2> QED
      BY <2>1, <2>2, WebhookKept, WorkKept, RecheckKept, AroundKept DEF Next
  <1> QED
    BY <1>1, <1>2, PTL DEF Spec

\* Type correctness, for any jobs: a stopping run always has its control.
THEOREM ImportsTypeCorrect == Spec => []TypeOK
  <1>1. DeliveryInv => TypeOK
    BY DEF DeliveryInv
  <1> QED
    BY <1>1, DeliveryHolds, PTL

\* However many deliveries and rechecks name a file, and across restarts, one job
\* at a time has it, from enqueue's claim to the callback that gives it back.
THEOREM OneJobHasThePath == Spec => []OneJobPerPath
  <1>1. DeliveryInv => OneJobPerPath
    BY DEF DeliveryInv
  <1> QED
    BY <1>1, DeliveryHolds, PTL

\* No parked delivery is missing from parked.json unless a save is under way or
\* the last one failed.
THEOREM ParkedIsOnDisk == Spec => []DiskFollowsMemory
  <1>1. DeliveryInv => DiskFollowsMemory
    BY DEF DeliveryInv
  <1> QED
    BY <1>1, DeliveryHolds, PTL

\* While the service runs, whatever seals, books and rechecks race, each run on the
\* overview is being filled or has a job that is not booked or on its way in.
THEOREM OpenRunsAreBusy == Spec => []NoIdleRuns
  <1>1. Init => IdleInv
    BY InitTypes DEF Init, IdleInv, RunsHeld
  <1>2. IdleInv /\ [Next]_vars => IdleInv'
    <2> SUFFICES ASSUME IdleInv, [Next]_vars PROVE IdleInv'
      OBVIOUS
    <2>1. TypeOK'
      BY TypesKept DEF IdleInv
    <2>2. CASE UNCHANGED vars
      <3>1. UNCHANGED <<open, filling, closed, hook, stage, handing>>
        BY <2>2 DEF vars, controls, queue, request
      <3>2. \A j \in Jobs : Keeps(j) => Keeps(j)'
        BY <3>1 DEF Keeps, Unbooked
      <3> QED
        BY <2>1, <3>1, <3>2, HeldKept DEF IdleInv
    <2> QED
      BY <2>1, <2>2, WebhookHeld, WorkHeld, RecheckHeld, AroundHeld DEF Next, IdleInv
  <1>3. IdleInv => NoIdleRuns
    BY DEF IdleInv, RunsHeld, Held, Keeps, Reopened, NoIdleRuns, InHand
  <1> QED
    BY <1>1, <1>2, <1>3, PTL DEF Spec
=============================================================================
