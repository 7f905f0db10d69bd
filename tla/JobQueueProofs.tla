--------------------------- MODULE JobQueueProofs ---------------------------
(***************************************************************************)
(* Theorems about JobQueue, for every set of workers, every limit of       *)
(* attempts, every batch size and every number of jobs, requeues, faults.  *)
(*                                                                         *)
(* The safety properties are not inductive one by one.  IInv adds what     *)
(* ties them together: the attempt number of a delivery is never ahead of  *)
(* its row, so the delivery a claim makes is new; a worker is in the       *)
(* middle of a job exactly when it has a current delivery; and a row in    *)
(* progress whose worker was not lost is held at its current attempt.      *)
(***************************************************************************)
EXTENDS JobQueue, TLAPS

(* Rows beyond created are not there yet, and nobody holds one.            *)
AbsentRows ==
    /\ \A j \in JobIds : j > created => status[j] = "absent"
    /\ \A w \in Workers : \A d \in Held(w) : d.job <= created

(* A worker has a current delivery exactly while it runs or settles one.   *)
LoopIsIdle == \A w \in Workers : pc[w] = "loop" <=> cur[w] = NoJob

(* Deliveries are numbered by attempts already counted in the row.         *)
AttemptsCounted ==
    /\ \A w \in Workers : \A d \in Held(w) : d.attempt <= attempts[d.job]
    /\ \A d \in ran : d.attempt <= attempts[d.job]

(* What a worker is processing has been started.                           *)
CurHasRun == \A w \in Workers : cur[w] # NoJob => cur[w] \in ran

(* A row in progress is held at its current attempt or was lost.           *)
ProcessingIsHeld ==
    \A j \in JobIds :
        status[j] = "processing" /\ j \notin lost =>
            \E w \in Workers : \E d \in Held(w) :
                d.job = j /\ d.attempt = attempts[j]

IInv ==
    /\ TypeOK
    /\ AbsentRows
    /\ LoopIsIdle
    /\ AttemptsCounted
    /\ CurHasRun
    /\ ProcessingIsHeld
    /\ DeliveryRunsOnce
    /\ HeldIsCurrent
    /\ WaitingIsUnlocked

-----------------------------------------------------------------------------
(* What a batch is made of: claimable rows.                                *)
LEMMA ClaimableFacts ==
    ASSUME TypeOK, NEW S \in SUBSET ClaimableJobs, NEW j \in S
    PROVE  /\ j \in JobIds
           /\ status[j] \in {"queued", "failed"}
           /\ attempts[j] \in Nat
           /\ attempts[j] + 1 \in 1 .. MaxAttempts
  BY QueueConstants DEF ClaimableJobs, Claimable, TypeOK

(* The UPDATE of Claim keeps the rows' types.                              *)
LEMMA MarkClaimedType ==
    ASSUME TypeOK, NEW S \in SUBSET ClaimableJobs, MarkClaimed(S)
    PROVE  /\ created' = created
           /\ status' \in [JobIds -> JobStatuses]
           /\ attempts' \in [JobIds -> 0 .. MaxAttempts]
           /\ lock' \in [JobIds -> {"null", "future", "past"}]
  <1>1. \A j \in S : attempts[j] + 1 \in 0 .. MaxAttempts
    BY ClaimableFacts, QueueConstants
  <1>2. attempts' \in [JobIds -> 0 .. MaxAttempts]
    BY <1>1 DEF TypeOK, MarkClaimed
  <1>3. status' \in [JobIds -> JobStatuses]
    BY DEF TypeOK, MarkClaimed, JobStatuses
  <1>4. QED
    BY <1>2, <1>3 DEF TypeOK, MarkClaimed

(* What a worker has in mind has the type of a delivery.                   *)
LEMMA HeldType ==
    ASSUME TypeOK, NEW w \in Workers
    PROVE  /\ Held(w) \subseteq Deliveries
           /\ JobsHeld(w) \subseteq JobIds
           /\ cur[w] # NoJob => cur[w] \in Deliveries /\ cur[w].job \in JobIds
  BY NoJobAssumption DEF TypeOK, Held, JobsHeld, Deliveries

(* The deliveries of a claim have the type of deliveries.                  *)
LEMMA NewDeliveriesType ==
    ASSUME TypeOK, NEW S \in SUBSET ClaimableJobs
    PROVE  {[job |-> j, attempt |-> attempts[j] + 1] : j \in S} \subseteq Deliveries
  BY ClaimableFacts DEF Deliveries

(* Steps that leave the workers and the history alone leave what they hold. *)
LEMMA SameHands ==
    ASSUME UNCHANGED <<hand, cur>>
    PROVE  /\ \A w : Held(w)' = Held(w) /\ JobsHeld(w)' = JobsHeld(w)
           /\ \A j : IsHeld(j)' <=> IsHeld(j)
  BY DEF Held, JobsHeld, IsHeld

LEMMA EnqueueKeepsIInv == IInv /\ Enqueue => IInv'
  <1> SUFFICES ASSUME IInv, Enqueue PROVE IInv'
    OBVIOUS
  <1> USE DEF Enqueue, worker, history
  <1>1. TypeOK /\ created \in Nat /\ created + 1 \in JobIds
    BY QueueConstants DEF IInv, TypeOK, JobIds
  <1>2. TypeOK'
    BY <1>1 DEF TypeOK, JobStatuses, JobIds
  <1>3. status[created + 1] = "absent"
    BY <1>1 DEF IInv, AbsentRows
  <1>4. \A w : Held(w)' = Held(w) /\ JobsHeld(w)' = JobsHeld(w)
    BY SameHands
  <1>5. \A w \in Workers : \A d \in Held(w) :
            d.job \notin disturbed => d.job # created + 1
    BY <1>3 DEF IInv, HeldIsCurrent
  <1>6. AbsentRows'
    <2>1. \A v \in Workers : \A d \in Held(v) : d.job \in JobIds
      BY <1>1, HeldType DEF Deliveries
    <2>2. \A v \in Workers : \A d \in Held(v) : d.job <= created + 1
      BY <1>1, <2>1 DEF IInv, AbsentRows, JobIds
    <2>3. QED
      BY <1>1, <1>4, <2>2 DEF IInv, AbsentRows, TypeOK, JobIds
  <1>7. LoopIsIdle' /\ AttemptsCounted' /\ CurHasRun' /\ DeliveryRunsOnce'
    BY <1>4 DEF IInv, LoopIsIdle, AttemptsCounted, CurHasRun, DeliveryRunsOnce
  <1>8. ProcessingIsHeld'
    BY <1>1, <1>4 DEF IInv, ProcessingIsHeld, TypeOK
  <1>9. HeldIsCurrent'
    BY <1>1, <1>4, <1>5 DEF IInv, HeldIsCurrent, TypeOK
  <1>10. WaitingIsUnlocked'
    BY <1>1, <1>3 DEF IInv, WaitingIsUnlocked, TypeOK
  <1>11. QED
    BY <1>2, <1>6, <1>7, <1>8, <1>9, <1>10 DEF IInv

(* The rows a claim marks: nobody undisturbed held them, they were counted *)
(* one attempt less.                                                       *)
LEMMA MarkClaimedRows ==
    ASSUME TypeOK, NEW S \in SUBSET ClaimableJobs, MarkClaimed(S), NEW j \in JobIds
    PROVE  /\ attempts[j] <= attempts'[j]
           /\ j \in S => /\ attempts'[j] = attempts[j] + 1
                         /\ status'[j] = "processing"
                         /\ status[j] # "processing" /\ status[j] # "absent"
           /\ j \notin S => /\ attempts'[j] = attempts[j]
                            /\ status'[j] = status[j]
                            /\ lock'[j] = lock[j]
  BY ClaimableFacts, QueueConstants DEF MarkClaimed, TypeOK

LEMMA ClaimKeepsIInv == \A w \in Workers : IInv /\ Claim(w) => IInv'
  <1> SUFFICES ASSUME NEW w \in Workers, IInv, Claim(w) PROVE IInv'
    OBVIOUS
  <1> PICK S \in SUBSET ClaimableJobs :
          /\ MarkClaimed(S)
          /\ hand' = [hand EXCEPT ![w] =
                         {[job |-> j, attempt |-> attempts[j] + 1] : j \in S}]
    BY DEF Claim
  <1> DEFINE New == {[job |-> j, attempt |-> attempts[j] + 1] : j \in S}
  <1>1. TypeOK /\ hand[w] = {} /\ pc[w] = "loop" /\ cur[w] = NoJob
    BY DEF IInv, LoopIsIdle, Claim
  <1>2. UNCHANGED <<mode, pc, cur, result, requeues, faults, ran, disturbed, lost>>
    BY DEF Claim, history
  <1>3. New \subseteq Deliveries
    BY <1>1, NewDeliveriesType
  <1>4. Held(w)' = New /\ hand'[w] = New
    BY <1>1, <1>2 DEF Held, TypeOK
  <1>5. \A v \in Workers \ {w} : Held(v)' = Held(v) /\ hand'[v] = hand[v]
    BY <1>2 DEF Held, TypeOK
  <1>6. TypeOK'
    <2>1. hand' \in [Workers -> SUBSET Deliveries]
      BY <1>1, <1>3 DEF TypeOK
    <2>2. QED
      BY <1>1, <1>2, <2>1, MarkClaimedType DEF TypeOK
  <1>7. \A v \in Workers : Held(v) \subseteq Deliveries
    BY <1>1, HeldType
  <1>8. \A d \in New : d.job \in S /\ d.job \in JobIds /\ d.attempt = attempts'[d.job]
                       /\ d.attempt > attempts[d.job]
    BY <1>1, MarkClaimedRows, ClaimableFacts DEF TypeOK
  <1>9. AbsentRows'
    <2>1. \A d \in New : d.job <= created
      BY <1>1, <1>8, MarkClaimedRows DEF IInv, AbsentRows, TypeOK, JobIds
    <2>2. \A v \in Workers : \A d \in Held(v)' : d.job <= created
      BY <2>1, <1>4, <1>5 DEF IInv, AbsentRows
    <2>3. \A j \in JobIds : j > created => status'[j] = "absent"
      BY <1>1, MarkClaimedRows DEF IInv, AbsentRows, TypeOK, JobIds
    <2>4. QED
      BY <1>1, <2>2, <2>3, MarkClaimedType DEF AbsentRows
  <1>10. LoopIsIdle' /\ CurHasRun'
    BY <1>2 DEF IInv, LoopIsIdle, CurHasRun
  <1>11. AttemptsCounted'
    <2>1. \A v \in Workers : \A d \in Held(v)' : d.attempt <= attempts'[d.job]
      <3> TAKE v \in Workers
      <3> TAKE d \in Held(v)'
      <3>1. CASE v = w
        BY <3>1, <1>4, <1>8, <1>6 DEF TypeOK
      <3>2. CASE v # w
        <4>1. d \in Held(v) /\ d \in Deliveries /\ d.attempt <= attempts[d.job]
          BY <3>2, <1>5, <1>7 DEF IInv, AttemptsCounted
        <4>2. d.job \in JobIds /\ d.attempt \in Nat
          BY <4>1 DEF Deliveries
        <4>3. QED
          BY <4>1, <4>2, <1>1, <1>6, MarkClaimedRows DEF TypeOK
      <3>3. QED
        BY <3>1, <3>2
    <2>2. \A d \in ran : d.attempt <= attempts'[d.job]
      <3> TAKE d \in ran
      <3>1. d.job \in JobIds /\ d.attempt \in Nat /\ d.attempt <= attempts[d.job]
        BY <1>1 DEF IInv, AttemptsCounted, TypeOK, Deliveries
      <3>2. QED
        BY <3>1, <1>1, <1>6, MarkClaimedRows DEF TypeOK
    <2>3. QED
      BY <2>1, <2>2, <1>2 DEF AttemptsCounted
  <1>12. ProcessingIsHeld'
    <2> SUFFICES ASSUME NEW j \in JobIds, status'[j] = "processing", j \notin lost
                 PROVE  \E v \in Workers : \E d \in Held(v)' :
                            d.job = j /\ d.attempt = attempts'[j]
      BY <1>2 DEF ProcessingIsHeld
    <2>1. CASE j \in S
      <3>1. [job |-> j, attempt |-> attempts[j] + 1] \in Held(w)'
        BY <2>1, <1>4
      <3>2. QED
        BY <3>1, <2>1, <1>1, MarkClaimedRows
    <2>2. CASE j \notin S
      <3>1. PICK v \in Workers : \E d \in Held(v) : d.job = j /\ d.attempt = attempts[j]
        BY <2>2, <1>1, MarkClaimedRows DEF IInv, ProcessingIsHeld
      <3>2. v # w
        BY <3>1, <1>1 DEF Held
      <3>3. QED
        BY <3>1, <3>2, <2>2, <1>1, <1>5, MarkClaimedRows
    <2>3. QED
      BY <2>1, <2>2
  <1>13. DeliveryRunsOnce'
    <2>1. \A d \in New : d \notin ran
      BY <1>1, <1>8 DEF IInv, AttemptsCounted, TypeOK, Deliveries
    <2>2. \A d \in New : \A v \in Workers : d \notin Held(v)
      BY <1>1, <1>7, <1>8 DEF IInv, AttemptsCounted, TypeOK, Deliveries
    <2>3. \A v \in Workers : hand'[v] \cap ran = {}
      BY <2>1, <1>4, <1>5 DEF IInv, DeliveryRunsOnce
    <2>4. \A u, v \in Workers : u # v => Held(u)' \cap Held(v)' = {}
      BY <2>2, <1>4, <1>5 DEF IInv, DeliveryRunsOnce
    <2>5. QED
      BY <2>3, <2>4, <1>2 DEF DeliveryRunsOnce
  <1>14. HeldIsCurrent'
    <2> SUFFICES ASSUME NEW v \in Workers, NEW d \in Held(v)', d.job \notin disturbed
                 PROVE  status'[d.job] = "processing" /\ attempts'[d.job] = d.attempt
      BY <1>2 DEF HeldIsCurrent
    <2>1. CASE v = w
      BY <2>1, <1>4, <1>8, <1>1, MarkClaimedRows
    <2>2. CASE v # w
      <3>1. d \in Held(v) /\ d.job \in JobIds
        BY <2>2, <1>5, <1>7 DEF Deliveries
      <3>2. status[d.job] = "processing" /\ attempts[d.job] = d.attempt
        BY <3>1 DEF IInv, HeldIsCurrent
      <3>3. QED
        BY <3>1, <3>2, <1>1, MarkClaimedRows
    <2>3. QED
      BY <2>1, <2>2
  <1>15. WaitingIsUnlocked'
    BY <1>1, MarkClaimedRows DEF IInv, WaitingIsUnlocked
  <1>16. QED
    BY <1>6, <1>9, <1>10, <1>11, <1>12, <1>13, <1>14, <1>15 DEF IInv

LEMMA ClaimReplyLostKeepsIInv == \A w \in Workers : IInv /\ ClaimReplyLost(w) => IInv'
  <1> SUFFICES ASSUME NEW w \in Workers, IInv, ClaimReplyLost(w) PROVE IInv'
    OBVIOUS
  <1> PICK S \in SUBSET ClaimableJobs : MarkClaimed(S) /\ lost' = lost \cup S
    BY DEF ClaimReplyLost
  <1>1. TypeOK /\ faults' \in 0 .. MaxFaults
    BY QueueConstants DEF IInv, TypeOK, ClaimReplyLost, Fault
  <1>2. UNCHANGED <<mode, pc, hand, cur, result, requeues, ran, disturbed>>
    BY DEF ClaimReplyLost, worker
  <1>3. \A v : Held(v)' = Held(v)
    BY <1>2, SameHands
  <1>4. TypeOK'
    BY <1>1, <1>2, MarkClaimedType, ClaimableFacts DEF TypeOK
  <1>5. \A v \in Workers : Held(v) \subseteq Deliveries
    BY <1>1, HeldType
  <1>6. AttemptsCounted'
    <2>1. \A d \in Deliveries : d.attempt <= attempts[d.job] => d.attempt <= attempts'[d.job]
      BY <1>1, <1>4, MarkClaimedRows DEF Deliveries, TypeOK
    <2>2. QED
      BY <2>1, <1>1, <1>2, <1>3, <1>5 DEF IInv, AttemptsCounted, TypeOK
  <1>7. ProcessingIsHeld'
    BY <1>1, <1>3, MarkClaimedRows DEF IInv, ProcessingIsHeld
  <1>8. HeldIsCurrent'
    <2>1. \A v \in Workers : \A d \in Held(v) : d.job \in JobIds
      BY <1>5 DEF Deliveries
    <2>2. QED
      BY <2>1, <1>1, <1>2, <1>3, MarkClaimedRows DEF IInv, HeldIsCurrent
  <1>9. AbsentRows' /\ WaitingIsUnlocked'
    BY <1>1, <1>3, MarkClaimedRows, MarkClaimedType DEF IInv, AbsentRows, WaitingIsUnlocked
  <1>10. LoopIsIdle' /\ CurHasRun' /\ DeliveryRunsOnce'
    BY <1>2, <1>3 DEF IInv, LoopIsIdle, CurHasRun, DeliveryRunsOnce
  <1>11. QED
    BY <1>4, <1>6, <1>7, <1>8, <1>9, <1>10 DEF IInv

(* Steps of a worker that touch no row.                                    *)
LEMMA StartJobKeepsIInv == \A w \in Workers : IInv /\ StartJob(w) => IInv'
  <1> SUFFICES ASSUME NEW w \in Workers, IInv, StartJob(w) PROVE IInv'
    OBVIOUS
  <1> PICK d \in hand[w] : /\ cur' = [cur EXCEPT ![w] = d]
                           /\ hand' = [hand EXCEPT ![w] = @ \ {d}]
                           /\ ran' = ran \cup {d}
    BY DEF StartJob
  <1>1. TypeOK /\ cur[w] = NoJob /\ d \in Deliveries /\ d # NoJob
    BY NoJobAssumption DEF IInv, LoopIsIdle, StartJob, TypeOK
  <1>2. UNCHANGED <<created, status, attempts, lock, mode, result, requeues,
                    faults, disturbed, lost>>
        /\ pc' = [pc EXCEPT ![w] = "running"]
    BY DEF StartJob, rows
  <1>3. \A v \in Workers : Held(v)' = Held(v)
    BY <1>1 DEF Held, TypeOK
  <1>4. TypeOK'
    BY <1>1, <1>2 DEF TypeOK
  <1>5. LoopIsIdle' /\ CurHasRun'
    BY <1>1, <1>2 DEF IInv, LoopIsIdle, CurHasRun, TypeOK
  <1>6. AttemptsCounted'
    BY <1>1, <1>2, <1>3 DEF IInv, AttemptsCounted, Held
  <1>7. DeliveryRunsOnce'
    <2>1. \A v \in Workers \ {w} : d \notin hand[v]
      BY <1>1 DEF IInv, DeliveryRunsOnce, Held
    <2>2. \A v \in Workers : hand'[v] \cap ran' = {}
      BY <1>1, <2>1 DEF IInv, DeliveryRunsOnce, TypeOK
    <2>3. QED
      BY <2>2, <1>3 DEF IInv, DeliveryRunsOnce
  <1>8. ProcessingIsHeld' /\ HeldIsCurrent' /\ WaitingIsUnlocked' /\ AbsentRows'
    BY <1>2, <1>3
    DEF IInv, ProcessingIsHeld, HeldIsCurrent, WaitingIsUnlocked, AbsentRows
  <1>9. QED
    BY <1>4, <1>5, <1>6, <1>7, <1>8 DEF IInv

LEMMA JobReturnsKeepsIInv == \A w \in Workers : IInv /\ JobReturns(w) => IInv'
  <1> SUFFICES ASSUME NEW w \in Workers, IInv, JobReturns(w) PROVE IInv'
    OBVIOUS
  <1>1. UNCHANGED <<created, status, attempts, lock, mode, hand, cur, requeues,
                    faults, ran, disturbed, lost>>
        /\ pc[w] = "running" /\ pc' = [pc EXCEPT ![w] = "settle"]
    BY DEF JobReturns, rows, history
  <1>2. \A v : Held(v)' = Held(v)
    BY <1>1, SameHands
  <1>3. TypeOK'
    BY <1>1 DEF IInv, TypeOK, JobReturns
  <1>4. LoopIsIdle'
    BY <1>1 DEF IInv, LoopIsIdle, TypeOK
  <1>5. QED
    BY <1>1, <1>2, <1>3, <1>4
    DEF IInv, AbsentRows, AttemptsCounted, CurHasRun, ProcessingIsHeld,
        DeliveryRunsOnce, HeldIsCurrent, WaitingIsUnlocked

LEMMA ModeStepKeepsIInv ==
    \A w \in Workers : IInv /\ (Signal(w) \/ Restart(w)) => IInv'
  <1> SUFFICES ASSUME NEW w \in Workers, IInv, Signal(w) \/ Restart(w) PROVE IInv'
    OBVIOUS
  <1>1. UNCHANGED <<created, status, attempts, lock, pc, hand, cur, result,
                    requeues, ran, disturbed, lost>>
    BY DEF Signal, Restart, rows, history
  <1>2. \A v : Held(v)' = Held(v)
    BY <1>1, SameHands
  <1>3. TypeOK'
    BY <1>1, QueueConstants DEF IInv, TypeOK, Signal, Restart, Fault
  <1>4. QED
    BY <1>1, <1>2, <1>3
    DEF IInv, AbsentRows, LoopIsIdle, AttemptsCounted, CurHasRun,
        ProcessingIsHeld, DeliveryRunsOnce, HeldIsCurrent, WaitingIsUnlocked

LEMMA LockExpiresKeepsIInv == \A j \in JobIds : IInv /\ LockExpires(j) => IInv'
  <1> SUFFICES ASSUME NEW j \in JobIds, IInv, LockExpires(j) PROVE IInv'
    OBVIOUS
  <1>1. UNCHANGED <<created, status, attempts, mode, pc, hand, cur, result,
                    requeues, faults, ran, disturbed, lost>>
        /\ lock' = [lock EXCEPT ![j] = "past"] /\ lock[j] = "future"
    BY DEF LockExpires, worker, history
  <1>2. \A v : Held(v)' = Held(v)
    BY <1>1, SameHands
  <1>3. TypeOK' /\ WaitingIsUnlocked'
    BY <1>1 DEF IInv, TypeOK, WaitingIsUnlocked
  <1>4. QED
    BY <1>1, <1>2, <1>3
    DEF IInv, AbsentRows, LoopIsIdle, AttemptsCounted, CurHasRun,
        ProcessingIsHeld, DeliveryRunsOnce, HeldIsCurrent

-----------------------------------------------------------------------------
(* A worker that is not between two jobs holds a delivery, which is no     *)
(* longer in its hand; NextJob drops just that one.                        *)
LEMMA NextJobDrops ==
    ASSUME IInv, NEW w \in Workers, pc[w] = "settle", NextJob(w)
    PROVE  /\ cur[w] \in Held(w) /\ cur[w] \in Deliveries /\ cur[w].job \in JobIds
           /\ Held(w)' = Held(w) \ {cur[w]}
           /\ \A v \in Workers \ {w} : Held(v)' = Held(v) /\ cur[w] \notin Held(v)
           /\ mode' = mode /\ hand' = hand /\ result' = result
           /\ pc' = [pc EXCEPT ![w] = "loop"] /\ cur' = [cur EXCEPT ![w] = NoJob]
           /\ LoopIsIdle'
  <1>1. TypeOK /\ cur[w] # NoJob
    BY DEF IInv, LoopIsIdle, TypeOK
  <1>2. cur[w] \in Held(w) /\ cur[w] \in Deliveries /\ cur[w].job \in JobIds
    BY <1>1, HeldType DEF Held
  <1>3. cur[w] \notin hand[w]
    BY <1>1 DEF IInv, CurHasRun, DeliveryRunsOnce
  <1>4. Held(w)' = Held(w) \ {cur[w]}
    BY <1>1, <1>3 DEF Held, NextJob, TypeOK
  <1>5. \A v \in Workers \ {w} : Held(v)' = Held(v) /\ cur[w] \notin Held(v)
    <2>1. \A v \in Workers \ {w} : cur[w] \notin Held(v)
      BY <1>2 DEF IInv, DeliveryRunsOnce
    <2>2. \A v \in Workers \ {w} : Held(v)' = Held(v)
      BY <1>1 DEF Held, NextJob, TypeOK
    <2>3. QED
      BY <2>1, <2>2
  <1>6. LoopIsIdle'
    BY <1>1 DEF IInv, LoopIsIdle, NextJob, TypeOK
  <1>7. QED
    BY <1>2, <1>4, <1>5, <1>6 DEF NextJob

(* A held delivery of an undisturbed job is the only one of that job.      *)
LEMMA HeldIsUnique ==
    ASSUME IInv, NEW v \in Workers, NEW w \in Workers,
           NEW c \in Held(v), NEW d \in Held(w),
           c.job = d.job, c.job \notin disturbed
    PROVE  c = d /\ v = w
  <1>1. c \in Deliveries /\ d \in Deliveries
    BY HeldType DEF IInv
  <1>2. c.attempt = d.attempt
    BY DEF IInv, HeldIsCurrent
  <1>3. c = d
    BY <1>1, <1>2 DEF Deliveries
  <1>4. QED
    BY <1>3 DEF IInv, DeliveryRunsOnce

(* What the UPDATE of Ack, Fail and Requeue changes.                       *)
LEMMA ReleaseRows ==
    ASSUME TypeOK, NEW j \in JobIds, NEW st \in JobStatuses, Release(j, st)
    PROVE  /\ created' = created /\ attempts' = attempts
           /\ status' = [status EXCEPT ![j] = st]
           /\ status' \in [JobIds -> JobStatuses]
           /\ lock' \in [JobIds -> {"null", "future", "past"}]
           /\ lock'[j] = "null" /\ status'[j] = st
           /\ \A k \in JobIds \ {j} : status'[k] = status[k] /\ lock'[k] = lock[k]
  BY DEF Release, TypeOK

LEMMA SettleKeepsIInv == \A w \in Workers : IInv /\ (Ack(w) \/ Fail(w)) => IInv'
  <1> SUFFICES ASSUME NEW w \in Workers, IInv,
                      NEW st \in {"done", "failed"},
                      pc[w] = "settle", Release(cur[w].job, st), NextJob(w),
                      UNCHANGED <<requeues, faults, history>>
               PROVE  IInv'
    BY DEF Ack, Fail
  <1> DEFINE c == cur[w]
  <1>1. TypeOK /\ c.job \in JobIds /\ st \in JobStatuses
    BY NextJobDrops DEF IInv, JobStatuses
  <1>2. UNCHANGED <<created, attempts, mode, hand, result, requeues, faults,
                    ran, disturbed, lost>>
    BY <1>1, ReleaseRows, NextJobDrops DEF history
  <1>3. \A v \in Workers : Held(v)' \subseteq Held(v)
    BY NextJobDrops
  <1>4. TypeOK'
    BY <1>1, <1>2, ReleaseRows, NextJobDrops DEF TypeOK
  <1>5. c.job <= created
    BY NextJobDrops DEF IInv, AbsentRows
  <1>6. AbsentRows'
    BY <1>1, <1>2, <1>3, <1>5, ReleaseRows DEF IInv, AbsentRows, TypeOK, JobIds
  <1>7. CurHasRun'
    BY <1>1, <1>2, NextJobDrops DEF IInv, CurHasRun, TypeOK
  <1>8. AttemptsCounted' /\ DeliveryRunsOnce'
    BY <1>2, <1>3 DEF IInv, AttemptsCounted, DeliveryRunsOnce
  <1>9. ProcessingIsHeld'
    <2> SUFFICES ASSUME NEW j \in JobIds, status'[j] = "processing", j \notin lost
                 PROVE  \E v \in Workers : \E d \in Held(v)' :
                            d.job = j /\ d.attempt = attempts[j]
      BY <1>2 DEF ProcessingIsHeld
    <2>1. j # c.job /\ status[j] = "processing"
      BY <1>1, ReleaseRows
    <2>2. PICK v \in Workers : \E d \in Held(v) : d.job = j /\ d.attempt = attempts[j]
      BY <2>1 DEF IInv, ProcessingIsHeld
    <2>3. QED
      BY <2>1, <2>2, NextJobDrops
  <1>10. HeldIsCurrent'
    <2> SUFFICES ASSUME NEW v \in Workers, NEW d \in Held(v)', d.job \notin disturbed
                 PROVE  status'[d.job] = "processing" /\ attempts[d.job] = d.attempt
      BY <1>2 DEF HeldIsCurrent
    <2>1. d \in Held(v) /\ d \in Deliveries /\ d.job \in JobIds
      BY <1>1, <1>3, HeldType DEF Deliveries
    <2>2. d.job # c.job
      <3> SUFFICES ASSUME d.job = c.job PROVE FALSE
        OBVIOUS
      <3>1. d = c /\ v = w
        BY <2>1, NextJobDrops, HeldIsUnique
      <3>2. QED
        BY <3>1, NextJobDrops
    <2>3. QED
      BY <1>1, <2>1, <2>2, ReleaseRows DEF IInv, HeldIsCurrent
  <1>11. WaitingIsUnlocked'
    BY <1>1, ReleaseRows DEF IInv, WaitingIsUnlocked
  <1>12. QED
    BY <1>4, <1>6, <1>7, <1>8, <1>9, <1>10, <1>11, NextJobDrops DEF IInv

(* Steps that make a worker let go of deliveries without telling the queue *)
(* keep the invariant, as the jobs are recorded as lost.                   *)
LEMMA DroppingKeepsIInv ==
    ASSUME IInv, TypeOK', LoopIsIdle', CurHasRun', NEW w \in Workers,
           UNCHANGED <<created, status, attempts, lock, ran, disturbed>>,
           hand'[w] \subseteq hand[w], Held(w)' \subseteq Held(w),
           \A v \in Workers \ {w} : hand'[v] = hand[v] /\ Held(v)' = Held(v),
           lost \subseteq lost', \A d \in Held(w) \ Held(w)' : d.job \in lost'
    PROVE  IInv'
  <1>1. \A v \in Workers : Held(v)' \subseteq Held(v) /\ hand'[v] \subseteq hand[v]
    OBVIOUS
  <1>2. AttemptsCounted' /\ HeldIsCurrent'
    BY <1>1 DEF IInv, AttemptsCounted, HeldIsCurrent
  <1>3. DeliveryRunsOnce'
    BY <1>1 DEF IInv, DeliveryRunsOnce
  <1>4. ProcessingIsHeld'
    <2> SUFFICES ASSUME NEW j \in JobIds, status[j] = "processing", j \notin lost'
                 PROVE  \E v \in Workers : \E d \in Held(v)' :
                            d.job = j /\ d.attempt = attempts[j]
      BY DEF ProcessingIsHeld
    <2>1. PICK v \in Workers : \E d \in Held(v) : d.job = j /\ d.attempt = attempts[j]
      BY DEF IInv, ProcessingIsHeld
    <2>2. QED
      BY <2>1
  <1>5. AbsentRows' /\ WaitingIsUnlocked'
    BY <1>1 DEF IInv, AbsentRows, WaitingIsUnlocked
  <1>6. QED
    BY <1>2, <1>3, <1>4, <1>5 DEF IInv

LEMMA SettleLostKeepsIInv == \A w \in Workers : IInv /\ SettleLost(w) => IInv'
  <1> SUFFICES ASSUME NEW w \in Workers, IInv, SettleLost(w) PROVE IInv'
    OBVIOUS
  <1>1. pc[w] = "settle" /\ NextJob(w) /\ TypeOK
    BY DEF SettleLost, IInv
  <1>2. UNCHANGED <<created, status, attempts, lock, requeues, ran, disturbed>>
        /\ lost' = lost \cup {cur[w].job}
    BY DEF SettleLost, rows
  <1>3. faults' \in 0 .. MaxFaults
    BY <1>1, QueueConstants DEF SettleLost, Fault, TypeOK
  <1>4. TypeOK' /\ CurHasRun'
    BY <1>1, <1>2, <1>3, NextJobDrops DEF TypeOK, CurHasRun, IInv
  <1>5. QED
    BY <1>1, <1>2, <1>4, NextJobDrops, DroppingKeepsIInv

LEMMA VanishKeepsIInv == \A w \in Workers : IInv /\ (Exit(w) \/ Crash(w)) => IInv'
  <1> SUFFICES ASSUME NEW w \in Workers, IInv, Exit(w) \/ Crash(w) PROVE IInv'
    OBVIOUS
  <1>1. Vanish(w) /\ TypeOK
    BY DEF Exit, Crash, IInv
  <1>2. faults' \in 0 .. MaxFaults
    BY <1>1, QueueConstants DEF Exit, Crash, Fault, TypeOK
  <1>3. hand'[w] = {} /\ Held(w)' = {}
    BY <1>1 DEF Vanish, Held, TypeOK
  <1>4. \A v \in Workers \ {w} : hand'[v] = hand[v] /\ Held(v)' = Held(v)
    BY <1>1 DEF Vanish, Held, TypeOK
  <1>5. JobsHeld(w) \subseteq JobIds
    BY <1>1, HeldType
  <1>6. TypeOK' /\ LoopIsIdle' /\ CurHasRun'
    BY <1>1, <1>2, <1>5 DEF Vanish, TypeOK, LoopIsIdle, CurHasRun, IInv, rows
  <1>7. \A d \in Held(w) \ Held(w)' : d.job \in lost'
    BY <1>1 DEF Vanish, JobsHeld
  <1>8. UNCHANGED <<created, status, attempts, lock, ran, disturbed>>
        /\ lost \subseteq lost'
    BY <1>1 DEF Vanish, rows
  <1>9. QED
    BY <1>3, <1>4, <1>6, <1>7, <1>8, DroppingKeepsIInv

LEMMA RequeueJobKeepsIInv == \A j \in JobIds : IInv /\ RequeueJob(j) => IInv'
  <1> SUFFICES ASSUME NEW j \in JobIds, IInv, RequeueJob(j) PROVE IInv'
    OBVIOUS
  <1>1. TypeOK /\ "queued" \in JobStatuses /\ Release(j, "queued") /\ j <= created
    BY DEF IInv, RequeueJob, JobStatuses
  <1>2. UNCHANGED <<mode, pc, hand, cur, result, faults, ran, lost>>
        /\ disturbed \subseteq disturbed' /\ disturbed' \subseteq disturbed \cup {j}
        /\ (IsHeld(j) => j \in disturbed')
    BY DEF RequeueJob, worker
  <1>3. \A v : Held(v)' = Held(v)
    BY <1>2, SameHands
  <1>4. requeues' \in 0 .. MaxRequeues
    BY <1>1, QueueConstants DEF RequeueJob, TypeOK
  <1>5. TypeOK'
    BY <1>1, <1>2, <1>4, ReleaseRows DEF TypeOK
  <1>6. AbsentRows'
    BY <1>1, <1>3, ReleaseRows DEF IInv, AbsentRows, TypeOK, JobIds
  <1>7. LoopIsIdle' /\ CurHasRun' /\ DeliveryRunsOnce'
    BY <1>2, <1>3 DEF IInv, LoopIsIdle, CurHasRun, DeliveryRunsOnce
  <1>8. AttemptsCounted'
    BY <1>1, <1>2, <1>3, ReleaseRows DEF IInv, AttemptsCounted
  <1>9. ProcessingIsHeld'
    BY <1>1, <1>2, <1>3, ReleaseRows DEF IInv, ProcessingIsHeld
  <1>10. HeldIsCurrent'
    <2> SUFFICES ASSUME NEW v \in Workers, NEW d \in Held(v), d.job \notin disturbed'
                 PROVE  status'[d.job] = "processing" /\ attempts'[d.job] = d.attempt
      BY <1>3 DEF HeldIsCurrent
    <2>1. d.job \in JobIds /\ d.job # j /\ d.job \notin disturbed
      BY <1>1, <1>2, HeldType DEF IsHeld, JobsHeld, Deliveries
    <2>2. QED
      BY <1>1, <2>1, ReleaseRows DEF IInv, HeldIsCurrent
  <1>11. WaitingIsUnlocked'
    BY <1>1, ReleaseRows DEF IInv, WaitingIsUnlocked
  <1>12. QED
    BY <1>5, <1>6, <1>7, <1>8, <1>9, <1>10, <1>11 DEF IInv

-----------------------------------------------------------------------------
LEMMA InitIInv == Init => IInv
  <1> SUFFICES ASSUME Init PROVE IInv
    OBVIOUS
  <1>1. \A w \in Workers : Held(w) = {}
    BY DEF Init, Held
  <1>2. TypeOK
    BY QueueConstants DEF Init, TypeOK, JobStatuses
  <1>3. QED
    BY <1>1, <1>2
    DEF Init, IInv, AbsentRows, LoopIsIdle, AttemptsCounted, CurHasRun,
        ProcessingIsHeld, DeliveryRunsOnce, HeldIsCurrent, WaitingIsUnlocked

LEMMA NextKeepsIInv == IInv /\ [Next]_vars => IInv'
  <1> SUFFICES ASSUME IInv, [Next]_vars PROVE IInv'
    OBVIOUS
  <1>1. CASE Enqueue
    BY <1>1, EnqueueKeepsIInv
  <1>2. ASSUME NEW w \in Workers, WorkerStep(w) PROVE IInv'
    BY <1>2, ClaimKeepsIInv, StartJobKeepsIInv, JobReturnsKeepsIInv,
       SettleKeepsIInv, SettleLostKeepsIInv, VanishKeepsIInv, ModeStepKeepsIInv
    DEF WorkerStep
  <1>3. ASSUME NEW w \in Workers, ClaimReplyLost(w) \/ Signal(w) \/ Crash(w)
        PROVE  IInv'
    BY <1>3, ClaimReplyLostKeepsIInv, ModeStepKeepsIInv, VanishKeepsIInv
  <1>4. ASSUME NEW j \in JobIds, LockExpires(j) \/ RequeueJob(j) PROVE IInv'
    BY <1>4, LockExpiresKeepsIInv, RequeueJobKeepsIInv
  <1>5. CASE UNCHANGED vars
    <2>1. \A w : Held(w)' = Held(w)
      BY <1>5, SameHands DEF vars, worker
    <2>2. QED
      BY <1>5, <2>1
      DEF vars, rows, worker, history, IInv, TypeOK, AbsentRows, LoopIsIdle,
          AttemptsCounted, CurHasRun, ProcessingIsHeld, DeliveryRunsOnce,
          HeldIsCurrent, WaitingIsUnlocked
  <1>6. QED
    BY <1>1, <1>2, <1>3, <1>4, <1>5 DEF Next

LEMMA Invariance == Spec => []IInv
  BY InitIInv, NextKeepsIInv, PTL DEF Spec

(* Every variable of the queue and of its workers keeps its type.          *)
THEOREM TypeCorrect == Spec => []TypeOK
  BY Invariance, PTL DEF IInv

(* A delivery (a job at one attempt) is processed at most once and by one  *)
(* worker, over every claim, crash, shutdown, expired lock and requeue.    *)
THEOREM DeliveriesRunOnce == Spec => []DeliveryRunsOnce
  BY Invariance, PTL DEF IInv

(* A worker settles its own claim unless the job was requeued in flight.   *)
THEOREM HeldDeliveriesAreCurrent == Spec => []HeldIsCurrent
  BY Invariance, PTL DEF IInv

(* Two workers process one job only if it was requeued in flight.          *)
THEOREM NoJobIsProcessedTwice == Spec => []NoDoubleProcessing
  <1>1. IInv => NoDoubleProcessing
    <2> SUFFICES ASSUME IInv, NEW v \in Workers, NEW w \in Workers, v # w,
                        NEW j \in JobsHeld(v) \cap JobsHeld(w), j \notin disturbed
                 PROVE  FALSE
      BY DEF NoDoubleProcessing
    <2>1. PICK c \in Held(v) : c.job = j
      BY DEF JobsHeld
    <2>2. PICK d \in Held(w) : d.job = j
      BY DEF JobsHeld
    <2>3. QED
      BY <2>1, <2>2, HeldIsUnique
  <1>2. QED
    BY <1>1, Invariance, PTL

(* Only a crash, a shutdown or a lost reply strands a row.                 *)
THEOREM OnlyLossStrands == Spec => []StrandedOnlyByLoss
  <1>1. IInv => StrandedOnlyByLoss
    BY DEF IInv, ProcessingIsHeld, StrandedOnlyByLoss, IsHeld, JobsHeld
  <1>2. QED
    BY <1>1, Invariance, PTL

(* The locked_until condition of Claim never holds a waiting row back.     *)
THEOREM WaitingRowsAreUnlocked == Spec => []WaitingIsUnlocked
  BY Invariance, PTL DEF IInv

(* Done work is redone only after a requeue.                               *)
THEOREM DoneStaysDone == Spec => DoneIsFinal
  <1>1. IInv /\ [Next]_vars =>
          [\A j \in JobIds :
              status[j] = "done" /\ status'[j] # "done" =>
                  \/ requeues' > requeues /\ status'[j] = "queued"
                  \/ j \in disturbed]_vars
    <2> SUFFICES ASSUME IInv, Next, NEW j \in JobIds,
                        status[j] = "done", status'[j] # "done", j \notin disturbed
                 PROVE  requeues' > requeues /\ status'[j] = "queued"
      OBVIOUS
    <2>1. TypeOK
      BY DEF IInv
    <2>2. ASSUME NEW w \in Workers, Claim(w) \/ ClaimReplyLost(w) PROVE FALSE
      BY <2>1, <2>2, MarkClaimedRows, ClaimableFacts DEF Claim, ClaimReplyLost
    <2>3. ASSUME NEW w \in Workers, Ack(w) \/ Fail(w) PROVE FALSE
      <3>1. pc[w] = "settle" /\ NextJob(w) /\ \E st \in {"done", "failed"} : Release(cur[w].job, st)
        BY <2>3 DEF Ack, Fail
      <3>2. cur[w].job = j \/ status'[j] = status[j]
        BY <2>1, <3>1 DEF Release, TypeOK
      <3>3. QED
        BY <3>1, <3>2, NextJobDrops DEF IInv, HeldIsCurrent
    <2>4. ASSUME Enqueue PROVE FALSE
      BY <2>1, <2>4, QueueConstants DEF Enqueue, IInv, AbsentRows, TypeOK, JobIds
    <2>5. ASSUME NEW k \in JobIds, RequeueJob(k)
          PROVE  requeues' > requeues /\ status'[j] = "queued"
      BY <2>1, <2>5, QueueConstants DEF RequeueJob, Release, TypeOK
    <2>6. ASSUME NEW w \in Workers,
                 \/ StartJob(w) \/ JobReturns(w) \/ SettleLost(w) \/ Exit(w)
                 \/ Restart(w) \/ Signal(w) \/ Crash(w)
          PROVE  FALSE
      BY <2>6 DEF StartJob, JobReturns, SettleLost, Exit, Restart, Signal,
                  Crash, Vanish, rows
    <2>7. ASSUME NEW k \in JobIds, LockExpires(k) PROVE FALSE
      BY <2>7 DEF LockExpires
    <2>8. QED
      BY <2>2, <2>3, <2>4, <2>5, <2>6, <2>7 DEF Next, WorkerStep
  <1>2. QED
    BY <1>1, Invariance, PTL DEF Spec, DoneIsFinal
=============================================================================
