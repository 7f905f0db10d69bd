------------------------------ MODULE JobQueue ------------------------------
(***************************************************************************)
(* The Postgres-backed work queue (internal/queue/dbqueue.go, table        *)
(* receipt_jobs), the loop of the worker processes that consume it         *)
(* (cmd/worker/main.go) and the operator's requeue                         *)
(* (internal/http/receipts.go).                                            *)
(*                                                                         *)
(* Every SQL statement of the queue is one atomic step.  What a job does   *)
(* (processJob) is abstracted to its outcome: it returns nil or an error.  *)
(* The rows are numbered in the order of created_at, the order Claim       *)
(* serves them in.                                                         *)
(***************************************************************************)
EXTENDS Naturals, FiniteSets

CONSTANTS
    Workers,      \* worker processes
    MaxAttempts,  \* QUEUE_MAX_ATTEMPTS, the limit Claim compares attempts with
    BatchSize,    \* QUEUE_BATCH, the LIMIT of Claim
    NoJob,        \* a worker that is running nothing
    MaxJobs,      \* bound of the model: rows ever inserted
    MaxRequeues,  \* bound of the model: operator requeues
    MaxFaults     \* bound of the model: crashes, signals, lost replies

ASSUME QueueConstants ==
    /\ MaxAttempts \in Nat \ {0}
    /\ BatchSize \in Nat \ {0}
    /\ MaxJobs \in Nat
    /\ MaxRequeues \in Nat
    /\ MaxFaults \in Nat

JobIds == 1 .. MaxJobs

(* What Claim returns for a row: the id and the attempt it has just begun. *)
Deliveries == [job : JobIds, attempt : 1 .. MaxAttempts]

ASSUME NoJobAssumption == NoJob \notin Deliveries

VARIABLES
    created,    \* rows inserted so far: the table holds 1..created
    status,     \* receipt_jobs.status; "absent" before the INSERT
    attempts,   \* receipt_jobs.attempts
    lock,       \* receipt_jobs.locked_until: NULL, in the future, in the past
    mode,       \* a worker process: up, told to stop (rootCtx done), or down
    pc,         \* where its loop stands
    hand,       \* claimed deliveries it has not started
    cur,        \* the delivery it is processing
    result,     \* what processJob returned for it
    requeues,   \* requeues so far (bound)
    faults,     \* faults so far (bound)
    ran,        \* history: deliveries whose processing has started
    disturbed,  \* history: jobs requeued while a worker held them
    lost        \* history: jobs whose worker vanished or whose reply was lost

rows    == <<created, status, attempts, lock>>
worker  == <<mode, pc, hand, cur, result>>
history == <<ran, disturbed, lost>>
vars    == <<rows, worker, requeues, faults, history>>

JobStatuses == {"absent", "queued", "processing", "done", "failed"}

Init ==
    /\ created = 0
    /\ status = [j \in JobIds |-> "absent"]
    /\ attempts = [j \in JobIds |-> 0]
    /\ lock = [j \in JobIds |-> "null"]
    /\ mode = [w \in Workers |-> "up"]
    /\ pc = [w \in Workers |-> "loop"]
    /\ hand = [w \in Workers |-> {}]
    /\ cur = [w \in Workers |-> NoJob]
    /\ result = [w \in Workers |-> "nil"]
    /\ requeues = 0
    /\ faults = 0
    /\ ran = {}
    /\ disturbed = {}
    /\ lost = {}

(* The deliveries worker w is responsible for, and the jobs they are of.   *)
Held(w) == hand[w] \cup ({cur[w]} \ {NoJob})
JobsHeld(w) == {d.job : d \in Held(w)}
IsHeld(j) == \E w \in Workers : j \in JobsHeld(w)

-----------------------------------------------------------------------------
(* The queue's statements.                                                 *)

(* Enqueue inserts a row; there is no deduplication.                       *)
Enqueue ==
    /\ created < MaxJobs
    /\ created' = created + 1
    /\ status' = [status EXCEPT ![created + 1] = "queued"]
    /\ UNCHANGED <<attempts, lock, worker, requeues, faults, history>>

(* Slips in the WHERE clause: taking back rows whose lock ran out, or      *)
(* forgetting the failed rows, or the limit of attempts.                   *)
ClaimableByTimeout(j) ==
    /\ status[j] \in {"queued", "failed", "processing"}
    /\ attempts[j] < MaxAttempts
    /\ lock[j] # "future"

ClaimableFirstTimeOnly(j) ==
    status[j] = "queued" /\ attempts[j] < MaxAttempts /\ lock[j] # "future"

ClaimableWithoutLimit(j) ==
    status[j] \in {"queued", "failed"} /\ lock[j] # "future"

(* The WHERE clause of Claim.                                              *)
Claimable(j) ==
    /\ status[j] \in {"queued", "failed"}
    /\ attempts[j] < MaxAttempts
    /\ lock[j] # "future"

ClaimableJobs == {j \in JobIds : Claimable(j)}

(* ORDER BY created_at LIMIT BatchSize.                                    *)
IsBatch(S) ==
    /\ S # {}
    /\ Cardinality(S) <= BatchSize
    /\ \A k \in ClaimableJobs \ S :
          Cardinality(S) = BatchSize /\ \A j \in S : j < k

(* A slip in the UPDATE: the attempt is not counted.                       *)
MarkClaimedUncounted(S) ==
    /\ status' = [j \in JobIds |-> IF j \in S THEN "processing" ELSE status[j]]
    /\ lock' = [j \in JobIds |-> IF j \in S THEN "future" ELSE lock[j]]
    /\ UNCHANGED <<created, attempts>>

(* The UPDATE of Claim over the selected rows.                             *)
MarkClaimed(S) ==
    /\ status' = [j \in JobIds |-> IF j \in S THEN "processing" ELSE status[j]]
    /\ attempts' = [j \in JobIds |->
                       IF j \in S THEN attempts[j] + 1 ELSE attempts[j]]
    /\ lock' = [j \in JobIds |-> IF j \in S THEN "future" ELSE lock[j]]
    /\ UNCHANGED created

(* A slip in the UPDATE: a failed job keeps its status.                    *)
ReleaseLockOnly(j, st) ==
    /\ status' = [status EXCEPT ![j] = IF st = "failed" THEN @ ELSE st]
    /\ lock' = [lock EXCEPT ![j] = "null"]
    /\ UNCHANGED <<created, attempts>>

(* The UPDATE shared by Ack, Fail and Requeue: by id, whatever the row's   *)
(* status and whoever holds it.                                            *)
Release(j, st) ==
    /\ status' = [status EXCEPT ![j] = st]
    /\ lock' = [lock EXCEPT ![j] = "null"]
    /\ UNCHANGED <<created, attempts>>

(* locked_until passes.                                                    *)
LockExpires(j) ==
    /\ lock[j] = "future"
    /\ lock' = [lock EXCEPT ![j] = "past"]
    /\ UNCHANGED <<created, status, attempts, worker, requeues, faults, history>>

-----------------------------------------------------------------------------
(* The worker loop.                                                        *)

Fault == faults < MaxFaults /\ faults' = faults + 1

(* The worker is back at Claim when its batch is empty.  The UPDATE        *)
(* returns the claimed rows in no particular order: hand is a set.         *)
Claim(w) ==
    /\ mode[w] = "up" /\ pc[w] = "loop" /\ hand[w] = {}
    /\ \E S \in SUBSET ClaimableJobs :
          /\ IsBatch(S)
          /\ MarkClaimed(S)
          /\ hand' = [hand EXCEPT ![w] =
                         {[job |-> j, attempt |-> attempts[j] + 1] : j \in S}]
    /\ UNCHANGED <<mode, pc, cur, result, requeues, faults, history>>

(* The claim commits but the worker gets an error (claimCtx times out or   *)
(* the connection breaks): it logs, sleeps and claims again.               *)
ClaimReplyLost(w) ==
    /\ mode[w] = "up" /\ pc[w] = "loop" /\ hand[w] = {}
    /\ Fault
    /\ \E S \in SUBSET ClaimableJobs :
          /\ IsBatch(S)
          /\ MarkClaimed(S)
          /\ lost' = lost \cup S
    /\ UNCHANGED <<worker, requeues, ran, disturbed>>

(* The next iteration of "for _, job := range jobs".                       *)
StartJob(w) ==
    /\ mode[w] = "up" /\ pc[w] = "loop"
    /\ \E d \in hand[w] :
          /\ cur' = [cur EXCEPT ![w] = d]
          /\ hand' = [hand EXCEPT ![w] = @ \ {d}]
          /\ ran' = ran \cup {d}
    /\ pc' = [pc EXCEPT ![w] = "running"]
    /\ UNCHANGED <<rows, mode, result, requeues, faults, disturbed, lost>>

(* processJob returns; its context ends after 45 seconds at the latest.    *)
JobReturns(w) ==
    /\ pc[w] = "running"
    /\ \E r \in {"nil", "error"} : result' = [result EXCEPT ![w] = r]
    /\ pc' = [pc EXCEPT ![w] = "settle"]
    /\ UNCHANGED <<rows, mode, hand, cur, requeues, faults, history>>

(* The settled worker goes on with the rest of its batch.                  *)
NextJob(w) ==
    /\ pc' = [pc EXCEPT ![w] = "loop"]
    /\ cur' = [cur EXCEPT ![w] = NoJob]
    /\ UNCHANGED <<mode, hand, result>>

(* ackCtx derives from rootCtx, so only a worker not told to stop settles. *)
Ack(w) ==
    /\ mode[w] = "up" /\ pc[w] = "settle" /\ result[w] = "nil"
    /\ Release(cur[w].job, "done")
    /\ NextJob(w)
    /\ UNCHANGED <<requeues, faults, history>>

(* The worker always passes retry = true: no row ever becomes "dead".      *)
Fail(w) ==
    /\ mode[w] = "up" /\ pc[w] = "settle" /\ result[w] = "error"
    /\ Release(cur[w].job, "failed")
    /\ NextJob(w)
    /\ UNCHANGED <<requeues, faults, history>>

(* Ack or Fail returns an error: it is logged, never retried.              *)
SettleLost(w) ==
    /\ pc[w] = "settle"
    /\ \/ mode[w] = "up" /\ Fault
       \/ mode[w] = "stopping" /\ UNCHANGED faults
    /\ lost' = lost \cup {cur[w].job}
    /\ NextJob(w)
    /\ UNCHANGED <<rows, requeues, ran, disturbed>>

(* SIGTERM or SIGINT cancels rootCtx.                                      *)
Signal(w) ==
    /\ mode[w] = "up"
    /\ Fault
    /\ mode' = [mode EXCEPT ![w] = "stopping"]
    /\ UNCHANGED <<rows, pc, hand, cur, result, requeues, history>>

(* The process is gone and, with it, all it held.                          *)
Vanish(w) ==
    /\ mode' = [mode EXCEPT ![w] = "down"]
    /\ pc' = [pc EXCEPT ![w] = "loop"]
    /\ hand' = [hand EXCEPT ![w] = {}]
    /\ cur' = [cur EXCEPT ![w] = NoJob]
    /\ lost' = lost \cup JobsHeld(w)
    /\ UNCHANGED <<rows, result, requeues, ran, disturbed>>

(* "worker stopping": the loop returns between two jobs; the rest of the   *)
(* batch is not handed back.                                               *)
Exit(w) ==
    /\ mode[w] = "stopping" /\ pc[w] = "loop"
    /\ Vanish(w)
    /\ UNCHANGED faults

Crash(w) ==
    /\ mode[w] # "down"
    /\ Fault
    /\ Vanish(w)

(* The deployment starts the process again.                                *)
Restart(w) ==
    /\ mode[w] = "down"
    /\ mode' = [mode EXCEPT ![w] = "up"]
    /\ UNCHANGED <<rows, pc, hand, cur, result, requeues, faults, history>>

-----------------------------------------------------------------------------
(* POST /receipts/:id/requeue requeues the receipt's latest job.  The id   *)
(* is read by an earlier statement, so j is any row that was once the      *)
(* latest, and its status is not looked at.                                *)
RequeueJob(j) ==
    /\ j <= created
    /\ requeues < MaxRequeues
    /\ requeues' = requeues + 1
    /\ Release(j, "queued")
    /\ disturbed' = IF IsHeld(j) THEN disturbed \cup {j} ELSE disturbed
    /\ UNCHANGED <<worker, faults, ran, lost>>

WorkerStep(w) ==
    \/ Claim(w)
    \/ StartJob(w)
    \/ JobReturns(w)
    \/ Ack(w)
    \/ Fail(w)
    \/ SettleLost(w)
    \/ Exit(w)
    \/ Restart(w)

Next ==
    \/ Enqueue
    \/ \E w \in Workers :
          \/ WorkerStep(w)
          \/ ClaimReplyLost(w)
          \/ Signal(w)
          \/ Crash(w)
    \/ \E j \in JobIds : LockExpires(j) \/ RequeueJob(j)

Spec == Init /\ [][Next]_vars

(* The loop of a live process never blocks for good: every statement and   *)
(* every job runs under a timeout, and the deployment restarts a worker    *)
(* that ended.  Time passes.  Nobody is obliged to requeue anything.       *)
FairSpec ==
    /\ Spec
    /\ \A w \in Workers : WF_vars(WorkerStep(w))
    /\ \A j \in JobIds : WF_vars(LockExpires(j))

-----------------------------------------------------------------------------
(* Properties.                                                             *)

(* Every variable keeps its type.                                          *)
TypeOK ==
    /\ created \in 0 .. MaxJobs
    /\ status \in [JobIds -> JobStatuses]
    /\ attempts \in [JobIds -> 0 .. MaxAttempts]
    /\ lock \in [JobIds -> {"null", "future", "past"}]
    /\ mode \in [Workers -> {"up", "stopping", "down"}]
    /\ pc \in [Workers -> {"loop", "running", "settle"}]
    /\ hand \in [Workers -> SUBSET Deliveries]
    /\ cur \in [Workers -> Deliveries \cup {NoJob}]
    /\ result \in [Workers -> {"nil", "error"}]
    /\ requeues \in 0 .. MaxRequeues
    /\ faults \in 0 .. MaxFaults
    /\ ran \subseteq Deliveries
    /\ disturbed \subseteq JobIds
    /\ lost \subseteq JobIds

(* A job is in the hands of two workers only if an operator requeued it    *)
(* while one of them held it: no interleaving of claims, retries, expired  *)
(* locks, crashes and shutdowns hands the same job out twice.              *)
NoDoubleProcessing ==
    \A v, w \in Workers :
        v # w => JobsHeld(v) \cap JobsHeld(w) \subseteq disturbed

(* A delivery is processed at most once: none that is still to be started  *)
(* has run before, and no two workers share one.  As attempt numbers stop  *)
(* at MaxAttempts, a job that kills its worker or always fails runs at     *)
(* most MaxAttempts times, over every restart and requeue.                 *)
DeliveryRunsOnce ==
    /\ \A w \in Workers : hand[w] \cap ran = {}
    /\ \A v, w \in Workers : v # w => Held(v) \cap Held(w) = {}

(* Unless it was requeued in flight, a delivery a worker holds is the      *)
(* current one: the row is "processing" and at that attempt, so the        *)
(* worker's Ack or Fail, which names only the id, settles its own claim.   *)
HeldIsCurrent ==
    \A w \in Workers : \A d \in Held(w) :
        d.job \notin disturbed =>
            /\ status[d.job] = "processing"
            /\ attempts[d.job] = d.attempt

(* A row is "processing" without a worker only after a crash, a shutdown   *)
(* or a lost reply: nothing else strands it.                               *)
StrandedOnlyByLoss ==
    \A j \in JobIds :
        status[j] = "processing" /\ ~ IsHeld(j) => j \in lost

(* A row that waits to be claimed carries no lock, so the locked_until     *)
(* condition of Claim never holds one back: a failed job is retried at     *)
(* once, and only the status keeps a held job from being claimed again.    *)
WaitingIsUnlocked ==
    \A j \in JobIds : status[j] # "processing" => lock[j] = "null"

(* Finished work is not redone behind the operator's back: a row leaves    *)
(* "done" only by a requeue, or by the late Fail of a worker that was      *)
(* still holding the job when it was requeued.                             *)
DoneIsFinal ==
    [][\A j \in JobIds :
          status[j] = "done" /\ status'[j] # "done" =>
              \/ requeues' > requeues /\ status'[j] = "queued"
              \/ j \in disturbed]_vars

Exhausted(j) == attempts[j] = MaxAttempts /\ status[j] \in {"queued", "failed"}
Stranded(j)  == status[j] = "processing" /\ ~ IsHeld(j)

(* Every waiting job is eventually done, out of attempts, or stranded by   *)
(* a loss: earlier jobs that keep failing cannot starve it, although Claim *)
(* serves them first on every retry.                                       *)
EveryJobSettles ==
    \A j \in JobIds :
        status[j] \in {"queued", "failed"} ~>
            (status[j] = "done" \/ Exhausted(j) \/ Stranded(j))

-----------------------------------------------------------------------------
(* docs/queue.md:27 "If a worker crashes, job becomes visible after        *)
(* timeout": a stranded row whose lock has run out and that has attempts   *)
(* left is eventually claimable.  Claim does not look at "processing" rows.*)
VisibleAfterTimeout ==
    \A j \in JobIds :
        (Stranded(j) /\ lock[j] = "past" /\ attempts[j] < MaxAttempts) ~>
            (Claimable(j) \/ IsHeld(j) \/ status[j] = "done")
=============================================================================
