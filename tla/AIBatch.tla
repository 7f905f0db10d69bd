------------------------------- MODULE AIBatch ------------------------------
(***************************************************************************)
(* The batched receipt pipeline: internal/aibatch submits, collects and    *)
(* resets provider batches, internal/receiptbatch moves each receipt       *)
(* through extract, vendor and classify, and receipt_pipeline_state is the *)
(* lease (status in_flight) that keeps a receipt in one batch at a time.   *)
(*                                                                         *)
(* A run is one execution of a scheduler task; runs of several replicas    *)
(* overlap.  What the model says is not told apart here: who wrote the     *)
(* draft's lines and what happens to them later, which is module Ledger.   *)
(***************************************************************************)
EXTENDS Integers, FiniteSets

CONSTANTS
    Runs,         \* task runs that may overlap
    Duties,       \* Duties[p]: the tasks run p may execute
    Receipts,
    Slots,        \* bound of the model: rows of ai_batch_jobs in use at once
    NoJob,
    BatchLimit,   \* Deps.BatchLimit: receipts claimed at a time
    MaxFaults     \* bound of the model: errors, crashes and bad batches

Tasks == {"submit", "collect", "reset"}

ASSUME AIBatchConstants ==
    /\ Duties \in [Runs -> SUBSET Tasks]
    /\ BatchLimit \in Nat \ {0}
    /\ MaxFaults \in Nat
    /\ NoJob \notin Slots

AIStages == {"extract", "vendor", "classify"}
Settled  == {"done", "review"}

VARIABLES
    stage,     \* receipt_pipeline_state.stage, "none" before Ensure
    leased,    \* its status is in_flight
    draft,     \* the draft finalize writes: "no", "half" (written, but the
               \* stage was not advanced), "built", "rebuilt"
    jobs,      \* ai_batch_jobs with its items, and the provider's batch
    pc, task, kind, claimed, items, todo, job, verdict,  \* a run's locals
    faults,    \* faults so far (bound)
    returned,  \* history: items of a job that were applied or reset
    repeated,  \* history: receipts a job gave back a second time
    stranded   \* history: receipts whose last holder went without a word

rows   == <<stage, leased, draft>>
plan   == <<task, kind>>
locals == <<plan, claimed, items, todo, job, verdict>>
ghosts == <<returned, repeated, stranded>>
vars   == <<rows, jobs, pc, locals, faults, ghosts>>

Batches  == {"running", "completed", "failed", "expired", "hung"}
Job      == [kind : AIStages, items : SUBSET Receipts, batch : Batches,
             status : {"submitted", "completed", "failed", "expired"},
             answers : SUBSET Receipts, old : BOOLEAN]
NewJob(k, rs) == [kind |-> k, items |-> rs, batch |-> "running",
                  status |-> "submitted", answers |-> {}, old |-> FALSE]
Forgotten == [NewJob("extract", {}) EXCEPT !.status = "failed"]

Init ==
    /\ stage = [r \in Receipts |-> "none"]
    /\ leased = [r \in Receipts |-> FALSE]
    /\ draft = [r \in Receipts |-> "no"]
    /\ jobs = [j \in Slots |-> Forgotten]
    /\ pc = [p \in Runs |-> "idle"]
    /\ task = [p \in Runs |-> "submit"]
    /\ kind = [p \in Runs |-> "extract"]
    /\ claimed = [p \in Runs |-> {}]
    /\ items = [p \in Runs |-> {}]
    /\ todo = [p \in Runs |-> {}]
    /\ job = [p \in Runs |-> NoJob]
    /\ verdict = [p \in Runs |-> "completed"]
    /\ faults = 0
    /\ returned = [j \in Slots |-> {}]
    /\ repeated = {}
    /\ stranded = {}

-----------------------------------------------------------------------------
(* receipt_pipeline_state.                                                 *)

(* A slip: a stage nobody gathers.                                         *)
NextStageMisspelt(s) == IF s = "extract" THEN "vendor-match" ELSE "done"

NextStage(s) == IF s = "extract" THEN "vendor"
                ELSE IF s = "vendor" THEN "classify" ELSE "done"

Pending(k) == {r \in Receipts : stage[r] = k /\ ~ leased[r]}

(* A slip: the claim does not look at the status.                          *)
ClaimableLeasedToo(k) == {c \in SUBSET {r \in Receipts : stage[r] = k} :
                              c # {} /\ Cardinality(c) <= BatchLimit}

(* ClaimPending takes what is pending at the stage, up to the limit.       *)
Claimable(k) ==
    {c \in SUBSET Pending(k) :
        /\ c # {}
        /\ Cardinality(c) = BatchLimit \/ (c = Pending(k) /\ Cardinality(c) < BatchLimit)}

(* advance and Park write the row whatever it has become meanwhile.        *)
Write(r, s) ==
    /\ stage' = [stage EXCEPT ![r] = s]
    /\ leased' = [leased EXCEPT ![r] = FALSE]

Park(r) == Write(r, "review") /\ UNCHANGED draft

(* A slip: Reset starts the receipt over.                                  *)
ResetToExtract(rs) ==
    /\ stage' = [r \in Receipts |-> IF r \in rs /\ leased[r] THEN "extract" ELSE stage[r]]
    /\ leased' = [r \in Receipts |-> leased[r] /\ r \notin rs]

(* Reset returns the rows that are in flight to pending at their stage.    *)
Reset(rs) ==
    /\ leased' = [r \in Receipts |-> leased[r] /\ r \notin rs]
    /\ UNCHANGED stage

(* finalize: draft, ready_for_review, memo and summary, then the stage; or *)
(* the entry cannot be built and the receipt is parked.                    *)
finalize(r) ==
    \/ Park(r)
    \/ /\ draft' = [draft EXCEPT ![r] = IF @ \in {"no", "half"} THEN "built" ELSE "rebuilt"]
       /\ Write(r, "done")

(* What a completed result, or a short cut, makes of a receipt.            *)
Advance(r, k) ==
    IF k = "classify" THEN finalize(r)
    ELSE Write(r, NextStage(k)) /\ UNCHANGED draft

(* An Apply or a finalize that fails on the way leaves the lease as it is, *)
(* and perhaps a draft that is already written.                            *)
Fails(r, k) ==
    /\ UNCHANGED <<stage, leased>>
    /\ draft' \in {draft} \cup
         (IF k = "classify" /\ draft[r] = "no" THEN {[draft EXCEPT ![r] = "half"]} ELSE {})

(* processJob enters a receipt once; Ensure leaves an existing row alone.  *)
Ensure(r) ==
    /\ stage[r] = "none"
    /\ stage' = [stage EXCEPT ![r] = "extract"]
    /\ UNCHANGED <<leased, draft, jobs, pc, locals, faults, ghosts>>

-----------------------------------------------------------------------------
Goto(p, l) == pc' = [pc EXCEPT ![p] = l]
Set(f, p, v) == [f EXCEPT ![p] = v]
Fault == faults < MaxFaults /\ faults' = faults + 1

(* A run returns, and its locals are gone.                                 *)
Return(p) ==
    /\ Goto(p, "idle")
    /\ task' = Set(task, p, "submit")
    /\ kind' = Set(kind, p, "extract")
    /\ claimed' = Set(claimed, p, {})
    /\ items' = Set(items, p, {})
    /\ todo' = Set(todo, p, {})
    /\ job' = Set(job, p, NoJob)
    /\ verdict' = Set(verdict, p, "completed")

Open(j) == jobs[j].status = "submitted"

(* A run that will still look at job j.  A closed job nobody will look at  *)
(* is forgotten, so that its slot can stand for another one.               *)
Reads(p, j) == j \in todo[p] \/ job[p] = j
Free(j) == ~ Open(j) /\ \A p \in Runs : ~ Reads(p, j)

-----------------------------------------------------------------------------
(* aibatch-submit: SubmitAll is Submit for each kind, in the order of a    *)
(* map; nothing is carried from one to the next.                           *)

(* Submit and the claim of its Gather.  One that finds nothing pending     *)
(* changes nothing and is left out.                                        *)
Submit(p, k) ==
    /\ pc[p] = "idle"
    /\ "submit" \in Duties[p]
    /\ \E c \in Claimable(k) :
        /\ leased' = [r \in Receipts |-> leased[r] \/ r \in c]
        /\ claimed' = Set(claimed, p, c)
    /\ task' = Set(task, p, "submit")
    /\ kind' = Set(kind, p, k)
    /\ Goto(p, "gather")
    /\ UNCHANGED <<stage, draft, jobs, items, todo, job, verdict, faults, ghosts>>

(* The claim commits, but its reply is lost.                               *)
ClaimReplyLost(p, k) ==
    /\ pc[p] = "idle"
    /\ "submit" \in Duties[p]
    /\ Fault
    /\ \E c \in Claimable(k) :
        /\ leased' = [r \in Receipts |-> leased[r] \/ r \in c]
        /\ stranded' = stranded \cup c
    /\ UNCHANGED <<stage, draft, jobs, pc, locals, returned, repeated>>

Looked(p, r) == claimed' = Set(claimed, p, claimed[p] \ {r})

GatherItem(p) ==
    /\ pc[p] = "gather"
    /\ \E r \in claimed[p] :
        /\ Looked(p, r)
        /\ items' = Set(items, p, items[p] \cup {r})
    /\ UNCHANGED <<rows, jobs, pc, plan, todo, job, verdict, faults, ghosts>>

(* Without the AI: no OCR text; no vendor named or an exact match; a       *)
(* vendor with a default account, or an unreadable extract.                *)
GatherShortCut(p) ==
    /\ pc[p] = "gather"
    /\ \E r \in claimed[p] :
        /\ Looked(p, r)
        /\ IF kind[p] = "extract" THEN Park(r) ELSE Advance(r, kind[p])
    /\ UNCHANGED <<jobs, pc, plan, items, todo, job, verdict, faults, ghosts>>

(* The receipt cannot be read: a later round tries again.                  *)
GatherResets(p) ==
    /\ pc[p] = "gather"
    /\ kind[p] = "classify"
    /\ Fault
    /\ \E r \in claimed[p] : Looked(p, r) /\ Reset({r})
    /\ UNCHANGED <<draft, jobs, pc, plan, items, todo, job, verdict, ghosts>>

(* The short cut's error is ignored: the receipt is in no batch.           *)
GatherLoses(p) ==
    /\ pc[p] = "gather"
    /\ Fault
    /\ \E r \in claimed[p] :
        /\ Looked(p, r)
        /\ Fails(r, kind[p])
        /\ stranded' = stranded \cup {r}
    /\ UNCHANGED <<jobs, pc, plan, items, todo, job, verdict, returned, repeated>>

(* SubmitBatch, unless there is nothing to submit.                         *)
SubmitBatch(p) ==
    /\ pc[p] = "gather"
    /\ claimed[p] = {}
    /\ IF items[p] = {}
       THEN Return(p)
       ELSE Goto(p, "record") /\ UNCHANGED locals
    /\ UNCHANGED <<rows, jobs, faults, ghosts>>

(* A slip: Submit returns the error without resetting what it claimed.     *)
SubmitGivesUp(p) ==
    /\ pc[p] = "gather"
    /\ claimed[p] = {}
    /\ items[p] # {}
    /\ Fault
    /\ Return(p)
    /\ UNCHANGED <<rows, jobs, ghosts>>

SubmitBatchFails(p) ==
    /\ pc[p] = "gather"
    /\ claimed[p] = {}
    /\ items[p] # {}
    /\ Fault
    /\ Goto(p, "undo")
    /\ UNCHANGED <<rows, jobs, locals, ghosts>>

Insert(p, j) ==
    /\ Free(j)
    /\ jobs' = [jobs EXCEPT ![j] = NewJob(kind[p], items[p])]
    /\ returned' = [returned EXCEPT ![j] = {}]

CreateJob(p) ==
    /\ pc[p] = "record"
    /\ \E j \in Slots : Insert(p, j)
    /\ Return(p)
    /\ UNCHANGED <<rows, faults, repeated, stranded>>

(* CreateJob returns an error, with the transaction rolled back or, when   *)
(* only the reply of the COMMIT is lost, with the job on record.           *)
CreateJobFails(p) ==
    /\ pc[p] = "record"
    /\ Fault
    /\ \/ UNCHANGED <<jobs, returned, job>>
       \/ \E j \in Slots : Insert(p, j) /\ job' = Set(job, p, j)
    /\ Goto(p, "undo")
    /\ UNCHANGED <<rows, plan, claimed, items, todo, verdict, repeated, stranded>>

(* The job gives its lease on receipts rs back.                            *)
GiveBack(j, rs, again) ==
    /\ returned' = [returned EXCEPT ![j] = @ \cup rs]
    /\ repeated' = repeated \cup (again \cap returned[j])

(* The reset after a failed Submit: it stops at the first error, which is  *)
(* only logged.                                                            *)
Undo(p) ==
    /\ pc[p] = "undo"
    /\ \E done \in SUBSET items[p] :
        /\ IF done = items[p] THEN UNCHANGED faults ELSE Fault
        /\ Reset(done)
        /\ IF job[p] = NoJob
           THEN stranded' = stranded \cup (items[p] \ done) /\ UNCHANGED <<returned, repeated>>
           ELSE GiveBack(job[p], done, {r \in done : leased[r]}) /\ UNCHANGED stranded
    /\ Return(p)
    /\ UNCHANGED <<draft, jobs>>

-----------------------------------------------------------------------------
(* aibatch-collect and aibatch-reset-stuck.                                *)

StuckJobs == {j \in Slots : Open(j) /\ jobs[j].old}

(* OpenJobs and StuckJobs are read once, at the start of the run.          *)
StartOn(p, t, js) ==
    /\ pc[p] = "idle"
    /\ t \in Duties[p]
    /\ js # {}
    /\ task' = Set(task, p, t)
    /\ todo' = Set(todo, p, js)
    /\ Goto(p, "loop")
    /\ UNCHANGED <<rows, jobs, kind, claimed, items, job, verdict, faults, ghosts>>

Collect(p)    == StartOn(p, "collect", {j \in Slots : Open(j)})
ResetStuck(p) == StartOn(p, "reset", StuckJobs)

(* The next job of the run's list, at l.                                   *)
Take(p, j, l) ==
    /\ pc[p] = "loop"
    /\ j \in todo[p]
    /\ todo' = Set(todo, p, todo[p] \ {j})
    /\ job' = Set(job, p, IF l = "loop" THEN NoJob ELSE j)
    /\ Goto(p, l)

TakeToReset(p, j, v) ==
    /\ Take(p, j, "reset")
    /\ verdict' = Set(verdict, p, v)
    /\ UNCHANGED claimed

(* GetBatch says what has become of the batch; GetBatchResults brings the  *)
(* results of a completed one.                                             *)
PollJob(p) ==
    /\ task[p] = "collect"
    /\ \E j \in todo[p] :
        \/ /\ jobs[j].batch \in {"running", "hung"}
           /\ Take(p, j, "loop")
           /\ UNCHANGED <<claimed, verdict>>
        \/ /\ jobs[j].batch = "completed"
           /\ Take(p, j, IF jobs[j].answers = {} THEN "mark" ELSE "apply")
           /\ claimed' = Set(claimed, p, jobs[j].answers)
           /\ verdict' = Set(verdict, p, "completed")
        \/ jobs[j].batch \in {"failed", "expired"} /\ TakeToReset(p, j, jobs[j].batch)
    /\ UNCHANGED <<rows, jobs, plan, items, faults, ghosts>>

(* GetBatch, GetBatchResults or Items fail: the next round tries again. Or *)
(* the provider no longer has the output.                                  *)
PollJobFails(p) ==
    /\ task[p] = "collect"
    /\ Fault
    /\ \E j \in todo[p] :
        \/ Take(p, j, "loop") /\ UNCHANGED <<claimed, verdict>>
        \/ jobs[j].batch = "completed" /\ TakeToReset(p, j, "expired")
    /\ UNCHANGED <<rows, jobs, plan, items, ghosts>>

TakeStuckJob(p) ==
    /\ task[p] = "reset"
    /\ \E j \in todo[p] : TakeToReset(p, j, "expired")
    /\ UNCHANGED <<rows, jobs, plan, items, faults, ghosts>>

RunEnds(p) ==
    /\ pc[p] = "loop"
    /\ todo[p] = {}
    /\ Return(p)
    /\ UNCHANGED <<rows, jobs, faults, ghosts>>

Applied(p, r) ==
    /\ pc[p] = "apply"
    /\ Looked(p, r)
    /\ Goto(p, IF claimed[p] = {r} THEN "mark" ELSE "apply")
    /\ UNCHANGED <<jobs, plan, items, todo, job, verdict>>

Apply(p) ==
    \E r \in claimed[p] :
        /\ Applied(p, r)
        /\ Park(r) \/ Advance(r, jobs[job[p]].kind)
        /\ GiveBack(job[p], {r}, {r})
        /\ UNCHANGED <<faults, stranded>>

(* The item is marked failed and the loop goes on.                         *)
ApplyFails(p) ==
    \E r \in claimed[p] :
        /\ Fault
        /\ Applied(p, r)
        /\ Fails(r, jobs[job[p]].kind)
        /\ UNCHANGED ghosts

(* resetJob: an error of Items or Reset is only logged.                    *)
ResetJob(p) ==
    /\ pc[p] = "reset"
    /\ \E done \in SUBSET jobs[job[p]].items :
        /\ IF done = jobs[job[p]].items THEN UNCHANGED faults ELSE Fault
        /\ Reset(done)
        /\ GiveBack(job[p], done, {r \in done : leased[r]})
    /\ Goto(p, "mark")
    /\ UNCHANGED <<draft, jobs, locals, stranded>>

Closed(p, j) ==
    IF \E q \in Runs \ {p} : Reads(q, j) THEN [jobs[j] EXCEPT !.status = verdict[p]]
    ELSE Forgotten

MarkEnds(p) ==
    /\ job' = Set(job, p, NoJob)
    /\ verdict' = Set(verdict, p, "completed")
    /\ Goto(p, "loop")
    /\ UNCHANGED <<rows, plan, claimed, items, todo>>

(* A slip: only a reset job is closed; a completed one stays open.         *)
MarkResetJob(p) ==
    /\ pc[p] = "mark"
    /\ jobs' = IF verdict[p] = "completed" THEN jobs
               ELSE [jobs EXCEPT ![job[p]] = Closed(p, job[p])]
    /\ MarkEnds(p)
    /\ UNCHANGED <<faults, ghosts>>

(* MarkJob closes the job whatever its status; what it had not given back  *)
(* is in nobody's hands.                                                   *)
MarkJob(p) ==
    /\ pc[p] = "mark"
    /\ jobs' = [jobs EXCEPT ![job[p]] = Closed(p, job[p])]
    /\ stranded' = IF Open(job[p])
                   THEN stranded \cup (jobs[job[p]].items \ returned[job[p]])
                   ELSE stranded
    /\ MarkEnds(p)
    /\ UNCHANGED <<faults, returned, repeated>>

MarkJobFails(p) ==
    /\ pc[p] = "mark"
    /\ Fault
    /\ MarkEnds(p)
    /\ UNCHANGED <<jobs, ghosts>>

-----------------------------------------------------------------------------
(* The run's context ends (Timeout) or the process dies; a claim that is   *)
(* in no recorded job is forgotten.                                        *)
Crash(p) ==
    /\ pc[p] # "idle"
    /\ Fault
    /\ stranded' = IF task[p] = "submit" /\ job[p] = NoJob
                   THEN stranded \cup claimed[p] \cup items[p] ELSE stranded
    /\ Return(p)
    /\ UNCHANGED <<rows, jobs, returned, repeated>>

(* The provider ends a batch; unless something goes wrong it is completed  *)
(* and answers every request.                                              *)
BatchEnds(j) ==
    /\ Open(j)
    /\ jobs[j].batch = "running"
    /\ \/ /\ jobs' = [jobs EXCEPT ![j].batch = "completed", ![j].answers = jobs[j].items]
          /\ UNCHANGED faults
       \/ /\ Fault
          /\ \/ \E b \in {"failed", "expired", "hung"} : jobs' = [jobs EXCEPT ![j].batch = b]
             \/ \E a \in SUBSET jobs[j].items :
                   jobs' = [jobs EXCEPT ![j].batch = "completed", ![j].answers = a]
    /\ UNCHANGED <<rows, pc, locals, ghosts>>

(* The job is past the cutoff, which lies past the provider's window: a    *)
(* batch that never ends gets there, another one when collecting fails.    *)
JobAges(j) ==
    /\ Open(j)
    /\ ~ jobs[j].old
    /\ jobs[j].batch # "running"
    /\ IF jobs[j].batch = "hung" THEN UNCHANGED faults ELSE Fault
    /\ jobs' = [jobs EXCEPT ![j].old = TRUE]
    /\ UNCHANGED <<rows, pc, locals, ghosts>>

-----------------------------------------------------------------------------
Step(p) ==
    \/ GatherItem(p)
    \/ GatherShortCut(p)
    \/ SubmitBatch(p)
    \/ CreateJob(p)
    \/ Undo(p)
    \/ PollJob(p)
    \/ TakeStuckJob(p)
    \/ RunEnds(p)
    \/ Apply(p)
    \/ ResetJob(p)
    \/ MarkJob(p)

Trouble(p) ==
    \/ GatherResets(p)
    \/ GatherLoses(p)
    \/ SubmitBatchFails(p)
    \/ CreateJobFails(p)
    \/ PollJobFails(p)
    \/ ApplyFails(p)
    \/ MarkJobFails(p)
    \/ Crash(p)

Start(p) ==
    \/ \E k \in AIStages : Submit(p, k)
    \/ Collect(p)
    \/ ResetStuck(p)

Next ==
    \/ \E r \in Receipts : Ensure(r)
    \/ \E p \in Runs : Start(p) \/ Step(p) \/ Trouble(p)
    \/ \E p \in Runs, k \in AIStages : ClaimReplyLost(p, k)
    \/ \E j \in Slots : BatchEnds(j) \/ JobAges(j)

Spec == Init /\ [][Next]_vars

TimePasses(j) == BatchEnds(j) \/ (JobAges(j) /\ jobs[j].batch = "hung")

(* The scheduler starts a task again and again, a run that has started     *)
(* goes on, and the provider ends its batches within the window.           *)
FairSpec ==
    /\ Spec
    /\ \A p \in Runs : WF_vars(Start(p) \/ Step(p))
    /\ \A j \in Slots : WF_vars(TimePasses(j))

-----------------------------------------------------------------------------
(* Properties.                                                             *)

(* Every variable keeps its type.                                          *)
TypeOK ==
    /\ stage \in [Receipts -> {"none"} \cup AIStages \cup Settled]
    /\ leased \in [Receipts -> BOOLEAN]
    /\ draft \in [Receipts -> {"no", "half", "built", "rebuilt"}]
    /\ jobs \in [Slots -> Job]
    /\ pc \in [Runs -> {"idle", "gather", "record", "undo", "loop",
                        "apply", "reset", "mark"}]
    /\ task \in [Runs -> Tasks]
    /\ kind \in [Runs -> AIStages]
    /\ claimed \in [Runs -> SUBSET Receipts]
    /\ items \in [Runs -> SUBSET Receipts]
    /\ todo \in [Runs -> SUBSET Slots]
    /\ job \in [Runs -> Slots \cup {NoJob}]
    /\ verdict \in [Runs -> {"completed", "failed", "expired"}]
    /\ faults \in 0 .. MaxFaults
    /\ returned \in [Slots -> SUBSET Receipts]
    /\ repeated \subseteq Receipts
    /\ stranded \subseteq Receipts

(* Who is to give the lease on a receipt back: the submit run that has     *)
(* claimed it, until it has recorded a job, and the jobs it is an item of. *)
Submitting(p, r) == task[p] = "submit" /\ job[p] = NoJob /\ r \in claimed[p] \cup items[p]
Holds(j, r)      == Open(j) /\ r \in jobs[j].items \ returned[j]

(* No receipt is in flight on nobody's account, unless a lost reset, an    *)
(* ignored error, a missing result or a crash has stranded it.             *)
LeaseHasHolder ==
    \A r \in Receipts : leased[r] =>
        \/ r \in stranded
        \/ \E p \in Runs : Submitting(p, r)
        \/ \E j \in Slots : Holds(j, r)

(* A receipt is in one batch at a time: its holder is unique, has the      *)
(* lease, and is at the receipt's stage, as long as no job has given a     *)
(* receipt back twice.                                                     *)
OneHolder ==
    \A r \in Receipts \ repeated :
        /\ \A p \in Runs : Submitting(p, r) =>
              /\ leased[r] /\ stage[r] = kind[p]
              /\ \A q \in Runs \ {p} : ~ Submitting(q, r)
              /\ \A j \in Slots : ~ Holds(j, r)
        /\ \A j \in Slots : Holds(j, r) =>
              /\ leased[r] /\ stage[r] = jobs[j].kind
              /\ \A i \in Slots \ {j} : ~ Holds(i, r)

Rank(s) == IF s = "none" THEN 0 ELSE IF s = "extract" THEN 1
           ELSE IF s = "vendor" THEN 2 ELSE IF s = "classify" THEN 3 ELSE 4

(* A receipt falls back to an earlier stage, or out of done and review,    *)
(* only by a result that is applied again.                                 *)
FallsBackOnlyOnRepeat ==
    [][\A r \in Receipts :
          \/ Rank(stage'[r]) < Rank(stage[r])
          \/ stage[r] \in Settled /\ stage'[r] # stage[r]
          => r \in repeated']_vars

(* finalize does not overwrite a draft it has built before, which a person *)
(* may have edited or posted since, unless a result is applied again.      *)
DraftsBuiltOnce == \A r \in Receipts : draft[r] = "rebuilt" => r \in repeated

(* Every receipt that has entered the pipeline settles, as done or parked  *)
(* for review, or is stranded.                                             *)
EveryReceiptSettles ==
    \A r \in Receipts : stage[r] = "extract" ~> stage[r] \in Settled \/ r \in stranded

-----------------------------------------------------------------------------
(* db/migrations/000025: "A receipt advances extract -> vendor -> classify *)
(* -> done".  A collector that stops between two results leaves the job    *)
(* open, and the next one applies all of its results again.                *)
StagesOnlyAdvance ==
    [][\A r \in Receipts : stage[r] # "review" => Rank(stage'[r]) >= Rank(stage[r])]_vars
=============================================================================
