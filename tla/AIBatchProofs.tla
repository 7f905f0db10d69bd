----------------------------- MODULE AIBatchProofs -----------------------------
(***************************************************************************)
(* That a receipt in a batch has one holder and a lease, for every number  *)
(* of replicas, receipts and jobs, whatever fails.                         *)
(***************************************************************************)
EXTENDS AIBatch, TLAPS

(* What a run holds at each of its points.                                 *)
Submits == {"gather", "record", "undo"}
Works   == {"loop", "apply", "reset", "mark"}

RunOK(p) ==
    /\ pc[p] = "idle" => task[p] = "submit" /\ job[p] = NoJob /\ claimed[p] = {} /\ items[p] = {}
    /\ pc[p] \in Submits => task[p] = "submit"
    /\ pc[p] \in Works => task[p] # "submit" /\ items[p] = {}
    /\ pc[p] \in {"gather", "record"} => job[p] = NoJob
    /\ pc[p] \in {"record", "undo", "loop", "reset", "mark"} => claimed[p] = {}
    /\ pc[p] \in {"apply", "reset", "mark"} => job[p] \in Slots
    /\ claimed[p] \cap items[p] = {}
    /\ pc[p] = "apply" => claimed[p] \subseteq jobs[job[p]].items
    /\ pc[p] = "undo" /\ job[p] # NoJob => items[p] \subseteq jobs[job[p]].items

RunsOK == \A p \in Runs : RunOK(p)

(* An answer is an answer about one of the job's receipts.                 *)
JobsOK == \A j \in Slots : jobs[j].answers \subseteq jobs[j].items

(* What job j, open or closed, has not given back.                         *)
Keeps(j, r) == r \in jobs[j].items \ returned[j]

(* A receipt is with one submitting run or with one job, leased and at the *)
(* stage they are about.  Closed jobs count until the run has given it back. *)
OneKeeperOf(r) ==
    /\ \A p \in Runs : Submitting(p, r) =>
          /\ leased[r] /\ stage[r] = kind[p]
          /\ \A q \in Runs \ {p} : ~ Submitting(q, r)
          /\ \A j \in Slots : ~ Keeps(j, r)
    /\ \A j \in Slots : Keeps(j, r) =>
          /\ leased[r] /\ stage[r] = jobs[j].kind
          /\ \A i \in Slots \ {j} : ~ Keeps(i, r)

OneKeeper == \A r \in Receipts \ repeated : OneKeeperOf(r)

(* A receipt whose draft is built is done, so no batch takes it again.     *)
BuiltIsDone ==
    \A r \in Receipts \ repeated : draft[r] # "rebuilt" /\ (draft[r] = "built" => stage[r] = "done")

IInv == TypeOK /\ RunsOK /\ JobsOK /\ LeaseHasHolder /\ OneKeeper /\ BuiltIsDone

(* What a receipt's row, and its draft, become when it is parked or        *)
(* advanced from stage k.                                                  *)
Moved(r, k) ==
    /\ stage' \in [Receipts -> {"none"} \cup AIStages \cup Settled]
    /\ leased' \in [Receipts -> BOOLEAN]
    /\ draft' \in [Receipts -> {"no", "half", "built", "rebuilt"}]
    /\ stage'[r] \in {NextStage(k), "review"}
    /\ leased'[r] = FALSE
    /\ draft[r] \in {"no", "half"} /\ draft'[r] # draft[r]
          => draft'[r] = "built" /\ stage'[r] = "done"
    /\ \A x \in Receipts \ {r} :
          stage'[x] = stage[x] /\ leased'[x] = leased[x] /\ draft'[x] = draft[x]

(* Parking and advancing both take the receipt's lease; a draft that gets  *)
(* built makes the receipt done.                                           *)
LEMMA AdvanceMoves ==
    ASSUME TypeOK, NEW r \in Receipts, NEW k \in AIStages, Park(r) \/ Advance(r, k)
    PROVE  Moved(r, k)
<1>1. CASE Park(r)
  BY <1>1 DEF TypeOK, Park, Write, Moved, Settled
<1>2. CASE k # "classify" /\ Advance(r, k)
  BY <1>2 DEF TypeOK, Advance, Write, Moved, Settled, NextStage, AIStages
<1>3. CASE k = "classify" /\ Advance(r, k)
  <2>1. CASE Park(r)
    BY <2>1 DEF TypeOK, Park, Write, Moved, Settled
  <2>2. CASE /\ draft' = [draft EXCEPT ![r] = IF @ \in {"no", "half"} THEN "built" ELSE "rebuilt"]
             /\ Write(r, "done")
    BY <1>3, <2>2 DEF TypeOK, Write, Moved, Settled, NextStage, AIStages
  <2> QED BY <1>3, <2>1, <2>2 DEF Advance, finalize
<1> QED BY <1>1, <1>2, <1>3

(* The run takes the next of its jobs, to apply its answers or otherwise.  *)
Takes(p, j, l) ==
    /\ Take(p, j, l)
    /\ verdict' \in [Runs -> {"completed", "failed", "expired"}]
    /\ claimed' = [claimed EXCEPT ![p] = IF l = "apply" THEN jobs[j].answers ELSE {}]

(* A prepared receipt passes from claimed to items of the same run.        *)
LEMMA GatherItemStep ==
    ASSUME IInv, NEW p \in Runs, GatherItem(p)
    PROVE  IInv'
<1> USE AIBatchConstants
<1>0. TypeOK /\ RunsOK /\ JobsOK /\ LeaseHasHolder /\ OneKeeper /\ BuiltIsDone
  BY DEF IInv
<1>1. TypeOK'
  BY <1>0 DEF GatherItem, Looked, Set, rows, plan, ghosts, TypeOK
<1>2. RunsOK'
  BY <1>0 DEF GatherItem, Looked, Set, plan, TypeOK, RunsOK, RunOK, Works
<1>3. JobsOK'
  BY <1>0 DEF GatherItem, JobsOK
<1>4. LeaseHasHolder'
  BY <1>0 DEF GatherItem, Looked, Set, rows, plan, ghosts, LeaseHasHolder, Holds,
       Open, Submitting, TypeOK
<1>5. OneKeeper'
  BY <1>0 DEF GatherItem, Looked, Set, rows, plan, ghosts, OneKeeper, OneKeeperOf,
       Keeps, Submitting
<1>6. BuiltIsDone'
  BY <1>0 DEF GatherItem, rows, ghosts, BuiltIsDone
<1> QED BY <1>1, <1>2, <1>3, <1>4, <1>5, <1>6 DEF IInv

(* A receipt parked, or advanced without a prompt, gives its lease back.   *)
LEMMA GatherShortCutStep ==
    ASSUME IInv, NEW p \in Runs, GatherShortCut(p)
    PROVE  IInv'
<1> USE AIBatchConstants
<1>0. TypeOK /\ RunsOK /\ JobsOK /\ LeaseHasHolder /\ OneKeeper /\ BuiltIsDone
  BY DEF IInv
<1>p. PICK r \in claimed[p] :
        /\ claimed' = [claimed EXCEPT ![p] = claimed[p] \ {r}]
        /\ Park(r) \/ Advance(r, kind[p])
  <2>1. kind[p] \in AIStages
    BY <1>0 DEF TypeOK
  <2> QED BY <2>1 DEF GatherShortCut, Looked, Set, AIStages
<1>m. r \in Receipts /\ Moved(r, kind[p])
  <2>1. r \in Receipts /\ kind[p] \in AIStages
    BY <1>0 DEF TypeOK
  <2> QED BY <1>0, <1>p, <2>1, AdvanceMoves
<1>u. pc[p] = "gather" /\ UNCHANGED <<jobs, pc, plan, items, todo, job, verdict, faults, ghosts>>
  BY DEF GatherShortCut
<1>s. task[p] = "submit" /\ job[p] = NoJob
  BY <1>0, <1>u DEF RunsOK, RunOK, Submits
<1>1. TypeOK'
  BY <1>0, <1>p, <1>m, <1>u DEF TypeOK, Moved, plan, ghosts
<1>2. RunsOK'
  BY <1>0, <1>p, <1>u DEF TypeOK, RunsOK, RunOK, Submits, Works, plan
<1>3. JobsOK'
  BY <1>0, <1>u DEF JobsOK, plan, ghosts
<1>4. LeaseHasHolder'
  <2> SUFFICES ASSUME NEW x \in Receipts, leased'[x] PROVE
        \/ x \in stranded'
        \/ \E q \in Runs : Submitting(q, x)'
        \/ \E j \in Slots : Holds(j, x)'
    BY DEF LeaseHasHolder
  <2>1. x # r /\ leased[x]
    BY <1>m DEF Moved
  <2>2. \A q \in Runs : Submitting(q, x) => Submitting(q, x)'
    BY <1>0, <1>p, <1>u, <2>1 DEF TypeOK, Submitting, plan
  <2>3. \A j \in Slots : Holds(j, x) => Holds(j, x)'
    BY <1>u DEF Holds, Open, ghosts
  <2> QED BY <1>0, <1>u, <2>1, <2>2, <2>3 DEF LeaseHasHolder, ghosts
<1>5. OneKeeper'
  <2> SUFFICES ASSUME NEW x \in Receipts \ repeated PROVE OneKeeperOf(x)'
    BY <1>u DEF OneKeeper, ghosts
  <2>1. OneKeeperOf(x)
    BY <1>0 DEF OneKeeper
  <2>2. \A q \in Runs : Submitting(q, x)' => Submitting(q, x) /\ kind'[q] = kind[q] /\ (q = p => x # r)
    BY <1>0, <1>p, <1>u, <1>s DEF TypeOK, Submitting, plan, RunsOK, RunOK
  <2>3. \A j \in Slots : Keeps(j, x)' => Keeps(j, x)
    BY <1>u DEF Keeps, ghosts
  <2>4. CASE x = r
    <3>1. Submitting(p, x)
      BY <1>s, <1>p, <2>4 DEF Submitting
    <3> QED BY <2>1, <2>2, <2>3, <2>4, <3>1 DEF OneKeeperOf
  <2>5. CASE x # r
    <3>1. leased'[x] = leased[x] /\ stage'[x] = stage[x]
      BY <1>m, <2>5 DEF Moved
    <3> QED BY <1>u, <2>1, <2>2, <2>3, <3>1 DEF OneKeeperOf
  <2> QED BY <2>4, <2>5
<1>6. BuiltIsDone'
  <2> SUFFICES ASSUME NEW x \in Receipts \ repeated PROVE
        draft'[x] # "rebuilt" /\ (draft'[x] = "built" => stage'[x] = "done")
    BY <1>u DEF BuiltIsDone, ghosts
  <2>1. draft[x] # "rebuilt" /\ (draft[x] = "built" => stage[x] = "done")
    BY <1>0 DEF BuiltIsDone
  <2>2. CASE x = r
    <3>1. Submitting(p, x)
      BY <1>s, <1>p, <2>2 DEF Submitting
    <3>2. stage[x] = kind[p] /\ kind[p] \in AIStages
      BY <1>0, <3>1 DEF OneKeeper, OneKeeperOf, TypeOK
    <3>3. draft[x] \in {"no", "half"}
      BY <1>0, <2>1, <3>2 DEF TypeOK, AIStages
    <3> QED BY <1>m, <2>2, <3>3 DEF Moved
  <2>3. CASE x # r
    BY <1>m, <2>1, <2>3 DEF Moved
  <2> QED BY <2>2, <2>3
<1> QED BY <1>1, <1>2, <1>3, <1>4, <1>5, <1>6 DEF IInv

(* A receipt that cannot be prepared is given back by its only keeper.     *)
LEMMA GatherResetsStep ==
    ASSUME IInv, NEW p \in Runs, GatherResets(p)
    PROVE  IInv'
<1> USE AIBatchConstants
<1>0. TypeOK /\ RunsOK /\ JobsOK /\ LeaseHasHolder /\ OneKeeper /\ BuiltIsDone
  BY DEF IInv
<1>1. TypeOK'
  BY <1>0 DEF GatherResets, Looked, Set, plan, ghosts, Reset, Fault, TypeOK
<1>2. RunsOK'
  BY <1>0 DEF GatherResets, Looked, Set, plan, RunsOK, RunOK
<1>3. JobsOK'
  BY <1>0 DEF GatherResets, JobsOK
<1>4. LeaseHasHolder'
  <2>1. PICK r \in claimed[p] : Looked(p, r) /\ Reset({r})
    BY DEF GatherResets
  <2> SUFFICES ASSUME NEW x \in Receipts, leased'[x] PROVE
        \/ x \in stranded'
        \/ \E q \in Runs : Submitting(q, x)'
        \/ \E j \in Slots : Holds(j, x)'
    BY DEF LeaseHasHolder
  <2>2. x # r /\ leased[x]
    BY <2>1 DEF Reset
  <2>3. \A q \in Runs : Submitting(q, x) => Submitting(q, x)'
    BY <1>0, <2>1, <2>2 DEF GatherResets, Looked, Set, TypeOK, Submitting, plan
  <2>4. \A j \in Slots : Holds(j, x) => Holds(j, x)'
    BY DEF GatherResets, Holds, Open, ghosts
  <2>5. stranded' = stranded
    BY DEF GatherResets, ghosts
  <2> QED BY <1>0, <2>2, <2>3, <2>4, <2>5 DEF LeaseHasHolder
<1>5. OneKeeper'
  BY <1>0 DEF GatherResets, Looked, Set, plan, ghosts, Reset, OneKeeper, OneKeeperOf,
       Keeps, Submitting, TypeOK, RunsOK, RunOK, Submits
<1>6. BuiltIsDone'
  BY <1>0 DEF GatherResets, ghosts, Reset, BuiltIsDone
<1> QED BY <1>1, <1>2, <1>3, <1>4, <1>5, <1>6 DEF IInv

(* A receipt whose preparation ends in an error stays leased: stranded.    *)
LEMMA GatherLosesStep ==
    ASSUME IInv, NEW p \in Runs, GatherLoses(p)
    PROVE  IInv'
<1> USE AIBatchConstants
<1>0. TypeOK /\ RunsOK /\ JobsOK /\ LeaseHasHolder /\ OneKeeper /\ BuiltIsDone
  BY DEF IInv
<1>1. TypeOK'
  BY <1>0 DEF GatherLoses, Looked, Set, plan, Fails, Fault, TypeOK
<1>2. RunsOK'
  BY <1>0 DEF GatherLoses, Looked, Set, plan, RunsOK, RunOK
<1>3. JobsOK'
  BY <1>0 DEF GatherLoses, JobsOK
<1>4. LeaseHasHolder'
  BY <1>0 DEF GatherLoses, Looked, Set, plan, Fails, LeaseHasHolder, Holds, Open,
       Submitting
<1>5. OneKeeper'
  <2> SUFFICES ASSUME NEW x \in Receipts \ repeated PROVE OneKeeperOf(x)'
    BY DEF OneKeeper, GatherLoses
  <2>1. OneKeeperOf(x)
    BY <1>0 DEF OneKeeper
  <2>2. \A q \in Runs : Submitting(q, x)' => Submitting(q, x) /\ kind'[q] = kind[q]
    BY <1>0 DEF GatherLoses, Looked, Set, TypeOK, Submitting, plan
  <2>3. \A j \in Slots : (Keeps(j, x)' <=> Keeps(j, x)) /\ jobs'[j] = jobs[j]
    BY DEF GatherLoses, Keeps
  <2>4. leased' = leased /\ stage' = stage
    BY DEF GatherLoses, Fails
  <2> QED BY <2>1, <2>2, <2>3, <2>4 DEF OneKeeperOf
<1>6. BuiltIsDone'
  BY <1>0 DEF GatherLoses, Fails, BuiltIsDone, TypeOK
<1> QED BY <1>1, <1>2, <1>3, <1>4, <1>5, <1>6 DEF IInv

(* The provider's reply changes no holder: with no items the run returns.  *)
LEMMA SubmitBatchStep ==
    ASSUME IInv, NEW p \in Runs, SubmitBatch(p)
    PROVE  IInv'
<1> USE AIBatchConstants
<1>0. TypeOK /\ RunsOK /\ JobsOK /\ LeaseHasHolder /\ OneKeeper /\ BuiltIsDone
  BY DEF IInv
<1>1. TypeOK'
  <2>1. CASE Return(p)
    BY <1>0, <2>1 DEF SubmitBatch, Return, Goto, Set, rows, ghosts, TypeOK, AIStages,
         Tasks
  <2>2. CASE Goto(p, "record") /\ UNCHANGED locals
    BY <1>0, <2>2 DEF SubmitBatch, Goto, locals, plan, rows, ghosts, TypeOK
  <2> QED BY <2>1, <2>2 DEF SubmitBatch
<1>2. RunsOK'
  BY <1>0 DEF SubmitBatch, Return, Goto, Set, locals, plan, TypeOK, RunsOK, RunOK,
       Submits, Works
<1>3. JobsOK'
  BY <1>0 DEF SubmitBatch, JobsOK
<1>4. LeaseHasHolder'
  BY <1>0 DEF SubmitBatch, Return, Set, locals, plan, rows, ghosts, LeaseHasHolder,
       Holds, Open, Submitting, TypeOK, RunsOK, RunOK, Works
<1>5. OneKeeper'
  <2>0. /\ claimed[p] = {} /\ claimed' = [claimed EXCEPT ![p] = {}]
        /\ UNCHANGED <<stage, leased, jobs, returned, repeated>>
    BY <1>0 DEF SubmitBatch, Return, Set, locals, rows, ghosts, TypeOK
  <2>1. \A q \in Runs, r \in Receipts : Submitting(q, r)' => Submitting(q, r) /\ kind'[q] = kind[q]
    <3>1. CASE items[p] = {}
      BY <1>0, <2>0, <3>1 DEF SubmitBatch, Return, Set, Submitting, TypeOK
    <3>2. CASE items[p] # {}
      BY <1>0, <2>0, <3>2 DEF SubmitBatch, locals, plan, Submitting
    <3> QED BY <3>1, <3>2
  <2>2. \A r \in Receipts : OneKeeperOf(r) => OneKeeperOf(r)'
    BY <2>0, <2>1 DEF OneKeeperOf, Keeps
  <2> QED BY <1>0, <2>0, <2>2 DEF OneKeeper
<1>6. BuiltIsDone'
  BY <1>0 DEF SubmitBatch, rows, ghosts, BuiltIsDone
<1> QED BY <1>1, <1>2, <1>3, <1>4, <1>5, <1>6 DEF IInv

(* After a refused submission the run goes on to give its items back.      *)
LEMMA SubmitBatchFailsStep ==
    ASSUME IInv, NEW p \in Runs, SubmitBatchFails(p)
    PROVE  IInv'
<1> USE AIBatchConstants
<1>0. TypeOK /\ RunsOK /\ JobsOK /\ LeaseHasHolder /\ OneKeeper /\ BuiltIsDone
  BY DEF IInv
<1>1. TypeOK'
  BY <1>0 DEF SubmitBatchFails, Goto, Fault, locals, plan, rows, ghosts, TypeOK
<1>2. RunsOK'
  BY <1>0 DEF SubmitBatchFails, Goto, locals, plan, RunsOK, RunOK, Submits, Works
<1>3. JobsOK'
  BY <1>0 DEF SubmitBatchFails, JobsOK
<1>4. LeaseHasHolder'
  BY <1>0 DEF SubmitBatchFails, locals, plan, rows, ghosts, LeaseHasHolder, Holds,
       Open, Submitting
<1>5. OneKeeper'
  BY <1>0 DEF SubmitBatchFails, locals, plan, rows, ghosts, OneKeeper, OneKeeperOf,
       Keeps, Submitting
<1>6. BuiltIsDone'
  BY <1>0 DEF SubmitBatchFails, rows, ghosts, BuiltIsDone
<1> QED BY <1>1, <1>2, <1>3, <1>4, <1>5, <1>6 DEF IInv

(* The items pass from the run to the new row.                             *)
LEMMA CreateJobStep ==
    ASSUME IInv, NEW p \in Runs, CreateJob(p)
    PROVE  IInv'
<1> USE AIBatchConstants
<1>0. TypeOK /\ RunsOK /\ JobsOK /\ LeaseHasHolder /\ OneKeeper /\ BuiltIsDone
  BY DEF IInv
<1>1. TypeOK'
  BY <1>0 DEF CreateJob, Insert, NewJob, Return, Goto, Set, rows, TypeOK, Job,
       Batches, Tasks, AIStages
<1>2. RunsOK'
  BY <1>0 DEF CreateJob, Insert, Free, Reads, Return, Goto, Set, TypeOK, RunsOK,
       RunOK, Works
<1>3. JobsOK'
  BY <1>0 DEF CreateJob, Insert, NewJob, JobsOK
<1>4. LeaseHasHolder'
  BY <1>0 DEF CreateJob, Insert, NewJob, Free, Open, Return, Set, rows,
       LeaseHasHolder, Holds, Submitting, TypeOK, RunsOK, RunOK
<1>5. OneKeeper'
  BY <1>0 DEF CreateJob, Insert, NewJob, Return, Set, rows, OneKeeper, OneKeeperOf,
       Keeps, Submitting, TypeOK, RunsOK, RunOK, Submits
<1>6. BuiltIsDone'
  BY <1>0 DEF CreateJob, rows, BuiltIsDone
<1> QED BY <1>1, <1>2, <1>3, <1>4, <1>5, <1>6 DEF IInv

(* The insert may have happened: then the row and the run that is about to *)
(* undo it share the items, and JobsOK's answers stay empty.               *)
LEMMA CreateJobFailsStep ==
    ASSUME IInv, NEW p \in Runs, CreateJobFails(p)
    PROVE  IInv'
<1> USE AIBatchConstants
<1>0. TypeOK /\ RunsOK /\ JobsOK /\ LeaseHasHolder /\ OneKeeper /\ BuiltIsDone
  BY DEF IInv
<1>1. TypeOK'
  <2>1. faults' \in 0 .. MaxFaults
    BY <1>0 DEF CreateJobFails, Fault, TypeOK
  <2>2. jobs' \in [Slots -> Job] /\ returned' \in [Slots -> SUBSET Receipts]
        /\ job' \in [Runs -> Slots \cup {NoJob}]
    <3>1. CASE UNCHANGED <<jobs, returned, job>>
      BY <1>0, <3>1 DEF TypeOK
    <3>2. ASSUME NEW j \in Slots, Insert(p, j), job' = Set(job, p, j) PROVE 
          /\ jobs' \in [Slots -> Job] /\ returned' \in [Slots -> SUBSET Receipts]
          /\ job' \in [Runs -> Slots \cup {NoJob}]
      <4>1. NewJob(kind[p], items[p]) \in Job
        BY <1>0 DEF NewJob, TypeOK, Job, Batches
      <4> QED BY <1>0, <3>2, <4>1 DEF Insert, Set, TypeOK
    <3> QED BY <3>1, <3>2 DEF CreateJobFails
  <2>3. pc' \in [Runs -> {"idle", "gather", "record", "undo", "loop", "apply", "reset", "mark"}]
    BY <1>0 DEF CreateJobFails, Goto, TypeOK
  <2> QED BY <1>0, <2>1, <2>2, <2>3 DEF CreateJobFails, rows, plan, TypeOK
<1>2. RunsOK'
  BY <1>0 DEF CreateJobFails, Insert, NewJob, Free, Reads, Goto, Set, plan, TypeOK,
       RunsOK, RunOK, Submits, Works
<1>3. JobsOK'
  <2>1. CASE UNCHANGED <<jobs, returned, job>>
    BY <1>0, <2>1 DEF JobsOK
  <2>2. ASSUME NEW j \in Slots, Insert(p, j) PROVE JobsOK'
    BY <1>0, <2>2 DEF JobsOK, Insert, NewJob, TypeOK
  <2> QED BY <2>1, <2>2 DEF CreateJobFails
<1>4. LeaseHasHolder'
  <2>0. task[p] = "submit" /\ job[p] = NoJob /\ claimed[p] = {}
    BY <1>0 DEF CreateJobFails, RunsOK, RunOK, Submits
  <2>u. UNCHANGED <<leased, claimed, items, task, stranded>>
    BY DEF CreateJobFails, rows, plan
  <2>1. CASE UNCHANGED <<jobs, returned, job>>
    BY <1>0, <2>u, <2>1 DEF LeaseHasHolder, Submitting, Holds, Open
  <2>2. ASSUME NEW j \in Slots, Insert(p, j), job' = Set(job, p, j) PROVE LeaseHasHolder'
    <3>1. \A q \in Runs \ {p}, r \in Receipts : Submitting(q, r) => Submitting(q, r)'
      BY <1>0, <2>u, <2>2 DEF Submitting, Set, TypeOK
    <3>2. \A i \in Slots, r \in Receipts : Holds(i, r) => Holds(i, r)'
      BY <1>0, <2>2 DEF Holds, Open, Insert, Free, TypeOK
    <3>3. \A r \in Receipts : Submitting(p, r) => Holds(j, r)'
      BY <1>0, <2>0, <2>2 DEF Submitting, Holds, Open, Insert, NewJob, TypeOK
    <3> QED BY <1>0, <2>u, <3>1, <3>2, <3>3 DEF LeaseHasHolder
  <2> QED BY <2>1, <2>2 DEF CreateJobFails
<1>5. OneKeeper'
  <2>0. p \in Runs /\ pc[p] = "record" /\ task[p] = "submit" /\ job[p] = NoJob /\ claimed[p] = {}
        /\ kind[p] \in AIStages /\ items[p] \subseteq Receipts
    BY <1>0 DEF CreateJobFails, RunsOK, RunOK, Submits, TypeOK
  <2>u. UNCHANGED <<stage, leased, repeated, claimed, items, task, kind>>
    BY DEF CreateJobFails, rows, plan
  <2> SUFFICES ASSUME NEW x \in Receipts \ repeated PROVE OneKeeperOf(x)'
    BY <2>u DEF OneKeeper
  <2>1. OneKeeperOf(x)
    BY <1>0 DEF OneKeeper
  <2>2. CASE UNCHANGED <<jobs, returned, job>>
    <3>1. \A q \in Runs : (Submitting(q, x)' <=> Submitting(q, x)) /\ kind'[q] = kind[q]
      BY <2>u, <2>2 DEF Submitting
    <3>2. \A j \in Slots : (Keeps(j, x)' <=> Keeps(j, x)) /\ jobs'[j] = jobs[j]
      BY <2>2 DEF Keeps
    <3> QED BY <2>u, <2>1, <3>1, <3>2 DEF OneKeeperOf
  <2>3. ASSUME NEW j \in Slots, Insert(p, j), job' = Set(job, p, j) PROVE OneKeeperOf(x)'
    <3>1. j \in Slots /\ Insert(p, j) /\ job' = Set(job, p, j)
      BY <2>3
    <3>2. j # NoJob
      BY <3>1
    <3>3. \A q \in Runs : Submitting(q, x)' => q # p /\ Submitting(q, x)
      BY <1>0, <2>u, <3>1, <3>2 DEF Submitting, Set, TypeOK
    <3>4. \A i \in Slots \ {j} : (Keeps(i, x)' <=> Keeps(i, x)) /\ jobs'[i] = jobs[i]
      BY <1>0, <3>1 DEF Keeps, Insert, TypeOK
    <3>5. (Keeps(j, x)' <=> x \in items[p]) /\ jobs'[j].kind = kind[p]
      BY <1>0, <3>1 DEF Keeps, Insert, NewJob, TypeOK
    <3>6. x \in items[p] => Submitting(p, x)
      BY <2>0 DEF Submitting
    <3>7. \A q \in Runs : Submitting(q, x)' =>
              /\ leased'[x] /\ stage'[x] = kind'[q]
              /\ \A o \in Runs \ {q} : ~ Submitting(o, x)'
              /\ \A i \in Slots : ~ Keeps(i, x)'
      BY <2>0, <2>u, <2>1, <3>3, <3>4, <3>5, <3>6 DEF OneKeeperOf
    <3>8. \A i \in Slots : Keeps(i, x)' =>
              /\ leased'[x] /\ stage'[x] = jobs'[i].kind
              /\ \A h \in Slots \ {i} : ~ Keeps(h, x)'
      <4>1. CASE Submitting(p, x)
        BY <2>0, <2>u, <2>1, <3>4, <3>5, <4>1 DEF OneKeeperOf
      <4>2. CASE ~ Submitting(p, x)
        BY <2>0, <2>u, <2>1, <3>4, <3>5, <3>6, <4>2 DEF OneKeeperOf
      <4> QED BY <4>1, <4>2
    <3> QED BY <3>7, <3>8 DEF OneKeeperOf
  <2> QED BY <2>2, <2>3 DEF CreateJobFails
<1>6. BuiltIsDone'
  BY <1>0 DEF CreateJobFails, rows, BuiltIsDone
<1> QED BY <1>1, <1>2, <1>3, <1>4, <1>5, <1>6 DEF IInv

(* Each item is given back, or stranded if its reset fails.                *)
LEMMA UndoStep ==
    ASSUME IInv, NEW p \in Runs, Undo(p)
    PROVE  IInv'
<1> USE AIBatchConstants
<1>0. TypeOK /\ RunsOK /\ JobsOK /\ LeaseHasHolder /\ OneKeeper /\ BuiltIsDone
  BY DEF IInv
<1>1. TypeOK'
  BY <1>0 DEF Undo, Reset, GiveBack, Fault, Return, Goto, Set, TypeOK, Tasks, AIStages
<1>2. RunsOK'
  BY <1>0 DEF Undo, Return, Goto, Set, TypeOK, RunsOK, RunOK, Works
<1>3. JobsOK'
  BY <1>0 DEF Undo, JobsOK
<1>4. LeaseHasHolder'
  <2>1. PICK done \in SUBSET items[p] :
          /\ Reset(done)
          /\ IF job[p] = NoJob
             THEN stranded' = stranded \cup (items[p] \ done) /\ UNCHANGED <<returned, repeated>>
             ELSE GiveBack(job[p], done, {r \in done : leased[r]}) /\ UNCHANGED stranded
    BY DEF Undo
  <2>u. pc[p] = "undo" /\ claimed[p] = {} /\ UNCHANGED jobs
    BY <1>0 DEF Undo, RunsOK, RunOK
  <2> SUFFICES ASSUME NEW x \in Receipts, leased'[x] PROVE
        \/ x \in stranded'
        \/ \E q \in Runs : Submitting(q, x)'
        \/ \E j \in Slots : Holds(j, x)'
    BY DEF LeaseHasHolder
  <2>2. x \notin done /\ leased[x]
    BY <2>1 DEF Reset
  <2>3. \A q \in Runs \ {p} : Submitting(q, x) => Submitting(q, x)'
    BY <1>0 DEF Undo, Return, Set, TypeOK, Submitting
  <2>4. \A j \in Slots : Holds(j, x) => Holds(j, x)'
    <3>1. CASE job[p] = NoJob
      BY <2>1, <2>u, <3>1 DEF Holds, Open
    <3>2. CASE job[p] # NoJob
      BY <1>0, <2>1, <2>2, <2>u, <3>2 DEF Holds, Open, GiveBack, TypeOK
    <3> QED BY <3>1, <3>2
  <2>5. Submitting(p, x) => x \in stranded'
    BY <2>1, <2>2, <2>u DEF Submitting
  <2>6. stranded \subseteq stranded'
    BY <2>1
  <2> QED BY <1>0, <2>2, <2>3, <2>4, <2>5, <2>6 DEF LeaseHasHolder
<1>5. OneKeeper'
  <2>1. PICK done \in SUBSET items[p] :
          /\ Reset(done)
          /\ IF job[p] = NoJob
             THEN stranded' = stranded \cup (items[p] \ done) /\ UNCHANGED <<returned, repeated>>
             ELSE GiveBack(job[p], done, {r \in done : leased[r]}) /\ UNCHANGED stranded
    BY DEF Undo
  <2>u. /\ pc[p] = "undo" /\ task[p] = "submit" /\ claimed[p] = {} /\ UNCHANGED jobs
        /\ job[p] # NoJob => job[p] \in Slots /\ items[p] \subseteq jobs[job[p]].items
    BY <1>0 DEF Undo, RunsOK, RunOK, Submits, TypeOK
  <2>i. repeated \subseteq repeated'
    BY <2>1 DEF GiveBack
  <2> SUFFICES ASSUME NEW x \in Receipts \ repeated' PROVE OneKeeperOf(x)'
    BY DEF OneKeeper
  <2>2. OneKeeperOf(x)
    BY <1>0, <2>i DEF OneKeeper
  <2>3. \A q \in Runs : Submitting(q, x)' => q # p /\ Submitting(q, x) /\ kind'[q] = kind[q]
    BY <1>0 DEF Undo, Return, Set, TypeOK, Submitting
  <2>4. \A j \in Slots : Keeps(j, x)' => Keeps(j, x)
    BY <1>0, <2>1, <2>u DEF Keeps, GiveBack, TypeOK
  <2>5. stage' = stage
    BY <2>1 DEF Reset
  <2>6. CASE x \notin done
    <3>1. leased'[x] = leased[x]
      BY <1>0, <2>1, <2>6 DEF Reset, TypeOK
    <3> QED BY <2>u, <2>2, <2>3, <2>4, <2>5, <3>1 DEF OneKeeperOf
  <2>7. CASE x \in done
    <3>1. CASE job[p] = NoJob
      <4>1. Submitting(p, x)
        BY <2>1, <2>u, <2>7, <3>1 DEF Submitting
      <4> QED BY <2>2, <2>3, <2>4, <4>1 DEF OneKeeperOf
    <3>2. CASE job[p] # NoJob /\ Keeps(job[p], x)
      <4>1. PICK j \in Slots : j = job[p]
        BY <2>u, <3>2
      <4>2. ~ Keeps(j, x)'
        BY <1>0, <2>1, <2>7, <3>2, <4>1 DEF Keeps, GiveBack, TypeOK
      <4>3. \A i \in Slots : ~ Keeps(i, x)'
        BY <2>2, <2>4, <3>2, <4>1, <4>2 DEF OneKeeperOf
      <4>4. \A q \in Runs : ~ Submitting(q, x)
        BY <2>u, <2>2, <3>2 DEF OneKeeperOf
      <4> QED BY <2>3, <4>3, <4>4 DEF OneKeeperOf
    <3>3. CASE job[p] # NoJob /\ ~ Keeps(job[p], x)
      <4>1. x \in returned[job[p]]
        BY <2>u, <2>7, <3>3 DEF Keeps
      <4>2. ~ leased[x]
        BY <2>1, <2>7, <3>3, <4>1 DEF GiveBack
      <4> QED BY <2>2, <2>3, <2>4, <4>2 DEF OneKeeperOf
    <3> QED BY <3>1, <3>2, <3>3
  <2> QED BY <2>6, <2>7
<1>6. BuiltIsDone'
  BY <1>0 DEF Undo, Reset, GiveBack, BuiltIsDone
<1> QED BY <1>1, <1>2, <1>3, <1>4, <1>5, <1>6 DEF IInv

(* The run takes one of its jobs; no lease moves.                          *)
LEMMA PollJobStep ==
    ASSUME IInv, NEW p \in Runs, PollJob(p)
    PROVE  IInv'
<1> USE AIBatchConstants
<1>0. TypeOK /\ RunsOK /\ JobsOK /\ LeaseHasHolder /\ OneKeeper /\ BuiltIsDone
  BY DEF IInv
<1>u. /\ UNCHANGED <<rows, jobs, plan, items, ghosts>>
      /\ faults' \in 0 .. MaxFaults
      /\ pc[p] = "loop"
  BY <1>0 DEF PollJob, Take, TakeToReset, Fault, TypeOK
<1>p. PICK j \in todo[p], l \in Works : Takes(p, j, l)
  <2>0. /\ claimed = [claimed EXCEPT ![p] = {}]
        /\ verdict \in [Runs -> {"completed", "failed", "expired"}]
        /\ \A j \in todo[p] : j \in Slots
    BY <1>0, <1>u DEF TypeOK, RunsOK, RunOK
  <2>1. ASSUME NEW j \in todo[p], Take(p, j, "loop"), UNCHANGED <<claimed, verdict>>
        PROVE  \E l \in Works : Takes(p, j, l)
    BY <2>0, <2>1 DEF Takes, Works
  <2>2. ASSUME NEW j \in todo[p], Take(p, j, IF jobs[j].answers = {} THEN "mark" ELSE "apply"),
               claimed' = Set(claimed, p, jobs[j].answers),
               verdict' = Set(verdict, p, "completed")
        PROVE  \E l \in Works : Takes(p, j, l)
    BY <1>0, <2>0, <2>2 DEF Takes, Works, Set, TypeOK
  <2>3. ASSUME NEW j \in todo[p], jobs[j].batch \in {"failed", "expired"},
               TakeToReset(p, j, jobs[j].batch)
        PROVE  \E l \in Works : Takes(p, j, l)
    BY <1>0, <2>0, <2>3 DEF Takes, Works, TakeToReset, Set, TypeOK
  <2> QED BY <2>1, <2>2, <2>3 DEF PollJob
<1>q. j \in Slots /\ task[p] # "submit"
  BY <1>0 DEF TypeOK, PollJob
<1>r. jobs[j].answers \subseteq jobs[j].items
  BY <1>0, <1>q DEF JobsOK
<1>1. TypeOK'
  <2>1. jobs[j].answers \subseteq Receipts
    BY <1>0, <1>q DEF TypeOK, Job
  <2>2. claimed' \in [Runs -> SUBSET Receipts]
    BY <1>0, <1>p, <2>1 DEF TypeOK, Takes
  <2>3. /\ todo' \in [Runs -> SUBSET Slots] /\ job' \in [Runs -> Slots \cup {NoJob}]
        /\ pc' \in [Runs -> {"idle", "gather", "record", "undo", "loop", "apply", "reset", "mark"}]
    BY <1>0, <1>p, <1>q DEF TypeOK, Takes, Take, Goto, Set, Works
  <2>4. verdict' \in [Runs -> {"completed", "failed", "expired"}]
    BY <1>p DEF Takes
  <2> QED BY <1>0, <1>u, <2>2, <2>3, <2>4 DEF TypeOK, rows, plan, ghosts
<1>2. RunsOK'
  <2>1. \A q \in Runs \ {p} : RunOK(q)'
    BY <1>0, <1>u, <1>p DEF TypeOK, RunsOK, RunOK, Takes, Take, Goto, Set, plan,
         Submits, Works
  <2>2. RunOK(p)'
    BY <1>0, <1>u, <1>p, <1>q, <1>r DEF TypeOK, RunsOK, RunOK, Takes, Take, Goto, Set,
         plan, Submits, Works
  <2> QED BY <2>1, <2>2 DEF RunsOK
<1>3. JobsOK'
  BY <1>0, <1>u DEF JobsOK
<1>s. \A q \in Runs, r \in Receipts : Submitting(q, r)' <=> Submitting(q, r)
  BY <1>0, <1>u, <1>p, <1>q DEF TypeOK, Submitting, Takes, Take, Set, plan
<1>4. LeaseHasHolder'
  BY <1>0, <1>u, <1>s DEF LeaseHasHolder, Holds, Open, rows, ghosts
<1>5. OneKeeper'
  BY <1>0, <1>u, <1>s DEF OneKeeper, OneKeeperOf, Keeps, rows, plan, ghosts
<1>6. BuiltIsDone'
  BY <1>0, <1>u DEF BuiltIsDone, rows, ghosts
<1> QED BY <1>1, <1>2, <1>3, <1>4, <1>5, <1>6 DEF IInv

(* A poll that fails skips the job; no lease moves.                        *)
LEMMA PollJobFailsStep ==
    ASSUME IInv, NEW p \in Runs, PollJobFails(p)
    PROVE  IInv'
<1> USE AIBatchConstants
<1>0. TypeOK /\ RunsOK /\ JobsOK /\ LeaseHasHolder /\ OneKeeper /\ BuiltIsDone
  BY DEF IInv
<1>u. /\ UNCHANGED <<rows, jobs, plan, items, ghosts>>
      /\ faults' \in 0 .. MaxFaults
      /\ pc[p] = "loop"
  BY <1>0 DEF PollJobFails, Take, TakeToReset, Fault, TypeOK
<1>p. PICK j \in todo[p], l \in Works : Takes(p, j, l)
  <2>0. /\ claimed = [claimed EXCEPT ![p] = {}]
        /\ verdict \in [Runs -> {"completed", "failed", "expired"}]
    BY <1>0, <1>u DEF TypeOK, RunsOK, RunOK
  <2> QED BY <1>0, <2>0 DEF PollJobFails, Takes, Works, TakeToReset, Set, TypeOK
<1>q. j \in Slots /\ task[p] # "submit"
  BY <1>0 DEF TypeOK, PollJobFails
<1>r. jobs[j].answers \subseteq jobs[j].items
  BY <1>0, <1>q DEF JobsOK
<1>1. TypeOK'
  <2>1. jobs[j].answers \subseteq Receipts
    BY <1>0, <1>q DEF TypeOK, Job
  <2>2. claimed' \in [Runs -> SUBSET Receipts]
    BY <1>0, <1>p, <2>1 DEF TypeOK, Takes
  <2>3. /\ todo' \in [Runs -> SUBSET Slots] /\ job' \in [Runs -> Slots \cup {NoJob}]
        /\ pc' \in [Runs -> {"idle", "gather", "record", "undo", "loop", "apply", "reset", "mark"}]
    BY <1>0, <1>p, <1>q DEF TypeOK, Takes, Take, Goto, Set, Works
  <2>4. verdict' \in [Runs -> {"completed", "failed", "expired"}]
    BY <1>p DEF Takes
  <2> QED BY <1>0, <1>u, <2>2, <2>3, <2>4 DEF TypeOK, rows, plan, ghosts
<1>2. RunsOK'
  <2>1. \A q \in Runs \ {p} : RunOK(q)'
    BY <1>0, <1>u, <1>p DEF TypeOK, RunsOK, RunOK, Takes, Take, Goto, Set, plan,
         Submits, Works
  <2>2. RunOK(p)'
    BY <1>0, <1>u, <1>p, <1>q, <1>r DEF TypeOK, RunsOK, RunOK, Takes, Take, Goto, Set,
         plan, Submits, Works
  <2> QED BY <2>1, <2>2 DEF RunsOK
<1>3. JobsOK'
  BY <1>0, <1>u DEF JobsOK
<1>s. \A q \in Runs, r \in Receipts : Submitting(q, r)' <=> Submitting(q, r)
  BY <1>0, <1>u, <1>p, <1>q DEF TypeOK, Submitting, Takes, Take, Set, plan
<1>4. LeaseHasHolder'
  BY <1>0, <1>u, <1>s DEF LeaseHasHolder, Holds, Open, rows, ghosts
<1>5. OneKeeper'
  BY <1>0, <1>u, <1>s DEF OneKeeper, OneKeeperOf, Keeps, rows, plan, ghosts
<1>6. BuiltIsDone'
  BY <1>0, <1>u DEF BuiltIsDone, rows, ghosts
<1> QED BY <1>1, <1>2, <1>3, <1>4, <1>5, <1>6 DEF IInv

(* The same for the run that expires stuck jobs.                           *)
LEMMA TakeStuckJobStep ==
    ASSUME IInv, NEW p \in Runs, TakeStuckJob(p)
    PROVE  IInv'
<1> USE AIBatchConstants
<1>0. TypeOK /\ RunsOK /\ JobsOK /\ LeaseHasHolder /\ OneKeeper /\ BuiltIsDone
  BY DEF IInv
<1>u. /\ UNCHANGED <<rows, jobs, plan, items, ghosts>>
      /\ faults' \in 0 .. MaxFaults
      /\ pc[p] = "loop"
  BY <1>0 DEF TakeStuckJob, Take, TakeToReset, Fault, TypeOK
<1>p. PICK j \in todo[p], l \in Works : Takes(p, j, l)
  <2>0. /\ claimed = [claimed EXCEPT ![p] = {}]
        /\ verdict \in [Runs -> {"completed", "failed", "expired"}]
    BY <1>0, <1>u DEF TypeOK, RunsOK, RunOK
  <2> QED BY <1>0, <2>0 DEF TakeStuckJob, Takes, Works, TakeToReset, Set, TypeOK
<1>q. j \in Slots /\ task[p] # "submit"
  BY <1>0 DEF TypeOK, TakeStuckJob
<1>r. jobs[j].answers \subseteq jobs[j].items
  BY <1>0, <1>q DEF JobsOK
<1>1. TypeOK'
  <2>1. jobs[j].answers \subseteq Receipts
    BY <1>0, <1>q DEF TypeOK, Job
  <2>2. claimed' \in [Runs -> SUBSET Receipts]
    BY <1>0, <1>p, <2>1 DEF TypeOK, Takes
  <2>3. /\ todo' \in [Runs -> SUBSET Slots] /\ job' \in [Runs -> Slots \cup {NoJob}]
        /\ pc' \in [Runs -> {"idle", "gather", "record", "undo", "loop", "apply", "reset", "mark"}]
    BY <1>0, <1>p, <1>q DEF TypeOK, Takes, Take, Goto, Set, Works
  <2>4. verdict' \in [Runs -> {"completed", "failed", "expired"}]
    BY <1>p DEF Takes
  <2> QED BY <1>0, <1>u, <2>2, <2>3, <2>4 DEF TypeOK, rows, plan, ghosts
<1>2. RunsOK'
  <2>1. \A q \in Runs \ {p} : RunOK(q)'
    BY <1>0, <1>u, <1>p DEF TypeOK, RunsOK, RunOK, Takes, Take, Goto, Set, plan,
         Submits, Works
  <2>2. RunOK(p)'
    BY <1>0, <1>u, <1>p, <1>q, <1>r DEF TypeOK, RunsOK, RunOK, Takes, Take, Goto, Set,
         plan, Submits, Works
  <2> QED BY <2>1, <2>2 DEF RunsOK
<1>3. JobsOK'
  BY <1>0, <1>u DEF JobsOK
<1>s. \A q \in Runs, r \in Receipts : Submitting(q, r)' <=> Submitting(q, r)
  BY <1>0, <1>u, <1>p, <1>q DEF TypeOK, Submitting, Takes, Take, Set, plan
<1>4. LeaseHasHolder'
  BY <1>0, <1>u, <1>s DEF LeaseHasHolder, Holds, Open, rows, ghosts
<1>5. OneKeeper'
  BY <1>0, <1>u, <1>s DEF OneKeeper, OneKeeperOf, Keeps, rows, plan, ghosts
<1>6. BuiltIsDone'
  BY <1>0, <1>u DEF BuiltIsDone, rows, ghosts
<1> QED BY <1>1, <1>2, <1>3, <1>4, <1>5, <1>6 DEF IInv

(* A run that polls or expires keeps no receipt of its own when it ends.   *)
LEMMA RunEndsStep ==
    ASSUME IInv, NEW p \in Runs, RunEnds(p)
    PROVE  IInv'
<1> USE AIBatchConstants
<1>0. TypeOK /\ RunsOK /\ JobsOK /\ LeaseHasHolder /\ OneKeeper /\ BuiltIsDone
  BY DEF IInv
<1>1. TypeOK'
  BY <1>0 DEF RunEnds, Return, Goto, Set, rows, ghosts, TypeOK, Tasks, AIStages
<1>2. RunsOK'
  BY <1>0 DEF RunEnds, Return, Goto, Set, TypeOK, RunsOK, RunOK, Works
<1>3. JobsOK'
  BY <1>0 DEF RunEnds, JobsOK
<1>4. LeaseHasHolder'
  BY <1>0 DEF RunEnds, Return, Set, rows, ghosts, LeaseHasHolder, Holds, Open,
       Submitting, RunsOK, RunOK, Works
<1>5. OneKeeper'
  BY <1>0 DEF RunEnds, Return, Set, rows, ghosts, OneKeeper, OneKeeperOf, Keeps,
       Submitting, RunsOK, RunOK, Works
<1>6. BuiltIsDone'
  BY <1>0 DEF RunEnds, rows, ghosts, BuiltIsDone
<1> QED BY <1>1, <1>2, <1>3, <1>4, <1>5, <1>6 DEF IInv

(* An answer is applied to a receipt whose keeper is the job.              *)
LEMMA ApplyStep ==
    ASSUME IInv, NEW p \in Runs, Apply(p)
    PROVE  IInv'
<1> USE AIBatchConstants
<1>0. TypeOK /\ RunsOK /\ JobsOK /\ LeaseHasHolder /\ OneKeeper /\ BuiltIsDone
  BY DEF IInv
<1>p. PICK r \in claimed[p] :
        /\ Applied(p, r)
        /\ Park(r) \/ Advance(r, jobs[job[p]].kind)
        /\ GiveBack(job[p], {r}, {r})
        /\ UNCHANGED <<faults, stranded>>
  BY DEF Apply
<1>u. /\ pc[p] = "apply" /\ UNCHANGED <<jobs, plan, items, todo, job, verdict>>
      /\ claimed' = [claimed EXCEPT ![p] = claimed[p] \ {r}]
      /\ pc' = [pc EXCEPT ![p] = IF claimed[p] = {r} THEN "mark" ELSE "apply"]
  BY <1>p DEF Applied, Looked, Set, Goto
<1>j. PICK j \in Slots : j = job[p]
  BY <1>0, <1>u DEF RunsOK, RunOK
<1>r. /\ r \in Receipts /\ r \in jobs[j].items /\ task[p] # "submit"
      /\ jobs[j].kind \in AIStages
  BY <1>0, <1>p, <1>u, <1>j DEF TypeOK, RunsOK, RunOK, Works, Job
<1>m. Moved(r, jobs[j].kind)
  BY <1>0, <1>p, <1>j, <1>r, AdvanceMoves
<1>g. /\ returned' = [returned EXCEPT ![j] = @ \cup {r}]
      /\ repeated' = repeated \cup ({r} \cap returned[j])
  BY <1>p, <1>j DEF GiveBack
<1>k. ASSUME r \notin repeated' PROVE Keeps(j, r) /\ ~ Keeps(j, r)'
  BY <1>0, <1>g, <1>k, <1>r DEF Keeps, TypeOK
<1>s. \A q \in Runs, x \in Receipts : Submitting(q, x)' <=> Submitting(q, x)
  BY <1>0, <1>u, <1>r DEF TypeOK, Submitting, plan
<1>1. TypeOK'
  <2>1. /\ claimed' \in [Runs -> SUBSET Receipts]
        /\ pc' \in [Runs -> {"idle", "gather", "record", "undo", "loop", "apply", "reset", "mark"}]
    BY <1>0, <1>u DEF TypeOK
  <2>2. returned' \in [Slots -> SUBSET Receipts] /\ repeated' \subseteq Receipts
    BY <1>0, <1>g, <1>r DEF TypeOK
  <2> QED BY <1>0, <1>p, <1>u, <1>m, <2>1, <2>2 DEF TypeOK, Moved, plan
<1>2. RunsOK'
  <2>1. \A q \in Runs \ {p} : RunOK(q)'
    BY <1>0, <1>u DEF TypeOK, RunsOK, RunOK, plan
  <2>2. RunOK(p)'
    BY <1>0, <1>u DEF TypeOK, RunsOK, RunOK, plan, Submits, Works
  <2> QED BY <2>1, <2>2 DEF RunsOK
<1>3. JobsOK'
  BY <1>0, <1>u DEF JobsOK
<1>4. LeaseHasHolder'
  <2> SUFFICES ASSUME NEW x \in Receipts, leased'[x] PROVE
        \/ x \in stranded'
        \/ \E q \in Runs : Submitting(q, x)'
        \/ \E i \in Slots : Holds(i, x)'
    BY DEF LeaseHasHolder
  <2>1. x # r /\ leased[x]
    BY <1>m DEF Moved
  <2>2. \A i \in Slots : Holds(i, x) => Holds(i, x)'
    BY <1>0, <1>u, <1>g, <2>1 DEF Holds, Open, TypeOK
  <2> QED BY <1>0, <1>p, <1>s, <2>1, <2>2 DEF LeaseHasHolder
<1>5. OneKeeper'
  <2> SUFFICES ASSUME NEW x \in Receipts \ repeated' PROVE OneKeeperOf(x)'
    BY DEF OneKeeper
  <2>1. OneKeeperOf(x)
    BY <1>0, <1>g DEF OneKeeper
  <2>2. \A i \in Slots : Keeps(i, x)' => Keeps(i, x)
    BY <1>0, <1>u, <1>g DEF Keeps, TypeOK
  <2>3. CASE x = r
    <3>1. Keeps(j, x) /\ ~ Keeps(j, x)'
      BY <1>k, <2>3
    <3> QED BY <1>s, <2>1, <2>2, <3>1 DEF OneKeeperOf
  <2>4. CASE x # r
    <3>1. leased'[x] = leased[x] /\ stage'[x] = stage[x]
      BY <1>m, <2>4 DEF Moved
    <3> QED BY <1>s, <1>u, <2>1, <2>2, <3>1 DEF OneKeeperOf, plan
  <2> QED BY <2>3, <2>4
<1>6. BuiltIsDone'
  <2> SUFFICES ASSUME NEW x \in Receipts \ repeated' PROVE
        draft'[x] # "rebuilt" /\ (draft'[x] = "built" => stage'[x] = "done")
    BY DEF BuiltIsDone
  <2>1. x \notin repeated /\ draft[x] # "rebuilt" /\ (draft[x] = "built" => stage[x] = "done")
    BY <1>0, <1>g DEF BuiltIsDone
  <2>2. CASE x = r
    <3>1. Keeps(j, x)
      BY <1>k, <2>2
    <3>2. stage[x] \in AIStages
      BY <1>0, <1>r, <2>1, <3>1 DEF OneKeeper, OneKeeperOf
    <3>3. draft[x] \in {"no", "half"}
      BY <1>0, <2>1, <3>2 DEF TypeOK, AIStages
    <3> QED BY <1>m, <2>2, <3>3 DEF Moved
  <2>3. CASE x # r
    BY <1>m, <2>1, <2>3 DEF Moved
  <2> QED BY <2>2, <2>3
<1> QED BY <1>1, <1>2, <1>3, <1>4, <1>5, <1>6 DEF IInv

(* A failed apply moves no lease: the job keeps the receipt.               *)
LEMMA ApplyFailsStep ==
    ASSUME IInv, NEW p \in Runs, ApplyFails(p)
    PROVE  IInv'
<1> USE AIBatchConstants
<1>0. TypeOK /\ RunsOK /\ JobsOK /\ LeaseHasHolder /\ OneKeeper /\ BuiltIsDone
  BY DEF IInv
<1>1. TypeOK'
  BY <1>0 DEF ApplyFails, Applied, Looked, Goto, Set, Fails, Fault, plan, ghosts, TypeOK
<1>2. RunsOK'
  BY <1>0 DEF ApplyFails, Applied, Looked, Goto, Set, plan, TypeOK, RunsOK, RunOK,
       Submits, Works
<1>3. JobsOK'
  BY <1>0 DEF ApplyFails, Applied, JobsOK
<1>4. LeaseHasHolder'
  BY <1>0 DEF ApplyFails, Applied, Looked, Set, Fails, plan, ghosts, LeaseHasHolder,
       Holds, Open, Submitting, RunsOK, RunOK
<1>5. OneKeeper'
  BY <1>0 DEF ApplyFails, Applied, Looked, Set, Fails, plan, ghosts, OneKeeper,
       OneKeeperOf, Keeps, Submitting
<1>6. BuiltIsDone'
  BY <1>0 DEF ApplyFails, Fails, ghosts, BuiltIsDone, TypeOK
<1> QED BY <1>1, <1>2, <1>3, <1>4, <1>5, <1>6 DEF IInv

(* The receipts without an answer are given back by the job.               *)
LEMMA ResetJobStep ==
    ASSUME IInv, NEW p \in Runs, ResetJob(p)
    PROVE  IInv'
<1> USE AIBatchConstants
<1>0. TypeOK /\ RunsOK /\ JobsOK /\ LeaseHasHolder /\ OneKeeper /\ BuiltIsDone
  BY DEF IInv
<1>1. TypeOK'
  <2>1. /\ leased' \in [Receipts -> BOOLEAN] /\ UNCHANGED stage
        /\ faults' \in 0 .. MaxFaults
    BY <1>0 DEF ResetJob, Reset, Fault, TypeOK
  <2>2. /\ returned' \in [Slots -> SUBSET Receipts] /\ repeated' \subseteq Receipts
    <3>1. job[p] \in Slots /\ jobs[job[p]].items \subseteq Receipts
      BY <1>0 DEF ResetJob, RunsOK, RunOK, TypeOK, Job
    <3> QED BY <1>0, <3>1 DEF ResetJob, GiveBack, TypeOK
  <2>3. pc' \in [Runs -> {"idle", "gather", "record", "undo", "loop", "apply", "reset", "mark"}]
    BY <1>0 DEF ResetJob, Goto, TypeOK
  <2> QED BY <1>0, <2>1, <2>2, <2>3 DEF ResetJob, locals, plan, TypeOK
<1>2. RunsOK'
  BY <1>0 DEF ResetJob, Goto, locals, plan, RunsOK, RunOK, Submits, Works
<1>3. JobsOK'
  BY <1>0 DEF ResetJob, JobsOK
<1>4. LeaseHasHolder'
  <2>1. PICK done \in SUBSET jobs[job[p]].items :
          Reset(done) /\ GiveBack(job[p], done, {r \in done : leased[r]})
    BY DEF ResetJob
  <2> SUFFICES ASSUME NEW x \in Receipts, leased'[x] PROVE
        \/ x \in stranded'
        \/ \E q \in Runs : Submitting(q, x)'
        \/ \E j \in Slots : Holds(j, x)'
    BY DEF LeaseHasHolder
  <2>2. x \notin done /\ leased[x]
    BY <2>1 DEF Reset
  <2>3. \A q \in Runs : Submitting(q, x)' <=> Submitting(q, x)
    BY DEF ResetJob, locals, plan, Submitting
  <2>4. \A j \in Slots : Holds(j, x) => Holds(j, x)'
    BY <1>0, <2>1, <2>2 DEF ResetJob, Holds, Open, GiveBack, TypeOK
  <2>5. stranded' = stranded
    BY DEF ResetJob
  <2> QED BY <1>0, <2>2, <2>3, <2>4, <2>5 DEF LeaseHasHolder
<1>5. OneKeeper'
  BY <1>0 DEF ResetJob, Reset, GiveBack, locals, plan, OneKeeper, OneKeeperOf, Keeps,
       Submitting, TypeOK, RunsOK, RunOK
<1>6. BuiltIsDone'
  BY <1>0 DEF ResetJob, Reset, GiveBack, BuiltIsDone
<1> QED BY <1>1, <1>2, <1>3, <1>4, <1>5, <1>6 DEF IInv

(* A job is closed once its receipts have been given back.                 *)
LEMMA MarkJobStep ==
    ASSUME IInv, NEW p \in Runs, MarkJob(p)
    PROVE  IInv'
<1> USE AIBatchConstants
<1>0. TypeOK /\ RunsOK /\ JobsOK /\ LeaseHasHolder /\ OneKeeper /\ BuiltIsDone
  BY DEF IInv
<1>1. TypeOK'
  <2>1. job[p] \in Slots /\ jobs[job[p]] \in Job /\ jobs[job[p]].items \subseteq Receipts
    BY <1>0 DEF MarkJob, RunsOK, RunOK, TypeOK, Job
  <2>2. Closed(p, job[p]) \in Job
    <3>1. Forgotten \in Job
      BY DEF Forgotten, NewJob, Job, AIStages, Batches
    <3>2. [jobs[job[p]] EXCEPT !.status = verdict[p]] \in Job
      BY <1>0, <2>1 DEF Job, TypeOK
    <3> QED BY <3>1, <3>2 DEF Closed
  <2>3. jobs' \in [Slots -> Job]
    BY <1>0, <2>1, <2>2 DEF MarkJob, TypeOK
  <2>4. stranded' \subseteq Receipts
    BY <1>0, <2>1 DEF MarkJob, TypeOK
  <2>5. /\ job' \in [Runs -> Slots \cup {NoJob}]
        /\ verdict' \in [Runs -> {"completed", "failed", "expired"}]
        /\ pc' \in [Runs -> {"idle", "gather", "record", "undo", "loop", "apply", "reset", "mark"}]
    BY <1>0 DEF MarkJob, MarkEnds, Goto, Set, TypeOK
  <2> QED BY <1>0, <2>3, <2>4, <2>5 DEF MarkJob, MarkEnds, rows, plan, TypeOK
<1>2. RunsOK'
  BY <1>0 DEF MarkJob, Closed, Reads, MarkEnds, Goto, Set, plan, TypeOK, RunsOK,
       RunOK, Submits, Works
<1>3. JobsOK'
  BY <1>0 DEF MarkJob, Closed, Forgotten, NewJob, JobsOK
<1>4. LeaseHasHolder'
  BY <1>0 DEF MarkJob, Open, MarkEnds, Set, rows, plan, LeaseHasHolder, Holds,
       Submitting
<1>5. OneKeeper'
  BY <1>0 DEF MarkJob, Closed, Forgotten, NewJob, MarkEnds, Set, rows, plan,
       OneKeeper, OneKeeperOf, Keeps, Submitting, RunsOK, RunOK, Works
<1>6. BuiltIsDone'
  BY <1>0 DEF MarkJob, MarkEnds, rows, BuiltIsDone
<1> QED BY <1>1, <1>2, <1>3, <1>4, <1>5, <1>6 DEF IInv

(* A job that cannot be closed keeps what it kept.                         *)
LEMMA MarkJobFailsStep ==
    ASSUME IInv, NEW p \in Runs, MarkJobFails(p)
    PROVE  IInv'
<1> USE AIBatchConstants
<1>0. TypeOK /\ RunsOK /\ JobsOK /\ LeaseHasHolder /\ OneKeeper /\ BuiltIsDone
  BY DEF IInv
<1>1. TypeOK'
  BY <1>0 DEF MarkJobFails, MarkEnds, Goto, Set, Fault, rows, plan, ghosts, TypeOK
<1>2. RunsOK'
  BY <1>0 DEF MarkJobFails, MarkEnds, Goto, Set, plan, TypeOK, RunsOK, RunOK, Submits,
       Works
<1>3. JobsOK'
  BY <1>0 DEF MarkJobFails, JobsOK
<1>4. LeaseHasHolder'
  BY <1>0 DEF MarkJobFails, MarkEnds, Set, rows, plan, ghosts, LeaseHasHolder, Holds,
       Open, Submitting
<1>5. OneKeeper'
  BY <1>0 DEF MarkJobFails, MarkEnds, Set, rows, plan, ghosts, OneKeeper, OneKeeperOf,
       Keeps, Submitting, RunsOK, RunOK, Works
<1>6. BuiltIsDone'
  BY <1>0 DEF MarkJobFails, MarkEnds, rows, ghosts, BuiltIsDone
<1> QED BY <1>1, <1>2, <1>3, <1>4, <1>5, <1>6 DEF IInv

(* What the crashed run was submitting is stranded, unless a job has it.   *)
LEMMA CrashStep ==
    ASSUME IInv, NEW p \in Runs, Crash(p)
    PROVE  IInv'
<1> USE AIBatchConstants
<1>0. TypeOK /\ RunsOK /\ JobsOK /\ LeaseHasHolder /\ OneKeeper /\ BuiltIsDone
  BY DEF IInv
<1>1. TypeOK'
  BY <1>0 DEF Crash, Return, Goto, Set, Fault, rows, TypeOK, Tasks, AIStages
<1>2. RunsOK'
  BY <1>0 DEF Crash, Return, Goto, Set, TypeOK, RunsOK, RunOK, Works
<1>3. JobsOK'
  BY <1>0 DEF Crash, JobsOK
<1>4. LeaseHasHolder'
  BY <1>0 DEF Crash, Return, Set, rows, LeaseHasHolder, Holds, Open, Submitting
<1>5. OneKeeper'
  BY <1>0 DEF Crash, Return, Set, rows, OneKeeper, OneKeeperOf, Keeps, Submitting,
       TypeOK
<1>6. BuiltIsDone'
  BY <1>0 DEF Crash, rows, BuiltIsDone
<1> QED BY <1>1, <1>2, <1>3, <1>4, <1>5, <1>6 DEF IInv

(* A new receipt enters unleased.                                          *)
LEMMA EnsureStep ==
    ASSUME IInv, NEW r \in Receipts, Ensure(r)
    PROVE  IInv'
<1> USE AIBatchConstants
<1>0. TypeOK /\ RunsOK /\ JobsOK /\ LeaseHasHolder /\ OneKeeper /\ BuiltIsDone
  BY DEF IInv
<1>u. UNCHANGED <<leased, draft, jobs, pc, task, kind, claimed, items, todo, job, verdict,
                  faults, returned, repeated, stranded>>
  BY DEF Ensure, locals, plan, ghosts
<1>s. stage[r] = "none" /\ stage' = [stage EXCEPT ![r] = "extract"]
  BY DEF Ensure
<1>1. TypeOK'
  BY <1>0, <1>u, <1>s DEF TypeOK, AIStages
<1>2. RunsOK'
  BY <1>0, <1>u DEF RunsOK, RunOK
<1>3. JobsOK'
  BY <1>0, <1>u DEF JobsOK
<1>4. LeaseHasHolder'
  BY <1>0, <1>u DEF LeaseHasHolder, Submitting, Holds, Open
<1>5. OneKeeper'
  <2>1. \A p \in Runs : kind[p] # "none"
    BY <1>0 DEF TypeOK, AIStages
  <2>2. \A j \in Slots : jobs[j].kind # "none"
    BY <1>0 DEF TypeOK, Job, AIStages
  <2> SUFFICES ASSUME NEW x \in Receipts \ repeated PROVE OneKeeperOf(x)'
    BY <1>u DEF OneKeeper
  <2>3. OneKeeperOf(x)
    BY <1>0 DEF OneKeeper
  <2>4. \A p \in Runs : Submitting(p, x)' <=> Submitting(p, x)
    BY <1>u DEF Submitting
  <2>5. \A j \in Slots : Keeps(j, x)' <=> Keeps(j, x)
    BY <1>u DEF Keeps
  <2> QED BY <1>0, <1>u, <1>s, <2>1, <2>2, <2>3, <2>4, <2>5 DEF OneKeeperOf, TypeOK
<1>6. BuiltIsDone'
  BY <1>0, <1>u, <1>s DEF BuiltIsDone, TypeOK
<1> QED BY <1>1, <1>2, <1>3, <1>4, <1>5, <1>6 DEF IInv

(* A claim leases receipts that nobody keeps.                              *)
LEMMA ClaimedAreFree ==
    ASSUME IInv, NEW k \in AIStages, NEW c \in Claimable(k), NEW r \in c
    PROVE  /\ r \in Receipts /\ stage[r] = k /\ ~ leased[r]
           /\ r \in repeated \/ (/\ \A p \in Runs : ~ Submitting(p, r)
                                 /\ \A j \in Slots : ~ Keeps(j, r))
<1>1. r \in Receipts /\ stage[r] = k /\ ~ leased[r]
  BY DEF Claimable, Pending
<1> QED BY <1>1 DEF IInv, OneKeeper, OneKeeperOf

(* The claimed receipts get the run as their one keeper.                   *)
LEMMA SubmitStep ==
    ASSUME IInv, NEW p \in Runs, NEW k \in AIStages, Submit(p, k)
    PROVE  IInv'
<1> USE AIBatchConstants
<1>0. TypeOK /\ RunsOK /\ JobsOK /\ LeaseHasHolder /\ OneKeeper /\ BuiltIsDone
  BY DEF IInv
<1>c. PICK c \in Claimable(k) :
        /\ leased' = [r \in Receipts |-> leased[r] \/ r \in c]
        /\ claimed' = [claimed EXCEPT ![p] = c]
  BY DEF Submit, Set
<1>u. /\ pc[p] = "idle"
      /\ task' = [task EXCEPT ![p] = "submit"]
      /\ kind' = [kind EXCEPT ![p] = k]
      /\ pc' = [pc EXCEPT ![p] = "gather"]
      /\ UNCHANGED <<stage, draft, jobs, items, todo, job, verdict, faults,
                     returned, repeated, stranded>>
  BY DEF Submit, Set, Goto, ghosts
<1>f. \A r \in c : /\ r \in Receipts /\ stage[r] = k /\ ~ leased[r]
                   /\ r \in repeated \/ (/\ \A q \in Runs : ~ Submitting(q, r)
                                         /\ \A j \in Slots : ~ Keeps(j, r))
  BY ClaimedAreFree
<1>s. \A q \in Runs, r \in Receipts :
        Submitting(q, r)' <=> (IF q = p THEN r \in c ELSE Submitting(q, r))
  BY <1>0, <1>c, <1>u DEF Submitting, TypeOK, RunsOK, RunOK
<1>1. TypeOK'
  BY <1>0, <1>c, <1>u, <1>f DEF TypeOK, Tasks
<1>2. RunsOK'
  BY <1>0, <1>c, <1>u DEF TypeOK, RunsOK, RunOK, Submits, Works
<1>3. JobsOK'
  BY <1>0, <1>u DEF JobsOK
<1>4. LeaseHasHolder'
  <2>1. \A r \in Receipts : Submitting(p, r) => FALSE
    BY <1>0, <1>u DEF Submitting, RunsOK, RunOK
  <2>2. \A j \in Slots, r \in Receipts : Holds(j, r) => Holds(j, r)'
    BY <1>u DEF Holds, Open
  <2> QED BY <1>0, <1>c, <1>u, <1>s, <2>1, <2>2 DEF LeaseHasHolder
<1>5. OneKeeper'
  <2> SUFFICES ASSUME NEW x \in Receipts \ repeated PROVE OneKeeperOf(x)'
    BY <1>u DEF OneKeeper
  <2>1. OneKeeperOf(x)
    BY <1>0 DEF OneKeeper
  <2>2. \A j \in Slots : Keeps(j, x)' <=> Keeps(j, x)
    BY <1>u DEF Keeps
  <2>3. CASE x \in c
    BY <1>0, <1>c, <1>u, <1>f, <1>s, <2>2, <2>3 DEF OneKeeperOf, TypeOK
  <2>4. CASE x \notin c
    <3>1. leased'[x] = leased[x] /\ stage'[x] = stage[x]
      BY <1>0, <1>c, <1>u, <2>4 DEF TypeOK
    <3>2. \A q \in Runs : Submitting(q, x)' => Submitting(q, x) /\ kind'[q] = kind[q]
      BY <1>0, <1>u, <1>s, <2>4 DEF TypeOK
    <3> QED BY <1>u, <2>1, <2>2, <3>1, <3>2 DEF OneKeeperOf
  <2> QED BY <2>3, <2>4
<1>6. BuiltIsDone'
  BY <1>0, <1>u DEF BuiltIsDone
<1> QED BY <1>1, <1>2, <1>3, <1>4, <1>5, <1>6 DEF IInv

(* The claim was committed: its receipts are leased and stranded.          *)
LEMMA ClaimReplyLostStep ==
    ASSUME IInv, NEW p \in Runs, NEW k \in AIStages, ClaimReplyLost(p, k)
    PROVE  IInv'
<1> USE AIBatchConstants
<1>0. TypeOK /\ RunsOK /\ JobsOK /\ LeaseHasHolder /\ OneKeeper /\ BuiltIsDone
  BY DEF IInv
<1>c. PICK c \in Claimable(k) :
        /\ leased' = [r \in Receipts |-> leased[r] \/ r \in c]
        /\ stranded' = stranded \cup c
  BY DEF ClaimReplyLost
<1>u. /\ faults' \in 0 .. MaxFaults
      /\ UNCHANGED <<stage, draft, jobs, pc, task, kind, claimed, items, todo, job, verdict,
                     returned, repeated>>
  BY <1>0 DEF ClaimReplyLost, Fault, TypeOK, locals, plan
<1>f. c \subseteq Receipts
  BY ClaimedAreFree
<1>1. TypeOK'
  BY <1>0, <1>c, <1>u, <1>f DEF TypeOK
<1>2. RunsOK'
  BY <1>0, <1>u DEF RunsOK, RunOK
<1>3. JobsOK'
  BY <1>0, <1>u DEF JobsOK
<1>4. LeaseHasHolder'
  BY <1>0, <1>c, <1>u DEF LeaseHasHolder, Submitting, Holds, Open
<1>5. OneKeeper'
  <2> SUFFICES ASSUME NEW x \in Receipts \ repeated PROVE OneKeeperOf(x)'
    BY <1>u DEF OneKeeper
  <2>1. OneKeeperOf(x)
    BY <1>0 DEF OneKeeper
  <2>2. leased[x] => leased'[x]
    BY <1>c
  <2> QED BY <1>u, <2>1, <2>2 DEF OneKeeperOf, Submitting, Keeps
<1>6. BuiltIsDone'
  BY <1>0, <1>u DEF BuiltIsDone
<1> QED BY <1>1, <1>2, <1>3, <1>4, <1>5, <1>6 DEF IInv

(* A run that polls or expires reads its list of jobs, no more.            *)
LEMMA StartOnStep ==
    ASSUME IInv, NEW p \in Runs, NEW t \in Tasks \ {"submit"}, NEW js \in SUBSET Slots,
           StartOn(p, t, js)
    PROVE  IInv'
<1> USE AIBatchConstants
<1>0. TypeOK /\ RunsOK /\ JobsOK /\ LeaseHasHolder /\ OneKeeper /\ BuiltIsDone
  BY DEF IInv
<1>u. /\ pc[p] = "idle"
      /\ task' = [task EXCEPT ![p] = t]
      /\ todo' = [todo EXCEPT ![p] = js]
      /\ pc' = [pc EXCEPT ![p] = "loop"]
      /\ UNCHANGED <<stage, leased, draft, jobs, kind, claimed, items, job, verdict, faults,
                     returned, repeated, stranded>>
  BY DEF StartOn, Set, Goto, rows, ghosts
<1>s. \A q \in Runs, r \in Receipts : Submitting(q, r)' <=> Submitting(q, r)
  BY <1>0, <1>u DEF Submitting, TypeOK, RunsOK, RunOK
<1>1. TypeOK'
  BY <1>0, <1>u DEF TypeOK
<1>2. RunsOK'
  BY <1>0, <1>u DEF TypeOK, RunsOK, RunOK, Submits, Works
<1>3. JobsOK'
  BY <1>0, <1>u DEF JobsOK
<1>4. LeaseHasHolder'
  BY <1>0, <1>u, <1>s DEF LeaseHasHolder, Holds, Open
<1>5. OneKeeper'
  BY <1>0, <1>u, <1>s DEF OneKeeper, OneKeeperOf, Keeps
<1>6. BuiltIsDone'
  BY <1>0, <1>u DEF BuiltIsDone
<1> QED BY <1>1, <1>2, <1>3, <1>4, <1>5, <1>6 DEF IInv

(* The provider's side of a job, and its age, are no one's lease.          *)
LEMMA BatchStep ==
    ASSUME IInv, NEW j \in Slots, BatchEnds(j) \/ JobAges(j)
    PROVE  IInv'
<1> USE AIBatchConstants
<1>0. TypeOK /\ RunsOK /\ JobsOK /\ LeaseHasHolder /\ OneKeeper /\ BuiltIsDone
  BY DEF IInv
<1>u. /\ faults' \in 0 .. MaxFaults
      /\ UNCHANGED <<stage, leased, draft, pc, task, kind, claimed, items, todo, job, verdict,
                     returned, repeated, stranded>>
  BY <1>0 DEF BatchEnds, JobAges, Fault, TypeOK, rows, locals, plan, ghosts
<1>j. /\ jobs' \in [Slots -> Job]
      /\ \A i \in Slots : /\ jobs'[i].items = jobs[i].items /\ jobs'[i].kind = jobs[i].kind
                          /\ jobs'[i].status = jobs[i].status
                          /\ jobs'[i].answers \subseteq jobs'[i].items
  <2>0. jobs[j] \in Job /\ jobs[j].items \subseteq Receipts /\ jobs[j].answers \subseteq jobs[j].items
    BY <1>0 DEF TypeOK, Job, JobsOK
  <2>1. ASSUME NEW a \in SUBSET jobs[j].items,
               jobs' = [jobs EXCEPT ![j].batch = "completed", ![j].answers = a]
        PROVE  <1>j
    BY <1>0, <2>0, <2>1 DEF TypeOK, Job, Batches, JobsOK
  <2>2. ASSUME NEW b \in {"failed", "expired", "hung"}, jobs' = [jobs EXCEPT ![j].batch = b]
        PROVE  <1>j
    BY <1>0, <2>0, <2>2 DEF TypeOK, Job, Batches, JobsOK
  <2>3. ASSUME jobs' = [jobs EXCEPT ![j].old = TRUE] PROVE <1>j
    BY <1>0, <2>0, <2>3 DEF TypeOK, Job, JobsOK
  <2> QED BY <2>1, <2>2, <2>3 DEF BatchEnds, JobAges
<1>1. TypeOK'
  BY <1>0, <1>u, <1>j DEF TypeOK
<1>2. RunsOK'
  <2> SUFFICES ASSUME NEW p \in Runs PROVE RunOK(p)'
    BY DEF RunsOK
  <2>1. RunOK(p) /\ job[p] \in Slots \cup {NoJob}
    BY <1>0 DEF RunsOK, TypeOK
  <2> QED BY <1>u, <1>j, <2>1 DEF RunOK
<1>3. JobsOK'
  BY <1>j DEF JobsOK
<1>4. LeaseHasHolder'
  BY <1>0, <1>u, <1>j DEF LeaseHasHolder, Submitting, Holds, Open
<1>5. OneKeeper'
  <2>1. \A i \in Slots, r \in Receipts : Keeps(i, r)' <=> Keeps(i, r)
    BY <1>u, <1>j DEF Keeps
  <2>2. \A q \in Runs, r \in Receipts : Submitting(q, r)' <=> Submitting(q, r)
    BY <1>u DEF Submitting
  <2> QED BY <1>0, <1>u, <1>j, <2>1, <2>2 DEF OneKeeper, OneKeeperOf
<1>6. BuiltIsDone'
  BY <1>0, <1>u DEF BuiltIsDone
<1> QED BY <1>1, <1>2, <1>3, <1>4, <1>5, <1>6 DEF IInv

(* Nothing is leased at the start.                                         *)
LEMMA InitInv == Init => IInv
<1> USE AIBatchConstants
<1> SUFFICES ASSUME Init PROVE IInv
  OBVIOUS
<1>f. Forgotten \in Job /\ Forgotten.items = {} /\ Forgotten.answers = {}
  BY DEF Forgotten, NewJob, Job, AIStages, Batches
<1>1. TypeOK
  BY <1>f DEF Init, TypeOK, Tasks, AIStages
<1>2. RunsOK
  BY DEF Init, RunsOK, RunOK, Submits, Works
<1>3. JobsOK
  BY <1>f DEF Init, JobsOK
<1>4. LeaseHasHolder
  BY DEF Init, LeaseHasHolder
<1>5. OneKeeper
  BY <1>f DEF Init, OneKeeper, OneKeeperOf, Submitting, Keeps
<1>6. BuiltIsDone
  BY DEF Init, BuiltIsDone
<1> QED BY <1>1, <1>2, <1>3, <1>4, <1>5, <1>6 DEF IInv

(* Every step of every run, and of the provider, keeps the invariant.      *)
LEMMA StepInv == IInv /\ [Next]_vars => IInv'
<1> SUFFICES ASSUME IInv, [Next]_vars PROVE IInv'
  OBVIOUS
<1>1. ASSUME NEW r \in Receipts, Ensure(r) PROVE IInv'
  BY <1>1, EnsureStep
<1>2. ASSUME NEW p \in Runs, Start(p) PROVE IInv'
  <2>1. ASSUME NEW k \in AIStages, Submit(p, k) PROVE IInv'
    BY <2>1, SubmitStep
  <2>2. CASE Collect(p)
    BY <2>2, StartOnStep DEF Collect, Tasks
  <2>3. CASE ResetStuck(p)
    BY <2>3, StartOnStep DEF ResetStuck, StuckJobs, Tasks
  <2> QED BY <1>2, <2>1, <2>2, <2>3 DEF Start
<1>3. ASSUME NEW p \in Runs, Step(p) PROVE IInv'
  BY <1>3, GatherItemStep, GatherShortCutStep, SubmitBatchStep, CreateJobStep, UndoStep,
     PollJobStep, TakeStuckJobStep, RunEndsStep, ApplyStep, ResetJobStep, MarkJobStep DEF Step
<1>4. ASSUME NEW p \in Runs, Trouble(p) PROVE IInv'
  BY <1>4, GatherResetsStep, GatherLosesStep, SubmitBatchFailsStep, CreateJobFailsStep,
     PollJobFailsStep, ApplyFailsStep, MarkJobFailsStep, CrashStep DEF Trouble
<1>5. ASSUME NEW p \in Runs, NEW k \in AIStages, ClaimReplyLost(p, k) PROVE IInv'
  BY <1>5, ClaimReplyLostStep
<1>6. ASSUME NEW j \in Slots, BatchEnds(j) \/ JobAges(j) PROVE IInv'
  BY <1>6, BatchStep
<1>7. CASE UNCHANGED vars
  <2>1. UNCHANGED <<stage, leased, draft, jobs, pc, task, kind, claimed, items, todo, job,
                    verdict, faults, returned, repeated, stranded>>
    BY <1>7 DEF vars, rows, locals, plan, ghosts
  <2>2. (TypeOK /\ RunsOK /\ JobsOK)'
    BY <2>1 DEF IInv, TypeOK, RunsOK, RunOK, JobsOK
  <2>3. (LeaseHasHolder /\ BuiltIsDone)'
    BY <2>1 DEF IInv, LeaseHasHolder, Submitting, Holds, Open, BuiltIsDone
  <2>4. OneKeeper'
    BY <2>1 DEF IInv, OneKeeper, OneKeeperOf, Submitting, Keeps
  <2> QED BY <2>2, <2>3, <2>4 DEF IInv
<1> QED BY <1>1, <1>2, <1>3, <1>4, <1>5, <1>6, <1>7 DEF Next

(* The inductive invariant holds in every execution, whichever of the      *)
(* scheduler's task runs overlap or stop half way.                         *)
THEOREM LeasesInvariant == Spec => []IInv
BY InitInv, StepInv, PTL DEF Spec

(* Every variable keeps its type; in particular no run ever acts on a job  *)
(* that is not there.                                                      *)
THEOREM LeasesTyped == Spec => []TypeOK
<1>1. IInv => TypeOK
  BY DEF IInv
<1> QED BY <1>1, LeasesInvariant, PTL

(* A receipt that is in_flight has somebody who will give it back: the     *)
(* submit run that claimed it or the open job it is an item of.            *)
THEOREM LeasesHaveHolders == Spec => []LeaseHasHolder
<1>1. IInv => LeaseHasHolder
  BY DEF IInv
<1> QED BY <1>1, LeasesInvariant, PTL

(* A receipt is in one batch at a time, at the stage the batch is for,     *)
(* however many replicas submit and collect.                               *)
THEOREM OneBatchAtATime == Spec => []OneHolder
<1>1. IInv => OneHolder
  <2>1. \A j \in Slots, r \in Receipts : Holds(j, r) => Keeps(j, r)
    BY DEF Holds, Keeps
  <2> QED BY <2>1 DEF IInv, OneKeeper, OneKeeperOf, OneHolder
<1> QED BY <1>1, LeasesInvariant, PTL

(* finalize overwrites a draft it has built only for a receipt whose       *)
(* result was applied again.                                               *)
THEOREM DraftsAreBuiltOnce == Spec => []DraftsBuiltOnce
<1>1. IInv => DraftsBuiltOnce
  BY DEF IInv, BuiltIsDone, DraftsBuiltOnce
<1> QED BY <1>1, LeasesInvariant, PTL

(* A receipt that is moved from the stage it is at does not fall back, and *)
(* no other receipt moves.                                                 *)
LEMMA MovesForward ==
    ASSUME TypeOK, NEW r \in Receipts, NEW k \in AIStages, Moved(r, k), stage[r] = k,
           NEW x \in Receipts
    PROVE  /\ ~ (Rank(stage'[x]) < Rank(stage[x]))
           /\ stage[x] \in Settled => stage'[x] = stage[x]
<1>1. CASE x = r
  BY <1>1 DEF Moved, Rank, NextStage, AIStages, Settled
<1>2. CASE x # r
  <2>1. stage'[x] = stage[x] /\ Rank(stage[x]) \in Nat
    BY <1>2 DEF Moved, Rank
  <2> QED BY <2>1
<1> QED BY <1>1, <1>2

FallsBack(r) ==
    \/ Rank(stage'[r]) < Rank(stage[r])
    \/ stage[r] \in Settled /\ stage'[r] # stage[r]

LEMMA OnlyRepeatFallsBack ==
    ASSUME IInv, Next, NEW x \in Receipts, FallsBack(x)
    PROVE  x \in repeated'
<1>0. TypeOK /\ RunsOK /\ JobsOK /\ LeaseHasHolder /\ OneKeeper /\ BuiltIsDone
  BY DEF IInv
<1>1. ASSUME stage' = stage PROVE FALSE
  <2>1. Rank(stage[x]) \in Nat
    BY DEF Rank
  <2> QED BY <1>1, <2>1 DEF FallsBack
<1>2. ASSUME NEW r \in Receipts, Ensure(r) PROVE FALSE
  <2>1. stage[r] = "none" /\ stage' = [stage EXCEPT ![r] = "extract"]
    BY <1>2 DEF Ensure
  <2>2. CASE x = r
    BY <1>0, <2>1, <2>2 DEF TypeOK, FallsBack, Rank, Settled
  <2>3. CASE x # r
    <3>1. stage'[x] = stage[x] /\ Rank(stage[x]) \in Nat
      BY <1>0, <2>1, <2>3 DEF TypeOK, Rank
    <3> QED BY <3>1 DEF FallsBack
  <2> QED BY <2>2, <2>3
<1>3. ASSUME NEW p \in Runs, GatherShortCut(p) PROVE x \in repeated'
  <2>1. PICK r \in claimed[p] : Park(r) \/ Advance(r, kind[p])
    BY <1>3 DEF GatherShortCut
  <2>2. /\ r \in Receipts /\ kind[p] \in AIStages /\ repeated' = repeated
        /\ Submitting(p, r)
    BY <1>0, <1>3, <2>1 DEF GatherShortCut, TypeOK, RunsOK, RunOK, Submits,
         Submitting, ghosts
  <2>3. Moved(r, kind[p])
    BY <1>0, <2>1, <2>2, AdvanceMoves
  <2>4. CASE r \in repeated
    <3>1. x = r \/ (stage'[x] = stage[x] /\ Rank(stage[x]) \in Nat)
      BY <2>2, <2>3 DEF Moved, Rank
    <3> QED BY <2>2, <2>4, <3>1 DEF FallsBack
  <2>5. CASE r \notin repeated
    <3>1. stage[r] = kind[p]
      BY <1>0, <1>3, <2>2, <2>5 DEF OneKeeper, OneKeeperOf
    <3> QED BY <1>0, <2>2, <2>3, <3>1, MovesForward DEF FallsBack
  <2> QED BY <2>4, <2>5
<1>4. ASSUME NEW p \in Runs, Apply(p) PROVE x \in repeated'
  <2>1. PICK r \in claimed[p] :
          /\ Applied(p, r)
          /\ Park(r) \/ Advance(r, jobs[job[p]].kind)
          /\ GiveBack(job[p], {r}, {r})
    BY <1>4 DEF Apply
  <2>2. pc[p] = "apply"
    BY <2>1 DEF Applied
  <2>3. PICK j \in Slots : j = job[p]
    BY <1>0, <1>4, <2>2 DEF RunsOK, RunOK
  <2>4. r \in Receipts /\ r \in jobs[j].items /\ jobs[j].kind \in AIStages
    BY <1>0, <1>4, <2>1, <2>2, <2>3 DEF TypeOK, RunsOK, RunOK, Job
  <2>5. Moved(r, jobs[j].kind)
    BY <1>0, <2>1, <2>3, <2>4, AdvanceMoves
  <2>6. repeated' = repeated \cup ({r} \cap returned[j])
    BY <2>1, <2>3 DEF GiveBack
  <2>7. CASE r \in repeated'
    <3>1. x = r \/ (stage'[x] = stage[x] /\ Rank(stage[x]) \in Nat)
      BY <2>4, <2>5 DEF Moved, Rank
    <3> QED BY <2>7, <3>1 DEF FallsBack
  <2>8. CASE r \notin repeated'
    <3>1. Keeps(j, r) /\ r \notin repeated
      BY <2>4, <2>6, <2>8 DEF Keeps
    <3>2. stage[r] = jobs[j].kind
      BY <1>0, <2>4, <3>1 DEF OneKeeper, OneKeeperOf
    <3> QED BY <1>0, <2>4, <2>5, <3>2, MovesForward DEF FallsBack
  <2> QED BY <2>7, <2>8
<1>5. ASSUME NEW p \in Runs, Start(p) PROVE stage' = stage
  BY <1>5 DEF Start, Submit, Collect, ResetStuck, StartOn, rows
<1>6. ASSUME NEW p \in Runs, Step(p), ~ GatherShortCut(p), ~ Apply(p) PROVE stage' = stage
  BY <1>6 DEF Step, GatherItem, SubmitBatch, CreateJob, Undo, PollJob, TakeStuckJob,
       RunEnds,
     ResetJob, MarkJob, MarkEnds, Reset, rows
<1>7. ASSUME NEW p \in Runs, Trouble(p) PROVE stage' = stage
  BY <1>7 DEF Trouble, GatherResets, GatherLoses, SubmitBatchFails, CreateJobFails,
     PollJobFails, ApplyFails, MarkJobFails, MarkEnds, Crash, Reset, Fails, rows
<1>8. ASSUME NEW p \in Runs, NEW k \in AIStages, ClaimReplyLost(p, k) PROVE stage' = stage
  BY <1>8 DEF ClaimReplyLost
<1>9. ASSUME NEW j \in Slots, BatchEnds(j) \/ JobAges(j) PROVE stage' = stage
  BY <1>9 DEF BatchEnds, JobAges, rows
<1> QED BY <1>1, <1>2, <1>3, <1>4, <1>5, <1>6, <1>7, <1>8, <1>9 DEF Next

(* A receipt falls back to an earlier stage, or leaves done or review,     *)
(* only by a result that a second collector applies again.                 *)
THEOREM StagesFallBackOnRepeat == Spec => FallsBackOnlyOnRepeat
<1>1. IInv /\ [Next]_vars =>
        [\A r \in Receipts :
            \/ Rank(stage'[r]) < Rank(stage[r])
            \/ stage[r] \in Settled /\ stage'[r] # stage[r]
            => r \in repeated']_vars
  BY OnlyRepeatFallsBack DEF FallsBack
<1> QED BY <1>1, LeasesInvariant, PTL DEF Spec, FallsBackOnlyOnRepeat
=============================================================================
