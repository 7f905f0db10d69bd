----------------------------- MODULE ReceiptStages -----------------------------
(***************************************************************************)
(* The stages of one uploaded document: the requests that upload it, run a *)
(* stage again or requeue its job, and the worker's processJob, in each    *)
(* pipeline mode.                                                          *)
(*                                                                         *)
(* A stage is the sequence of writes it makes (todo) and runs beside other *)
(* jobs of the document.  A step that fails is returned to the queue, some *)
(* after a reason and the status needs_attention were recorded; several    *)
(* writes are best-effort, and a failure of one is only logged.  JobQueue  *)
(* models claims and crashes, AIBatch the batched pipeline, VendorMemory   *)
(* the memo, Ledger the draft against a reviewer's post.                   *)
(***************************************************************************)
EXTENDS Integers, Sequences, FiniteSets

CONSTANTS
    StageWorkers,   \* workers that run jobs of the document
    MaxTries,       \* QUEUE_MAX_ATTEMPTS
    MaxStageJobs, MaxAsked, MaxStageFaults    \* bounds of the model

(* Claim takes a limit below one for its default of five.                  *)
ASSUME StageConstants ==
    MaxTries \in Nat \ {0} /\ MaxStageJobs \in Nat /\ MaxAsked \in Nat /\ MaxStageFaults \in Nat

StageJobs == 1 .. MaxStageJobs
Stages    == {"ocr", "suggest", "draft"}
Modes     == {"legacy", "decomposed", "decomposed-batch"}
Kinds     == {"receipt", "csv", "scan"}    \* csv: an import of text, scan: of a picture
AtRest    == <<>>

VARIABLES
    pipelineMode, \* PIPELINE_MODE
    paper,        \* the document's rows: [kind, status, text, rows, suggested, draft,
                  \*                       reason, state]
    queued,       \* jobs in the order of their creation: [stage, state, tries]
    desk,         \* the statements a request has left: [do, stage]
    run,          \* a worker's job, the writes it has left, and whether it goes back unrecorded
    asked,        \* uploads, reruns and requeues so far
    stageFaults,
    memoized,     \* times the document was counted for its vendor
    missed        \* history: what was lost since the last rerun

stageVars == <<pipelineMode, paper, queued, desk, run, asked, stageFaults, memoized, missed>>

OffDuty == [job |-> 0, todo |-> AtRest, silent |-> FALSE]

NoPaper == [kind |-> "none", status |-> "none", text |-> "none", rows |-> FALSE,
            suggested |-> FALSE, draft |-> "none", reason |-> FALSE, state |-> "none"]

StagesInit ==
    /\ pipelineMode \in Modes
    /\ paper = NoPaper
    /\ queued = <<>>
    /\ desk = AtRest
    /\ run = [w \in StageWorkers |-> OffDuty]
    /\ asked = 0 /\ stageFaults = 0
    /\ memoized = 0
    /\ missed = {}

-----------------------------------------------------------------------------
(* Requests.                                                               *)

Ask(statements) ==
    /\ desk = AtRest /\ asked < MaxAsked
    /\ asked' = asked + 1
    /\ desk' = statements

Enqueued(stage) == Append(queued, [stage |-> stage, state |-> "queued", tries |-> 0])

(* POST /receipts: the row is created, its first job queued.               *)
handleReceiptUpload ==
    /\ paper.kind = "none"
    /\ Ask(<<[do |-> "enqueue", stage |-> "ocr"]>>)
    /\ paper' = [NoPaper EXCEPT !.kind = "receipt", !.status = "uploaded"]
    /\ UNCHANGED <<pipelineMode, queued, run, stageFaults, memoized, missed>>

(* POST /imports: an import of text skips OCR; its text is stored after    *)
(* its job was queued.                                                     *)
handleImportUpload(kind) ==
    /\ paper.kind = "none" /\ kind # "receipt"
    /\ Ask(IF kind = "csv"
           THEN <<[do |-> "enqueue", stage |-> "suggest"], [do |-> "text", stage |-> "suggest"]>>
           ELSE <<[do |-> "enqueue", stage |-> "ocr"]>>)
    /\ paper' = [NoPaper EXCEPT !.kind = kind, !.status = "uploaded"]
    /\ UNCHANGED <<pipelineMode, queued, run, stageFaults, memoized, missed>>

(* POST /receipts/:id/rerun...: the status first, then the job.            *)
rerunStage(stage) ==
    /\ paper.kind # "none"
    /\ Ask(<<[do |-> "again", stage |-> stage]>>)
    /\ paper' = [paper EXCEPT !.status = "queued"]
    /\ UNCHANGED <<pipelineMode, queued, run, stageFaults, memoized, missed>>

(* POST /receipts/:id/requeue: the newest job, whatever its state.         *)
handleReceiptRequeue ==
    /\ queued # <<>>
    /\ Ask(AtRest)
    /\ queued' = [queued EXCEPT ![Len(queued)].state = "queued"]
    /\ UNCHANGED <<pipelineMode, paper, run, stageFaults, memoized, missed>>

(* What a rerun does not make good: an import's rows are stored by its     *)
(* suggest stage only.                                                     *)
Unmended(stage) ==
    {"reason"} \cup (IF stage = "suggest" /\ paper.text = "text" THEN {} ELSE {"early", "rows"})

(* What is lost of an import may be the storing of its rows.               *)
Rows == IF paper.kind = "csv" THEN {"rows"} ELSE {}

EnqueueFirst ==
    /\ desk # AtRest /\ Head(desk).do \in {"enqueue", "again"} /\ Len(queued) < MaxStageJobs
    /\ queued' = Enqueued(Head(desk).stage)
    /\ missed' = IF Head(desk).do = "again" THEN missed \cap Unmended(Head(desk).stage) ELSE missed
    /\ desk' = Tail(desk)
    /\ UNCHANGED <<pipelineMode, paper, run, asked, stageFaults, memoized>>

StoreText ==
    /\ desk # AtRest /\ Head(desk).do = "text"
    /\ paper' = [paper EXCEPT !.text = "text"]
    /\ desk' = Tail(desk)
    /\ UNCHANGED <<pipelineMode, queued, run, asked, stageFaults, memoized, missed>>

(* Both errors are ignored by an upload; a rerun answers 500.              *)
DeskFails ==
    /\ desk # AtRest /\ stageFaults < MaxStageFaults
    /\ stageFaults' = stageFaults + 1
    /\ missed' = IF Head(desk).do = "text" THEN missed ELSE missed \cup {"enqueue"}
    /\ desk' = Tail(desk)
    /\ UNCHANGED <<pipelineMode, paper, queued, run, asked, memoized>>

-----------------------------------------------------------------------------
(* The worker.                                                             *)

StageClaimable ==
    {j \in 1 .. Len(queued) : queued[j].state \in {"queued", "failed"} /\ queued[j].tries < MaxTries}

(* runSuggest: a draft for a receipt, rules and rows, the suggestion.      *)
runSuggest ==
    (IF paper.status = "processing" THEN <<>> ELSE <<"begin">>) \o
    (IF paper.kind = "receipt" THEN <<"ensure">> ELSE <<>>) \o
    <<"match", "suggest", "pass", "ack">>

(* processJob.                                                             *)
processJob(stage) ==
    CASE stage = "ocr"   -> <<"mark", "transcribe", "pass", "ack">>
      [] stage = "draft" -> <<"ensure", "draft">>
      [] OTHER -> CASE pipelineMode = "legacy"     -> runSuggest
                    [] pipelineMode = "decomposed" -> <<"read">>
                    [] OTHER                       -> <<"hand", "ack">>

StartJob(w) ==
    /\ run[w] = OffDuty
    /\ \E j \in StageClaimable :
          /\ \A k \in StageClaimable : j <= k
          /\ queued' = [queued EXCEPT ![j].state = "processing", ![j].tries = @ + 1]
          /\ run' = [run EXCEPT ![w] = [job |-> j, todo |-> processJob(queued[j].stage),
                                        silent |-> FALSE]]
    /\ UNCHANGED <<pipelineMode, paper, desk, asked, stageFaults, memoized, missed>>

Doing(w, step) == run[w] # OffDuty /\ Head(run[w].todo) = step
Goes(w, todo)  == run' = [run EXCEPT ![w].todo = todo]
Proceed(w)     == Goes(w, Tail(run[w].todo))

(* A slip: the reason is recorded, the status is not.                      *)
ParkReasonOnly == <<"reason">>

(* pipelinePark and recordOCRError.                                        *)
pipelinePark == <<"reason", "attention">>

(* What a stage does when a step fails: some record it before they return  *)
(* the error.                                                              *)
OnFailure(step) ==
    CASE step \in {"transcribe", "fill", "suggest"}                -> pipelinePark \o <<"retry">>
      [] step = "final"                                            -> <<"reason", "retry">>
      [] step \in {"mark", "read", "ensure", "match", "draft", "hand"} -> <<"retry">>

StepFails(w) ==
    /\ run[w] # OffDuty /\ stageFaults < MaxStageFaults
    /\ LET step == Head(run[w].todo) IN
       /\ step \notin {"begin", "reason", "attention", "ready", "vendor", "pass", "ack", "retry"}
       /\ run' = [run EXCEPT ![w].todo = OnFailure(step),
                             ![w].silent = step \notin {"transcribe", "fill", "suggest"}]
    /\ stageFaults' = stageFaults + 1
    /\ UNCHANGED <<pipelineMode, paper, queued, desk, asked, memoized, missed>>

(* A best-effort write, or an enqueue, fails: it is logged.                *)
WriteLost(w) ==
    /\ run[w] # OffDuty /\ stageFaults < MaxStageFaults
    /\ Head(run[w].todo) \in {"begin", "reason", "attention", "ready", "vendor", "pass"}
    /\ stageFaults' = stageFaults + 1
    /\ missed' = missed \cup ({Head(run[w].todo)} \ {"begin", "vendor"})
                        \cup (IF Head(run[w].todo) = "pass" THEN Rows ELSE {})
    /\ Proceed(w)
    /\ UNCHANGED <<pipelineMode, paper, queued, desk, asked, memoized>>

Wrote(w, newPaper) ==
    /\ paper' = newPaper
    /\ Proceed(w)
    /\ UNCHANGED <<pipelineMode, queued, desk, asked, stageFaults, memoized, missed>>

MarkProcessing(w) ==
    (Doing(w, "mark") \/ Doing(w, "begin")) /\ Wrote(w, [paper EXCEPT !.status = "processing"])

(* Empty text where nothing is configured, or the picture has none.        *)
Transcribe(w) ==
    /\ Doing(w, "transcribe")
    /\ \E t \in {"blank", "text"} : Wrote(w, [paper EXCEPT !.text = t])

EnsureDraft(w) ==
    Doing(w, "ensure") /\ Wrote(w, [paper EXCEPT !.draft = IF @ = "none" THEN "empty" ELSE @])

FillDraft(w) == Doing(w, "fill") /\ Wrote(w, [paper EXCEPT !.draft = "filled"])

MarkReady(w) ==
    (Doing(w, "ready") \/ Doing(w, "final")) /\ Wrote(w, [paper EXCEPT !.status = "ready_for_review"])

RecordReason(w) == Doing(w, "reason") /\ Wrote(w, [paper EXCEPT !.reason = TRUE])

MarkAttention(w) == Doing(w, "attention") /\ Wrote(w, [paper EXCEPT !.status = "needs_attention"])

(* Rules are matched; the rows of an import are stored if its text has any.*)
MatchRules(w) ==
    /\ Doing(w, "match")
    /\ LET hasText == paper.kind # "receipt" /\ paper.text = "text" IN
       /\ paper' = [paper EXCEPT !.rows = @ \/ hasText]
       /\ missed' = IF paper.kind = "csv" /\ desk # AtRest /\ ~ hasText THEN missed \cup {"early"} ELSE missed
    /\ Proceed(w)
    /\ UNCHANGED <<pipelineMode, queued, desk, asked, stageFaults, memoized>>

CreateSuggestion(w) == Doing(w, "suggest") /\ Wrote(w, [paper EXCEPT !.suggested = TRUE])

PassOn(w) ==
    /\ Doing(w, "pass") /\ Len(queued) < MaxStageJobs
    /\ queued' = Enqueued(IF queued[run[w].job].stage = "ocr" THEN "suggest" ELSE "draft")
    /\ Proceed(w)
    /\ UNCHANGED <<pipelineMode, paper, desk, asked, stageFaults, memoized, missed>>

(* runPipeline: parked without text, without a provider, or when a gate    *)
(* closes; else the draft, and the vendor's memo.                          *)
runPipeline(w) ==
    /\ Doing(w, "read")
    /\ \/ Goes(w, pipelinePark \o <<"ack">>)
       \/ paper.text = "text" /\ Goes(w, <<"ensure", "fill", "ready", "vendor", "ack">>)
    /\ UNCHANGED <<pipelineMode, paper, queued, desk, asked, stageFaults, memoized, missed>>

CountVendor(w) ==
    /\ Doing(w, "vendor")
    /\ memoized' = memoized + 1
    /\ Proceed(w)
    /\ UNCHANGED <<pipelineMode, paper, queued, desk, asked, stageFaults, missed>>

(* runDraft: entries already there stay; else those of the suggestion, if  *)
(* it has an account.                                                      *)
runDraft(w) ==
    /\ Doing(w, "draft")
    /\ \/ Goes(w, <<"final", "ack">>)
       \/ paper.draft = "empty" /\ paper.suggested /\ Goes(w, <<"fill", "final", "ack">>)
    /\ UNCHANGED <<pipelineMode, paper, queued, desk, asked, stageFaults, memoized, missed>>

(* Ensure leaves a row of receipt_pipeline_state alone: a rerun of a       *)
(* receipt the batches have finished with hands over nothing.              *)
HandOver(w) ==
    /\ Doing(w, "hand")
    /\ paper' = [paper EXCEPT !.state = IF @ = "none" THEN "pending" ELSE @]
    /\ missed' = IF paper.state = "finished" THEN missed \cup {"hand"} ELSE missed
    /\ Proceed(w)
    /\ UNCHANGED <<pipelineMode, queued, desk, asked, stageFaults, memoized>>

(* The batched pipeline, at some time: a finished draft, or parked.        *)
BatchSettles ==
    /\ paper.state = "pending"
    /\ \/ paper' = [paper EXCEPT !.state = "finished", !.status = "ready_for_review", !.draft = "filled"]
       \/ paper' = [paper EXCEPT !.state = "finished", !.status = "needs_attention", !.reason = TRUE]
    /\ UNCHANGED <<pipelineMode, queued, desk, run, asked, stageFaults, memoized, missed>>

(* Ack, or Fail, of the job's row, whoever has claimed or requeued it      *)
(* since: an Ack may undo a requeue or another's failure, the last Fail of *)
(* a job that recorded nothing is silent.                                  *)
SettleJob(w) ==
    /\ Doing(w, "ack") \/ Doing(w, "retry")
    /\ LET j     == run[w].job
           last  == Doing(w, "retry") /\ queued[j].tries = MaxTries
           undid == Doing(w, "ack") /\ j \in StageClaimable IN
       /\ queued' = [queued EXCEPT ![j].state = IF Doing(w, "ack") THEN "done" ELSE "failed"]
       /\ missed' = missed \cup (IF last /\ run[w].silent THEN {"tries"} ELSE {})
                           \cup (IF undid THEN {"ack"} ELSE {})
                           \cup (IF last \/ undid THEN Rows ELSE {})
    /\ run' = [run EXCEPT ![w] = OffDuty]
    /\ UNCHANGED <<pipelineMode, paper, desk, asked, stageFaults, memoized>>

StagesNext ==
    \/ handleReceiptUpload \/ handleReceiptRequeue
    \/ \E k \in Kinds : handleImportUpload(k)
    \/ \E s \in Stages : rerunStage(s)
    \/ EnqueueFirst \/ StoreText \/ DeskFails \/ BatchSettles
    \/ \E w \in StageWorkers :
          \/ StartJob(w) \/ StepFails(w) \/ WriteLost(w) \/ MarkProcessing(w) \/ Transcribe(w)
          \/ EnsureDraft(w) \/ FillDraft(w) \/ MarkReady(w) \/ RecordReason(w)
          \/ MarkAttention(w) \/ MatchRules(w) \/ CreateSuggestion(w) \/ PassOn(w)
          \/ runPipeline(w) \/ CountVendor(w) \/ runDraft(w) \/ HandOver(w) \/ SettleJob(w)

StagesSpec == StagesInit /\ [][StagesNext]_stageVars

-----------------------------------------------------------------------------
PaperRows ==
    [kind : Kinds \cup {"none"},
     status : {"none", "uploaded", "queued", "processing", "ready_for_review", "needs_attention"},
     text : {"none", "blank", "text"}, rows : BOOLEAN, suggested : BOOLEAN,
     draft : {"none", "empty", "filled"}, reason : BOOLEAN,
     state : {"none", "pending", "finished"}]

JobRows ==
    [stage : Stages, state : {"queued", "processing", "done", "failed"}, tries : 0 .. MaxTries]

StagesTypeOK ==
    /\ pipelineMode \in Modes
    /\ paper \in PaperRows
    /\ queued \in Seq(JobRows) /\ Len(queued) <= MaxStageJobs
    /\ asked \in 0 .. MaxAsked /\ stageFaults \in 0 .. MaxStageFaults
    /\ memoized \in Nat

Quiet == desk = AtRest /\ StageClaimable = {} /\ \A w \in StageWorkers : run[w] = OffDuty

Judged == paper.status \in {"ready_for_review", "needs_attention"}

(* No document is left in silence: once its requests and jobs are through, *)
(* it is ready or wants attention, unless an enqueue or a best-effort      *)
(* write was lost, a job used up its tries without recording why, an Ack   *)
(* undid another's Fail or a requeue, or the batches had finished with it  *)
(* before; a later rerun mends all but the last.  One that is ready has a  *)
(* draft, one that wants attention a reason.  An import with text and a    *)
(* suggestion lacks its rows only if the text came late, or the job that   *)
(* should have stored them was lost or gave up, until its suggest stage is *)
(* run again.  No retry counts a document for its vendor again: only a     *)
(* request does.                                                           *)
ReceiptsSettle ==
    /\ Quiet /\ paper.kind # "none" =>
          \/ Judged \/ paper.state = "pending"
          \/ missed \cap {"enqueue", "pass", "attention", "ready", "tries", "hand", "ack"} # {}
    /\ paper.status = "ready_for_review" => paper.draft # "none"
    /\ paper.status = "needs_attention" => paper.reason \/ "reason" \in missed
    /\ Quiet /\ paper.kind = "csv" /\ paper.suggested /\ paper.text = "text" =>
          paper.rows \/ missed \cap {"early", "rows"} # {}
    /\ memoized <= asked
=============================================================================
