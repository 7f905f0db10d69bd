# openb00ks: TLA+ models and proofs

openb00ks is capture-first bookkeeping: a receipt or a bank export is uploaded,
read by OCR and an AI provider, turned into a draft, reviewed, and posted to a
double-entry journal. All state is in Postgres. It is written by three kinds of
processes that run in any number and know nothing of each other: API servers
(`cmd/api`, `internal/http`), workers (`cmd/worker`) and replicas of the
ops-scheduler (`cmd/ops-scheduler`). What makes the system hard is therefore what
happens between two SQL statements of one process while another goes on, fails or
is restarted; that is what these models are about.

## Inventory

| Component | State | Operations | Talks to |
|---|---|---|---|
| Job queue, worker loop (`internal/queue`, `cmd/worker`) | `receipt_jobs`; the batch a worker has claimed | Enqueue, Claim, Ack, Fail, Requeue; claim-run-settle loop, shutdown | API and worker stages enqueue; operators requeue |
| Receipts, drafts, journal (`internal/db/{receipts,drafts,transactions}.go`) | `receipts.status`, `attached_at`, `draft_transactions`, `draft_entries`, `transactions`, `entries` | post a draft, post directly, edit a draft, draft job, pipeline result, status change | API handlers and worker jobs, by row locks |
| Batched AI pipeline (`internal/aibatch`, `internal/receiptbatch`) | `receipt_pipeline_state` (stage, lease), `ai_batch_jobs`, `ai_batch_items` | Submit, Collect, ResetStuck; Gather/Apply of extract, vendor, classify | provider's batch API; runs as scheduler tasks; writes drafts |
| Ops scheduler (`internal/ops`) | `scheduled_tasks` (lease, due time) | seed, ClaimDue, execute, Complete | its replicas, by the lease |
| Import rows (`internal/http/imports.go`, `internal/db/import_rows.go`) | `import_rows`, transactions made for them | replace, map, post one, post all mapped | the suggest stage replaces, reviewers post |
| Receipt worker stages (`cmd/worker`: runOCR, runSuggest, runDraft, runPipeline; uploads, reruns, requeues) | `receipts.status`, artefacts of each stage, jobs of one document | upload, rerun, requeue; OCR, suggest, draft, pipeline, hand-over to the batches | queue, pipeline, vendor memory |
| Pipeline logic (`internal/pipeline`) | none | validate extract, vendor, classify; gates; BuildEntry, AssertBalanced | called by worker and batch kinds |
| Vendor memory (`internal/vendormemo`, `internal/db/vendor*.go`, `internal/http/vendors.go`) | `vendors`, `vendor_aliases`, `receipts.resolved_vendor_id`, the `_vendors` documents | memoize, record a resolution, learn an account, create, update, delete, reindex | pipeline, reviewer's posts, Typesense |
| Statements, mileage, tax pack (`internal/http/{account_statements,mileage,tax_pack,entity_tax_settings}.go`) | `account_statements`, `mileage`, tax settings, tags | create, update, reconcile; the readiness report, query by query | import rows, receipts, suggestions |
| Reports and fiscal years (`internal/reporting`) | none | trial balance, profit and loss, balance sheet, vendor payments | the journal |
| Accounts, tenants, setup (`internal/http/{server,authz,setup}.go`, `internal/db/tenants.go`) | users, memberships, entities and their staff, `refresh_tokens` | setup, register, login, refresh, switch, logout, members, entities, admin reset | every request, by its middleware |
| Second factor (`internal/http/mfa.go`) | `user_mfa`, `used_totp_steps` | enrol, confirm, log in, recovery codes, disable, reset | login |
| Search index (`internal/search`) | a document per row | write, forget, reindex | every handler that writes a row |
| Import parser, settings, preferences, OCR, suggestion and storage clients, backup, tools, telemetry, frontend | configuration, or none | pure parsing, external calls | |

What makes each modelled component correct:

* **Queue**: a delivery runs once and is settled by who holds it; a job can only be
  stranded by a loss (crash, shutdown, lost reply); every other job settles.
* **Journal**: a receipt backs at most one transaction; transactions balance;
  `attached_at`, status and journal agree; concurrent saves do not mix drafts;
  the client is told the truth; locks never block for ever.
* **Batches**: a receipt is in one batch at a time and its lease has a holder; a
  stage or a finished draft is undone only by a result applied twice; receipts settle.
* **Scheduler**: a task has one holder while leases last; a lease outlives its holder
  only by a failure; due tasks run.
* **Import rows**: a posted row names a transaction made for it and agrees with it; a
  client is told of one posting per row; a stray transaction comes from a failure.
* **Worker stages**: no document is left in silence: once its jobs are through it is
  ready or wants attention, unless an enqueue or a best-effort write was lost.
* **Decisions**: an entry marked ready balances, comes to the receipt's total and names
  no account or vendor that was not offered; the drafts of imports, fiscal years and
  statements add up, with the exceptions found.
* **Vendor memory**: a person's choice of an account outlives the AI's proposals; the
  documents the AI is offered agree with the tables but for named causes.
* **Access**: a refresh token is exchanged once; a session is of a tenant its user is
  in; what setup and administration build in several statements holds together.
* **Second factor**: a code is good for one login; a factor that is on was confirmed.
* **Tax pack**: what was outstanding all the time a report was made is in it, but for
  what it is known to leave out.
* **Search**: after the handlers have ended, documents agree with rows but for named
  causes, and an undisturbed reindex mends the document of every row it walked, but for
  a mileage row's context.

`PROJECT.json` lists every component with its status and every hazard with its line. A
hazard that a property only bounds, because the case is one of the causes the property
names, is listed without a property and with a note that says so.

## Modules

| Module | Models | Extends / uses |
|---|---|---|
| `JobQueue` | queue, worker loop, requeue | |
| `JobQueueProofs` | its theorems | `JobQueue` |
| `Journal` | abstract specification of the books | |
| `Ledger` | receipts, drafts and journal at statement level | instance of `Journal` |
| `LedgerProofs` | its theorems, the refinement among them | `Ledger` |
| `AIBatch` | batched pipeline | |
| `AIBatchProofs` | its theorems | `AIBatch` |
| `OpsScheduler` | the scheduler | |
| `OpsSchedulerProofs` | its theorems | `OpsScheduler` |
| `ImportPosting` | import rows and their posting | |
| `ImportPostingProofs` | its theorems | `ImportPosting` |
| `ReceiptStages` | the worker's stages of one document and the requests that start them | |
| `Decisions` | pipeline logic, import drafts, fiscal years, statements of a period, as operators | |
| `VendorMemory` | vendors, aliases, their documents | |
| `Access` | users, tenants, entities, staff, setup, sessions | |
| `Mfa` | the second factor | |
| `TaxPack` | account statements, mileage, tax settings, the readiness report | |
| `SearchIndex` | documents beside their rows, and the reindexer | |
| `DocumentsProofs` | the theorems about receipts, and about search documents and their rows | `ReceiptStages`, `VendorMemory`, `SearchIndex` |
| `AccessProofs` | the theorems of access and the second factor | `Access`, `Mfa` |
| `BackOffice` | the seven parts above, one per behaviour | all seven |
| `BackOfficeProofs` | the theorems of the tax pack and the decisions; the composition | `BackOffice`, `AccessProofs`, `DocumentsProofs` |
| `MC*` | the constants of the runs | the module of that name |

Conventions. A SQL statement, or a short Postgres transaction nobody can see inside
of, is one action; a handler that runs several statements is several actions with a
program counter (`pc`) and its locals. Actions carry the name of the function they
model. Errors, crashes, lost replies and cut-off runs are actions counted by
`faults` against `MaxFaults`. A *history* variable (marked so where it is declared)
is read by properties only. Definitions introduced by "A slip" are plausible wrong
versions of the definition after them; no specification uses them, they show that
the properties can fail.

### Correspondence

* `JobQueue`: `status`, `attempts`, `lock` are the columns (`lock` abstracts
  `locked_until` to null, future, past). `hand` is the rest of the claimed batch,
  `cur` the job in `processJob`, `result` what it returned. `Claim` is the
  `UPDATE ... FOR UPDATE SKIP LOCKED`; `ClaimReplyLost` the same with a reply that
  never comes; `SettleLost` an Ack or Fail that changes nothing, which after a
  shutdown signal is every one, since its context derives from the cancelled one.
  `Vanish` is a batch left behind at shutdown.
* `Ledger`: a *batch* is what one call writes, tagged with its author and the sign of
  its debits less its credits; so lines of two authors in one draft can be told, and
  unbalanced drafts exist (`runDraft` does not check). `rowLock` is
  `SELECT ... FOR UPDATE` on the receipt, `draftLock` the updated header row.
  `DeleteStarts`/`DeleteEnds` split a DELETE into its snapshot and its wait.
* `AIBatch`: `stage` and `leased` are `receipt_pipeline_state`, a slot is a row of
  `ai_batch_jobs` with its items and the provider's batch; a run is one execution of
  a scheduler task. The job a receipt was submitted with is closed by `MarkJob`;
  slots of closed jobs nobody reads any more are used again.
* `OpsScheduler`: `ClaimReplyLost` is a `ClaimDue` that commits and whose reply is lost, so
  that nobody runs what it leased. `age` and `due` hold `running_since` and `next_run_at` as distances
  from now; `todo`, `cur`, `spent` are a pass. `Tick` advances time and cannot pass a
  running task's timeout.
* `ImportPosting`: `id` tells a row from the one that has replaced it, `posting` is
  the transaction created and not yet marked, `todo` the rows a bulk request has read.
  `ReplaceForReceipt` takes what its DELETE has `seen`: a row that a second parse committed
  after the DELETE began is not deleted (`Stands`), the insert conflicts with it and
  rewrites it under the id it has (`Rewritten`). `touched` are the rows mapped or rewritten
  in place while somebody was about to post them, or after they were posted.
* `ReceiptStages`: `paper` is the document with its status and artefacts, `queued` its
  jobs, `desk` what a request has left to do, `run[w].todo` the writes a worker's stage
  has left. A stage that fails goes through `OnFailure`, which writes what the code
  writes before it returns the error (`pipelinePark`, `recordOCRError`, or nothing).
  `missed` names what was lost; `memoized` counts `Memoize`.
* `Decisions`: `Run` is `Pipeline.Run` with its early returns, one question per behaviour;
  money is in cents with the code's tolerance of two.
* `VendorMemory`: a *visit* is one caller's remaining statements (`IndexRetrieval` is
  read, list, upsert); `late` notes that a vendor was written after it was read;
  `excused` collects documents with a named cause to be behind; `human` is the account a
  person chose last. An account that comes with a `POST /vendors` of a name there is already
  counts as a choice only if the row takes it: the upsert keeps an account that is set, so
  the person's is dropped without an error.
* `Access`: `request[p].todo` is the handler's remaining statements. `half` records users
  whose statements failed half way, `bare` entities whose Cash insert was lost or whose
  Cash account an administrator renamed or deleted; `seeds` are the accounts a request has
  still to insert, one statement each, after its entity is committed. The admin command,
  `registerUser` and `CreateWithOwner` are one transaction and one action. Members are
  updated and deleted by the row's id, whichever entity it is of, as the code does; tenant
  1 is the one a migration inserts. A login goes on when the check of the setup fails.
* `Mfa`: `ReadAndValidate` reads row and clock, `MarkUsed`, `SpendRecoveryCode` and
  `Enable` are the later writes; `heldOver` and `overlap` note that the clock or the row
  moved on in between.
* `TaxPack`: `report.at` is the query the report is at; `lasting` what was outstanding at
  every moment since it began; `Outstanding` is the definition it is compared with, what the
  document says is found and not what the code looks at. `ListLimit` is the 10000 papers the
  list is cut at (the limits of 1000 statements and accounts are left out); papers beyond it,
  and what failed queries were to show, are in `report.lost`. `LeftOut` names what a report
  leaves out, `report.more` that a query failed.
* `SearchIndex`: one row per kind; a page is a handler between commit, read-back and the
  document's write; `crawl` is the reindexer. A document shows its row by the number of the
  write. `KeepContext` is the mileage handler's own write of the context, whose error it
  ignores, and the document it writes has the request's text. `strayed` collects documents
  with a named cause: a failed read or call, a write overtaken by another, a renamed
  account, a receipt's status set by the worker, by a rerun or by posting, seeded accounts,
  rows that went with their account or entity, a context left out or lost. Whether the
  database refuses to delete an entity while journal lines name its accounts
  (`entries.account_id` has no cascade) is left open: both outcomes are behaviours.
* `BackOffice`: the parts share rows (accounts, receipts) only in ways their properties
  do not depend on, so `part` picks one and the others rest. What one reads of another is
  a choice inside it: `ReceiptStages` lets the batches settle, `VendorMemory` accounts be
  deleted.

## Runs

| Run | Bounds | Shows |
|---|---|---|
| `queue` | 2 workers, 2 jobs, 2 attempts, batches of 2, 1 requeue, 1 fault | all queue properties, settling included |
| `queue_crash` (violation) | 1 worker, 1 job | `docs/queue.md:27` "If a worker crashes, job becomes visible after timeout": it does not, `Claim` never selects `processing` |
| `ledger` | 2 requests at a time, 3 in all, 1 receipt, balanced or not | all journal properties and the refinement of `Journal` |
| `ledger_immutable` (violation) | same | `README.md:29` "immutable once attached": `UpdateStatus` overwrites `posted` |
| `aibatch` | 2 overlapping replicas that both submit and collect, 1 receipt, 2 slots, 2 faults | holders, stages, drafts |
| `aibatch_settles` | 3 runs of one duty each, 2 faults, fair | every receipt settles or is stranded |
| `aibatch_advance` (violation) | 2 receipts, 1 fault | the migration's "advances extract -> vendor -> classify -> done": a result applied twice goes back |
| `scheduler` | 2 replicas (one an older release), 2 tasks, lease 2, timeouts 2 and 1, intervals 1 and 2, 3 faults | one holder, leases, due tasks run |
| `scheduler_twice` (violation) | same, no fault needed | "safe across concurrent schedulers": a task behind a long one runs on an expired lease |
| `imports` | 2 requests, 2 rows, 2 accounts, amounts 0 and 7, 2 parses, 2 transactions, 1 fault | rows, transactions and answers agree |
| `imports_once` (violation) | same, no faults | two requests make two transactions for one row |
| `office` | access: 2 users, 2 requests at once, 4 in all, 3 tenants (the migration's one of them), 2 entities, 3 sessions, 1 fault. mfa: 2 requests, 3 codes, 5 steps, 2 enrolments. vendors: 2 names, 2 accounts, 2 ids, 3 visits, 1 fault. stages: 2 workers, 4 jobs, 2 tries, 2 requests, 1 fault, each mode and kind. tax: 1 import, 2 receipts, a list cut at 2 papers, 2 edits, 1 fault. search: 2 handlers, 2 writes, 1 reindex, 1 fault. decisions: receipts, imports of 2 rows, 6 years and 2 postings, with amounts that agree, nearly agree and do not | `SessionsAreSound` ... `AnswersAreSound`: one or two properties of each part |

Why the bounds are enough: every property relates at most two actors that meet on
one row, so two of each meet in all orders; the counts leave room for a second
attempt (retry after failure, requeue of an exhausted job, a second batch after a
reset, a second parse after a post) because the interesting failures need one thing to
happen twice; two faults let a failure be followed by the failure of its repair. The ledger
takes three requests so that a third one finds what two have left. Rows of a second
receipt or job share nothing with the first except the batch they are claimed in, which
the queue run and `aibatch_advance` have. In `office` two faults would mostly lose the
same document twice; two requests, a fault and a third request that meets the remains
are what its properties need. The theorems remove the bounds for the safety of the queue, the journal,
the batches, the scheduler and imports, and in `office`. `CHECK_DEADLOCK FALSE` appears where the bounds let the
model run out of things to do.

### Fairness

* Queue: a worker that is up goes on (`WorkerStep`), a stopped one is restarted by its
  deployment, locks run out. Faults, requeues and enqueues are never required.
* Ledger: each statement of a begun request ends or fails (context deadlines, Postgres
  timeouts); requests need not arrive.
* AIBatch: in the liveness run the scheduler starts each task again and again, a run
  that started goes on, and the provider ends its batches within their window or lets
  them age past the cutoff of the stuck-reset.
* Scheduler: time goes on; a replica is restarted, polls, and its runs return at the
  latest at their timeout, which the code passes to their context.

## Proofs

For every value of the constants, from the named `ASSUME`s alone, by an inductive
invariant each:

* `JobQueueProofs`: `IInv` adds to the checked properties that absent rows are blank,
  a worker between jobs holds none, `attempts` counts the deliveries that ran
  (`AttemptsCounted`), the delivery being run is in `ran` (`CurHasRun`) and a
  processing row is held, lost or disturbed (`ProcessingIsHeld`). "Two workers hold one
  job only after a requeue" is not inductive without knowing that a held delivery is
  the row's current attempt. Proved: `TypeOK`, `DeliveryRunsOnce`, `HeldIsCurrent`,
  `NoDoubleProcessing`, `StrandedOnlyByLoss`, `WaitingIsUnlocked`, `DoneIsFinal`.
* `LedgerProofs`: `Books` adds to the journal properties which label an operation can
  be at (`Shape`), that what is about to be posted was validated (`PostingValid`), and
  that a request about to read its transaction back has one (`Answers`): the commit's
  own test of `attached_at` then carries "one transaction per receipt" without any
  fact about locks. The refinement `Spec => JournalSpec` follows. `Drafts` builds on
  it: at most one request is between its DELETE and its commit, because it holds the
  draft's header, unless the receipt is in `overlapped`; so a draft has one author.
* `OpsSchedulerProofs`: `LateIsKnown` (what a pass has kept past its lease is in `late`)
  is what makes "one holder" inductive, since only then a claim cannot find the row
  of a task another pass still has.
* `ImportPostingProofs`: what a request carries between statements has to be tied to
  the table. `Listed` and `AsRead` say that a row it has read and that still has the
  same `id` says what it said then, unless it was mapped or rewritten in place meanwhile; `Marking` that the
  transaction it is about to mark is in the journal, made from that row; `Numbered`
  that no other has its number. Marking a row then keeps rows and journal in
  agreement whichever requests, mappings and parses came in between. `PostedRowsStay`
  follows because every action leaves posted rows where they are (`Kept`).

* `AIBatchProofs`: `IInv` adds to the checked properties what a run holds at each label
  (`RunsOK`), that answers are about a job's own receipts (`JobsOK`), and `OneKeeper`: a
  receipt whose job was not applied twice is kept by one submitting run or by one job,
  open *or closed*, until it is given back. "One open job" is not inductive: a closed job
  whose results a second replica is still applying can give a lease away. `BuiltIsDone`
  keeps a finished draft out of later batches. `FallsBackOnlyOnRepeat` is proved as an
  action property from the same invariant (`StagesFallBackOnRepeat`).
* `DocumentsProofs`, receipts: a document that is not judged is somebody's debt. `Carried`
  names who owes it: a request that has still to enqueue, a claimable job, or a worker
  that has not come to its last write; `RowsCarried` says the same of an import's rows.
  Every step pays the debt or hands it on, or is one of the named losses. Two facts made
  it inductive. What a worker has left to write is one of a few plans that fit what the
  document already has (`PlansFit`). And an Ack is a loss too: the job is settled by
  its id, so after a requeue one worker's Ack ends the delivery that another is about to
  fail and hand back. "No retry counts a document for its vendor again" is an
  inequality: what has been counted, the jobs and workers that may still count and the
  request that asks for a job come to no more than the requests made (`Owed <= asked`).
* `DocumentsProofs`, vendors: `FreshIds` (an id not yet given out has neither row nor choice)
  and rows of the right shape suffice for a person's choice of account. For the documents,
  every vendor's is as the tables have it, excused by a named cause, or *due*: some visit
  will still read it and write it. A visit that has read a row and not yet its aliases,
  or holds both and has not yet upserted them, holds the present ones unless it is `late`
  (`DocStands`, `VisitsSound`).
* `DocumentsProofs`, other tables: a document that no named cause has made stray agrees or is
  pending at a request (`DocFollows`), inductively with what is held in between: a request's copy
  (`CopyAgrees`), the reindexer's list and its names of accounts (`ListAgrees`,
  `NamesAgree`). `AloneIsFresh` says that while nothing is written the reindexer's copies
  are the rows, so that what it has walked past agrees (`Mended`), strayed or not.
* `AccessProofs`, sessions: `Exchanged` says that the token a request is about to issue
  a session for is revoked and that no session, and no other request, came from it: the
  conditional update `RevokeIfActive` is what makes it inductive. `Numbered` (the number of
  sessions bounds their ids) makes the new session's id fresh; `Locals` that a plan
  which ends in a session belongs to a member, and memberships are never taken away.
* `AccessProofs`, members and setup: a request is fit if what its plan has built so far
  stands (`RequestsFit`): the tenant it founded exists, its user exists, is in the tenant,
  has a default. Each of these other requests leave standing (`Kept`), so a plan that ends
  has built everything, and one that stops is in `half` or `bare`. `StaffBelongs` covers
  the one order in which the code writes the other way round, staff before membership: the
  membership is there, was lost, or is a request's next statement (`Enrols`).
* `AccessProofs`, second factor: `StepsAreRecorded` (an accepted step is recorded or
  older than any code still valid, which is why `MarkUsed` may prune) and `RowsAreCurrent`
  (a request holds the row as it is, until two overlap). It assumes that a recovery code
  is no clock step.
* `BackOfficeProofs`, tax pack: `Promised` says that what has been outstanding ever since
  the report began is in it or lies ahead of a query still to come (`Ahead`). Duplicates are
  what makes this hard: two rows of one fingerprint are found only after both imports have
  been read, each at a moment of its own, so the invariant keeps that each of the pair is
  in an import still to be read or among the rows read, under the same sheet, index and
  fingerprint (`Known`, `Pair`), although it may have been mapped or posted since. `Exact`
  is the converse while nobody writes. A paper that is beyond the list's limit, or whose
  query failed, is `lost`, and so is the twin of a row that only it would have shown
  (`TwinLost`).
* `BackOfficeProofs`, decisions: the questions come from four sets given as constants
  (`Extracts`, `RowLists`, `Years`, `Books`), so `AnswersStand` is about all amounts, rows,
  years and postings. Its sums are those of the library, a recursive function over the
  subsets of a set. That the function exists, what it comes to and that the order of the
  elements does not matter is proved by induction on a *set* of numbers (`CountedInduction`,
  from the library's theorem that a well-founded set has a least element), which needs no
  operator as a parameter. An import's draft balances because its rows, parted by account,
  come to all rows (`SumParts`); a trial balance because each posting cancels itself
  (`NetsCancel`); fiscal years because two first days of one month differ by what
  February lacks. Vendors and accounts are few there, as the code tells apart only
  whether they were offered.
* `PartsBySide`: a behaviour of `BackOffice` is one of each part, so these theorems hold of
  what the `office` run checks.
* `TypesHold`, its types, rests on the types of each part, and those on the invariants above.
  A code is accepted no more often than it was submitted, because each request that still
  presents it was counted (`SubmittedOnce`); a session's tenant is one, since a plan that
  writes one has founded or found it (`RequestsTyped`, from `TeamInv`); what a visit to a
  vendor writes is a name or a string if its plan still needs one (`VisitTyped`, by plan,
  from `DocInv`); no version of a row passes the writes so far (`SearchTypes`, by what has been
  counted in `spentS`). The bounds
  must leave room for one thing of a kind: a tenant (`MaxTenants >= 1`, for the
  administrator's reset), the first clock steps (`MaxStep >= 2`), any number of row edits.

Every invariant and action property that a passing run checks is proved. Checked only by
TLC: liveness (`EveryJobSettles`, `EveryRequestEnds`, `EveryReceiptSettles`,
`DueTasksRun`), which is out of the prover's reach.

## What the models say that the documents do not

Besides the five violations: `docs/queue.md` says jobs become `dead` (no code writes
that), that retries back off (they do not), and that `locked_until` avoids double
processing (`WaitingIsUnlocked`: no waiting row ever has a lock; the status does the
work); a requeued job that has used up its attempts is shown as queued and never
claimed, as `Requeue` leaves `attempts` (`EveryJobSettles` takes such a row for settled). `SetEntriesByReceipt` does not lock the
draft's header, so two rewriters can leave both sets of lines. A failure of the read
after a commit is reported as a failure of the post. A batch receipt lost between
claim and `CreateJob` stays `in_flight`, since `ResetStuck` looks at jobs only. A rerun
of an import rewrites the date and amount of posted rows.

Two more documents and a comment disagree with the code. The models do what the code does
and name the case in the property, so that the property says what holds beside it:

* `docs/multi-tenancy.md:82` says that cross-tenant mutations are rejected. Members of an
  entity are updated and deleted by the id of the row alone (`server.go:1084,1108`,
  `db/memberships.go:56-62,89-93`), so an administrator of one entity reaches those of
  another. `MembershipsHold` holds beside it: who serves an entity is of its tenant.
* `docs/tax-prep.md:61` says that readiness finds parse errors; those of an import of which
  rows are stored are passed over (`tax_pack.go:640`). `docs/tax-prep.md:81` says it reports
  months with mileage and no rate; only the checklists do. Both are in `LeftOut`.
* The comment of `VendorMatchResult` (`vendor.go:35-36`) says that exactly one of vendor and
  proposal is given. Both are accepted (`vendor.go:152-164`), and the worker then takes the
  proposal (`main.go:664-675`), complete or not, though the entry books the account of the
  vendor that was matched. `ReadyIsSound` names the case, `GivesBoth`.

An import's draft writes an account with rows of both directions twice, so it does not
balance and cannot be posted. A fiscal year from the last of February leaves out a day
or counts one twice around leap years. Payments to a vendor count accounts of the type
`expense` and not those spelled `expenses`, which every other statement normalizes. A
readiness report takes a failed query of statements, of an import's suggestion or of the
tax profile for an empty answer and may read ready. The reindexer removes no document, a
renamed account or a worker's status change reaches no document, and a deleted account
leaves its statements' behind. An alias confirmed for another vendor stays in the old
one's document. A seeded account has no document until the reindexer comes by, and deleting an
entity leaves the documents of all its rows. A receipt the batches have finished with is handed nothing on a rerun. A
one-time code can be accepted twice if a request is held up between the test and the
insert for more than a step, as the row that would refuse it is pruned; two logins at a
time can spend one recovery code twice.

## Not modelled, and why

Text and CSV parsing, OCR, prompts and what a model answers (their outcomes are
choices); the building of search queries; the CSV files of the tax pack; the route table,
passwords, hashes, rate limits; settings, preferences, templates; storage, telemetry,
migrations, backup (as a task it is one of the scheduler's), frontend, charts. They
are pure functions of text, configuration, or calls to services, with no state of their
own that steps of two actors could disturb. Isolation is READ COMMITTED as the code
opens it. Postgres' deadlock detector is not modelled: the receipt row and the
draft's header are never held together, and two DELETEs of the same entries that
met in opposite orders would end as a failed statement, which every action may.

## Plan

Modelled and checked: every component above marked modelled or partly in `PROJECT.json`.
Proved: the safety of all of them. What is left, in order of
worth:

1. An abstract lease that `AIBatch` and `OpsScheduler` both implement.
2. The queue under `ReceiptStages` in place of its own short one, so that a crash between
   two writes of a stage is a behaviour of one module.
3. The import parser's row numbering, on which `ImportPosting` relies by index.
