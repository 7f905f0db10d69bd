------------------------------- MODULE Ledger -------------------------------
(***************************************************************************)
(* Receipts, their drafts and the journal, under concurrent API requests   *)
(* and worker jobs.  The statements of internal/db/transactions.go,        *)
(* drafts.go and receipts.go are the steps; a Postgres transaction (READ   *)
(* COMMITTED) shows the others nothing before it commits, and holds the    *)
(* row locks it takes until it ends.                                       *)
(*                                                                         *)
(* Amounts are abstracted: the lines one call writes are one batch, marked *)
(* with who wrote it and whether its debits exceed its credits.            *)
(***************************************************************************)
EXTENDS Integers, FiniteSets

CONSTANTS
    Procs,        \* request handlers and worker jobs that run side by side
    Receipts,
    NoReceipt,    \* a transaction posted without a receipt
    Nobody,       \* a row lock nobody holds
    Nets,         \* the sign of a batch's debits less its credits
    SetStatuses,  \* what runOCR, reruns and parks set a status to
    MaxRequests   \* bound of the model: requests and jobs ever begun

ASSUME LedgerConstants ==
    /\ MaxRequests \in Nat
    /\ Nets \subseteq {-1, 0, 1} /\ 0 \in Nets
    /\ NoReceipt \notin Receipts
    /\ Nobody \notin Procs

Requests == 1 .. MaxRequests
Batches  == [by : Requests, net : Nets]

Statuses == {"uploaded", "queued", "processing", "ready_for_review",
             "needs_attention", "posted"}

ASSUME SetStatusesNeverPost == SetStatuses \subseteq Statuses \ {"posted"}

Ops == {"post", "create", "edit", "generate", "pipeline", "status"}

VARIABLES
    status,      \* receipts.status
    attached,    \* receipts.attached_at IS NOT NULL
    drafted,     \* the receipt has a row in draft_transactions
    entries,     \* its committed draft_entries
    journal,     \* committed transactions with their entries
    rowLock,     \* who holds the receipts row FOR UPDATE
    draftLock,   \* who holds the draft_transactions row it has updated
    pc, op, rec, req, new, buf, own, target, reply,  \* a request's locals
    begun,       \* requests begun so far (bound)
    overlapped   \* history: drafts SetEntriesByReceipt rewrote while another
                 \* transaction was rewriting them

tables  == <<status, attached, drafted, entries, journal>>
locks   == <<rowLock, draftLock>>
locals  == <<op, rec, req, new, own>>
vars    == <<tables, locks, locals, pc, buf, target, reply, begun, overlapped>>

Transactions ==
    [by : Requests, receipt : Receipts \cup {NoReceipt}, lines : SUBSET Batches]

Init ==
    /\ status = [r \in Receipts |-> "uploaded"]
    /\ attached = [r \in Receipts |-> FALSE]
    /\ drafted = [r \in Receipts |-> FALSE]
    /\ entries = [r \in Receipts |-> {}]
    /\ journal = {}
    /\ rowLock = [r \in Receipts |-> Nobody]
    /\ draftLock = [r \in Receipts |-> Nobody]
    /\ pc = [p \in Procs |-> "idle"]
    /\ op = [p \in Procs |-> "status"]
    /\ rec = [p \in Procs |-> NoReceipt]
    /\ req = [p \in Procs |-> 0]
    /\ new = [p \in Procs |-> {}]
    /\ buf = [p \in Procs |-> {}]
    /\ own = [p \in Procs |-> TRUE]
    /\ target = [p \in Procs |-> "queued"]
    /\ reply = [p \in Procs |-> "none"]
    /\ begun = 0
    /\ overlapped = {}

-----------------------------------------------------------------------------
(* validateBalanced: debits equal credits and there is something to post.  *)
validateBalanced(lines) ==
    /\ lines # {}
    /\ Cardinality({b \in lines : b.net > 0}) = Cardinality({b \in lines : b.net < 0})

Goto(p, l)  == pc' = [pc EXCEPT ![p] = l]
Reply(p, a) == reply' = [reply EXCEPT ![p] = a]

(* The handler answers, or the job returns.                                *)
Finish(p, a) == Goto(p, "idle") /\ Reply(p, a)

(* A request or a job begins: operation o on receipt r, with the lines it  *)
(* brings or builds, and the status it will set, at label first.           *)
Begin(p, o, r, lines, mine, st, first) ==
    /\ pc[p] = "idle"
    /\ begun < MaxRequests
    /\ begun' = begun + 1
    /\ op' = [op EXCEPT ![p] = o]
    /\ rec' = [rec EXCEPT ![p] = r]
    /\ req' = [req EXCEPT ![p] = begun + 1]
    /\ new' = [new EXCEPT ![p] = lines]
    /\ buf' = [buf EXCEPT ![p] = {}]
    /\ own' = [own EXCEPT ![p] = mine]
    /\ target' = [target EXCEPT ![p] = st]
    /\ Goto(p, first)
    /\ Reply(p, "none")
    /\ UNCHANGED <<tables, locks, overlapped>>

Brought(n) == {[by |-> begun + 1, net |-> n]}

(* POST /receipts/:id/draft/post (handleDraftPost).                        *)
handleDraftPost(p, r) == Begin(p, "post", r, {}, TRUE, "posted", "read")

(* POST /transactions (handleTransactionCreate, Create up to BeginTxx):    *)
(* lines that do not balance are refused before anything happens.  "mine"  *)
(* says whether the receipt belongs to the entity the client named.        *)
handleTransactionCreate(p, r, n, mine) ==
    /\ validateBalanced(Brought(n))
    /\ Begin(p, "create", r, Brought(n), mine, "posted",
             IF r = NoReceipt THEN "insert" ELSE "lock")

(* PUT /receipts/:id/draft (handleDraftUpdate, UpdateDraft's validation).  *)
handleDraftUpdate(p, r, n) ==
    /\ validateBalanced(Brought(n))
    /\ Begin(p, "edit", r, Brought(n), TRUE, "posted", "read")

(* A slip: a status no screen knows.                                       *)
runDraftMisspelt(p, r, lines) ==
    Begin(p, "generate", r, lines, TRUE, "ready", "ensure")

(* The draft job of a worker: the lines are those of the latest suggestion *)
(* and are not checked to balance; without a suggestion there are none.    *)
runDraft(p, r, lines) ==
    Begin(p, "generate", r, lines, TRUE, "ready_for_review", "ensure")

(* The end of runPipeline and of the batch pipeline's finalize: BuildEntry *)
(* has let no other lines through than balanced ones.                      *)
runPipeline(p, r) ==
    Begin(p, "pipeline", r, Brought(0), TRUE, "ready_for_review", "ensure")

(* UpdateStatus on its own: runOCR, rerunStage, the parks.                 *)
setStatus(p, r, st) == Begin(p, "status", r, {}, TRUE, st, "status")

-----------------------------------------------------------------------------
(* Drafts.                                                                 *)

(* EnsureForReceipt: the read, then the INSERT, whose foreign key waits    *)
(* for a lock on the receipt; a draft another request inserted in between  *)
(* violates the unique index and is an error.                              *)
EnsureForReceiptReads(p) ==
    /\ pc[p] = "ensure"
    /\ Goto(p, IF drafted[rec[p]] THEN "check" ELSE "insertDraft")
    /\ UNCHANGED <<tables, locks, locals, buf, target, reply, begun, overlapped>>

EnsureForReceiptInserts(p) ==
    /\ pc[p] = "insertDraft"
    /\ rowLock[rec[p]] = Nobody
    /\ IF drafted[rec[p]]
       THEN Finish(p, "error") /\ UNCHANGED drafted
       ELSE /\ drafted' = [drafted EXCEPT ![rec[p]] = TRUE]
            /\ Goto(p, "check")
            /\ UNCHANGED reply
    /\ UNCHANGED <<status, attached, entries, journal, locks, locals, buf,
                   target, begun, overlapped>>

(* runDraft leaves a draft that has entries alone; runPipeline rewrites it.*)
CheckDraft(p) ==
    /\ pc[p] = "check"
    /\ Goto(p, IF op[p] = "pipeline" THEN "header"
               ELSE IF entries[rec[p]] = {} /\ new[p] # {} THEN "delete"
               ELSE "status")
    /\ UNCHANGED <<tables, locks, locals, buf, target, reply, begun, overlapped>>

(* A slip: CreateFromDraft does not validate what it was given.            *)
PostReadsUnvalidated(p) ==
    /\ pc[p] = "read" /\ op[p] = "post"
    /\ IF drafted[rec[p]]
       THEN /\ buf' = [buf EXCEPT ![p] = entries[rec[p]]]
            /\ Goto(p, "lock")
            /\ UNCHANGED reply
       ELSE Finish(p, "error") /\ UNCHANGED buf
    /\ UNCHANGED <<tables, locks, locals, target, begun, overlapped>>

(* GetByReceiptID for a post: the lines are read here, outside of any      *)
(* transaction, and validated by CreateFromDraft.                          *)
PostReadsDraft(p) ==
    /\ pc[p] = "read" /\ op[p] = "post"
    /\ IF drafted[rec[p]] /\ validateBalanced(entries[rec[p]])
       THEN /\ buf' = [buf EXCEPT ![p] = entries[rec[p]]]
            /\ Goto(p, "lock")
            /\ UNCHANGED reply
       ELSE Finish(p, "error") /\ UNCHANGED buf
    /\ UNCHANGED <<tables, locks, locals, target, begun, overlapped>>

EditReadsDraft(p) ==
    /\ pc[p] = "read" /\ op[p] = "edit"
    /\ IF drafted[rec[p]]
       THEN Goto(p, "header") /\ UNCHANGED reply
       ELSE Finish(p, "error")
    /\ UNCHANGED <<tables, locks, locals, buf, target, begun, overlapped>>

(* A slip: UpdateDraft without the UPDATE of the header row.               *)
HeaderNotLocked(p) ==
    /\ pc[p] = "header"
    /\ Goto(p, "delete")
    /\ UNCHANGED <<tables, locks, locals, buf, target, reply, begun, overlapped>>

(* UpdateDraft: the UPDATE of draft_transactions waits for a transaction   *)
(* that has updated the same row.                                          *)
UpdateDraftHeader(p) ==
    /\ pc[p] = "header"
    /\ draftLock[rec[p]] = Nobody
    /\ draftLock' = [draftLock EXCEPT ![rec[p]] = p]
    /\ Goto(p, "delete")
    /\ UNCHANGED <<tables, rowLock, locals, buf, target, reply, begun, overlapped>>

Rewriting(q, r) == pc[q] \in {"deleting", "write"} /\ rec[q] = r

(* DELETE FROM draft_entries sees what is committed when it starts...      *)
DeleteStarts(p) ==
    /\ pc[p] = "delete"
    /\ buf' = [buf EXCEPT ![p] = entries[rec[p]]]
    /\ Goto(p, "deleting")
    /\ overlapped' =
          IF \E q \in Procs \ {p} :
                Rewriting(q, rec[p]) /\ "generate" \in {op[p], op[q]}
          THEN overlapped \cup {rec[p]} ELSE overlapped
    /\ UNCHANGED <<tables, locks, locals, target, reply, begun>>

(* ...and waits for a transaction that has deleted one of those rows.      *)
DeleteEnds(p) ==
    /\ pc[p] = "deleting"
    /\ \A q \in Procs \ {p} :
          pc[q] = "write" /\ rec[q] = rec[p] => buf[q] \cap buf[p] = {}
    /\ Goto(p, "write")
    /\ UNCHANGED <<tables, locks, locals, buf, target, reply, begun, overlapped>>

Unlock(p) ==
    /\ rowLock' = [r \in Receipts |-> IF rowLock[r] = p THEN Nobody ELSE rowLock[r]]
    /\ draftLock' = [r \in Receipts |-> IF draftLock[r] = p THEN Nobody ELSE draftLock[r]]

(* The INSERTs and the commit of SetEntriesByReceipt and UpdateDraft.      *)
CommitDraft(p) ==
    /\ pc[p] = "write"
    /\ entries' = [entries EXCEPT ![rec[p]] = (@ \ buf[p]) \cup new[p]]
    /\ Unlock(p)
    /\ IF op[p] = "edit"
       THEN \E a \in {"saved", "error"} : Finish(p, a)   \* the read after it may fail
       ELSE Goto(p, "status") /\ UNCHANGED reply
    /\ UNCHANGED <<status, attached, drafted, journal, locals, buf, target,
                   begun, overlapped>>

(* UpdateStatus waits for the row lock of a post, then writes whatever the *)
(* receipt has become meanwhile.                                           *)
UpdateStatus(p) ==
    /\ pc[p] = "status"
    /\ rowLock[rec[p]] = Nobody
    /\ status' = [status EXCEPT ![rec[p]] = target[p]]
    /\ Finish(p, "saved")
    /\ UNCHANGED <<attached, drafted, entries, journal, locks, locals, buf,
                   target, begun, overlapped>>

-----------------------------------------------------------------------------
(* Posting.                                                                *)

(* A slip: any refusal is reported as a receipt that is already attached.  *)
LockAlwaysConflicts(p) ==
    /\ pc[p] = "lock"
    /\ rowLock[rec[p]] = Nobody
    /\ IF own[p] /\ ~ attached[rec[p]]
       THEN /\ rowLock' = [rowLock EXCEPT ![rec[p]] = p]
            /\ Goto(p, "insert")
            /\ UNCHANGED reply
       ELSE /\ Finish(p, "conflict")
            /\ UNCHANGED rowLock
    /\ UNCHANGED <<tables, draftLock, locals, buf, target, begun, overlapped>>

(* A slip: the early return keeps the transaction, and its lock, open.     *)
LockWithoutRollback(p) ==
    /\ pc[p] = "lock"
    /\ rowLock[rec[p]] = Nobody
    /\ rowLock' = [rowLock EXCEPT ![rec[p]] = p]
    /\ IF own[p] /\ ~ attached[rec[p]]
       THEN Goto(p, "insert") /\ UNCHANGED reply
       ELSE Finish(p, IF own[p] THEN "conflict" ELSE "error")
    /\ UNCHANGED <<tables, draftLock, locals, buf, target, begun, overlapped>>

(* SELECT ... FOR UPDATE waits for the lock; a mismatch or an attached     *)
(* receipt returns, and the deferred Rollback gives the lock back.         *)
lockReceiptForAttach(p) ==
    /\ pc[p] = "lock"
    /\ rowLock[rec[p]] = Nobody
    /\ IF own[p] /\ ~ attached[rec[p]]
       THEN /\ rowLock' = [rowLock EXCEPT ![rec[p]] = p]
            /\ Goto(p, "insert")
            /\ UNCHANGED reply
       ELSE /\ Finish(p, IF own[p] THEN "conflict" ELSE "error")
            /\ UNCHANGED rowLock
    /\ UNCHANGED <<tables, draftLock, locals, buf, target, begun, overlapped>>

(* A slip: the receipt is marked posted but attached_at is not set.        *)
MarkPostedOnly(r) ==
    status' = [status EXCEPT ![r] = "posted"] /\ UNCHANGED attached

attachReceipt(r) ==
    /\ status' = [status EXCEPT ![r] = "posted"]
    /\ attached' = [attached EXCEPT ![r] = TRUE]

Posting(p) ==
    [by |-> req[p], receipt |-> rec[p],
     lines |-> IF op[p] = "post" THEN buf[p] ELSE new[p]]

(* Insert the transaction and its entries, attach the receipt, commit; a   *)
(* receipt that was attached meanwhile rolls everything back.              *)
CommitTransaction(p) ==
    /\ pc[p] = "insert"
    /\ IF rec[p] # NoReceipt /\ attached[rec[p]]
       THEN Finish(p, "conflict") /\ UNCHANGED <<status, attached, journal>>
       ELSE /\ journal' = journal \cup {Posting(p)}
            /\ IF rec[p] = NoReceipt
               THEN UNCHANGED <<status, attached>>
               ELSE attachReceipt(rec[p])
            /\ Goto(p, "reread")
            /\ UNCHANGED reply
    /\ Unlock(p)
    /\ UNCHANGED <<drafted, entries, locals, buf, target, begun, overlapped>>

(* GetByID after the commit: when it fails, so does the request, although  *)
(* the transaction stands.                                                 *)
RereadTransaction(p) ==
    /\ pc[p] = "reread"
    /\ \E a \in {"created", "error"} : Finish(p, a)
    /\ UNCHANGED <<tables, locks, locals, buf, target, begun, overlapped>>

(* A statement fails, the context ends or the process dies: what was not   *)
(* committed is rolled back.  A worker whose rewrite of the draft failed   *)
(* parks the receipt, if it is still alive.                                *)
Abort(p) ==
    /\ pc[p] # "idle"
    /\ Unlock(p)
    /\ \/ Finish(p, "error") /\ UNCHANGED target
       \/ /\ op[p] \in {"generate", "pipeline"}
          /\ pc[p] \in {"header", "delete", "deleting", "write"}
          /\ Goto(p, "status")
          /\ target' = [target EXCEPT ![p] = "needs_attention"]
          /\ UNCHANGED reply
    /\ UNCHANGED <<tables, locals, buf, begun, overlapped>>

-----------------------------------------------------------------------------
Step(p) ==
    \/ EnsureForReceiptReads(p)
    \/ EnsureForReceiptInserts(p)
    \/ CheckDraft(p)
    \/ PostReadsDraft(p)
    \/ EditReadsDraft(p)
    \/ UpdateDraftHeader(p)
    \/ DeleteStarts(p)
    \/ DeleteEnds(p)
    \/ CommitDraft(p)
    \/ UpdateStatus(p)
    \/ lockReceiptForAttach(p)
    \/ CommitTransaction(p)
    \/ RereadTransaction(p)

Arrive(p) ==
    \E r \in Receipts :
        \/ handleDraftPost(p, r)
        \/ runPipeline(p, r)
        \/ runDraft(p, r, {})
        \/ \E st \in SetStatuses : setStatus(p, r, st)
        \/ \E n \in Nets :
              \/ handleDraftUpdate(p, r, n)
              \/ runDraft(p, r, Brought(n))
              \/ \E mine \in BOOLEAN : handleTransactionCreate(p, r, n, mine)

Next ==
    \E p \in Procs :
        \/ Arrive(p)
        \/ \E n \in Nets : handleTransactionCreate(p, NoReceipt, n, TRUE)
        \/ Step(p)
        \/ Abort(p)

Spec == Init /\ [][Next]_vars

(* A request that has begun goes on: its statements run or fail.           *)
FairSpec == Spec /\ \A p \in Procs : WF_vars(Step(p))

-----------------------------------------------------------------------------
(* Properties.                                                             *)

(* Every variable keeps its type.                                          *)
TypeOK ==
    /\ status \in [Receipts -> Statuses]
    /\ attached \in [Receipts -> BOOLEAN]
    /\ drafted \in [Receipts -> BOOLEAN]
    /\ entries \in [Receipts -> SUBSET Batches]
    /\ journal \subseteq Transactions
    /\ rowLock \in [Receipts -> Procs \cup {Nobody}]
    /\ draftLock \in [Receipts -> Procs \cup {Nobody}]
    /\ pc \in [Procs -> {"idle", "ensure", "insertDraft", "check", "read",
                         "header", "delete", "deleting", "write", "status",
                         "lock", "insert", "reread"}]
    /\ op \in [Procs -> Ops]
    /\ rec \in [Procs -> Receipts \cup {NoReceipt}]
    /\ req \in [Procs -> 0 .. MaxRequests]
    /\ new \in [Procs -> SUBSET Batches]
    /\ buf \in [Procs -> SUBSET Batches]
    /\ own \in [Procs -> BOOLEAN]
    /\ target \in [Procs -> Statuses]
    /\ reply \in [Procs -> {"none", "saved", "created", "conflict", "error"}]
    /\ begun \in 0 .. MaxRequests
    /\ overlapped \subseteq Receipts

(* A receipt backs at most one transaction, however many requests post it  *)
(* at once, with its draft or directly, and whichever of them fail.        *)
OneTransactionPerReceipt ==
    \A t, u \in journal : t.receipt = u.receipt /\ t.receipt # NoReceipt => t = u

(* attached_at and the journal agree: a receipt is attached exactly when a *)
(* transaction names it, and none is shown as posted that is not attached. *)
AttachedIffPosted ==
    \A r \in Receipts :
        /\ attached[r] <=> \E t \in journal : t.receipt = r
        /\ status[r] = "posted" => attached[r]

(* Every posted transaction balances (README.md:28), although drafts need  *)
(* not and change between the read and the post.                           *)
PostedBalances == \A t \in journal : validateBalanced(t.lines)

(* Concurrent saves of a draft never mix their lines: a draft, and what is *)
(* posted from it, is the work of one writer, except where                 *)
(* SetEntriesByReceipt, which does not lock the draft, ran into another    *)
(* writer.                                                                 *)
DraftsDoNotMix ==
    \A r \in Receipts \ overlapped :
        /\ Cardinality(entries[r]) <= 1
        /\ \A t \in journal : t.receipt = r => Cardinality(t.lines) <= 1

(* A client is told the truth: "created" only for a transaction that is in *)
(* the journal, "conflict" only for a receipt that is attached.            *)
RepliesAreTrue ==
    \A p \in Procs :
        /\ reply[p] = "created" => \E t \in journal : t.by = req[p]
        /\ reply[p] = "conflict" => attached[rec[p]]

(* Row locks never leave a request waiting forever.                        *)
EveryRequestEnds == \A p \in Procs : pc[p] # "idle" ~> pc[p] = "idle"

(* The ledger implements the abstract journal.                             *)
J == INSTANCE Journal WITH Balanced <- validateBalanced
JournalSpec == J!Spec

-----------------------------------------------------------------------------
(* README.md:29 "Receipts are immutable once attached to a transaction":   *)
(* an attached receipt keeps its status.  UpdateStatus does not look at    *)
(* attached_at.                                                            *)
AttachedIsImmutable ==
    [][\A r \in Receipts : attached[r] => status'[r] = status[r]]_vars
=============================================================================
