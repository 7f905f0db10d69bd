---------------------------- MODULE LedgerProofs ----------------------------
(***************************************************************************)
(* Theorems about Ledger, for any requests, receipts and bounds.           *)
(*                                                                         *)
(* Two layers.  Books says what a request that is about to post carries    *)
(* (lines that were validated, a receipt that is not NoReceipt where one   *)
(* is locked) and what the journal and the receipts then agree on.  Drafts *)
(* adds the discipline of the draft's header row: at most one request is   *)
(* between its DELETE and its commit, unless SetEntriesByReceipt, which    *)
(* skips the header, ran into another; so the entries a request deletes    *)
(* are all there are when it commits.                                      *)
(***************************************************************************)
EXTENDS Ledger, FiniteSetTheorems, TLAPS

Writing   == {"delete", "deleting", "write"}
Drafting  == {"ensure", "insertDraft", "check", "read", "header", "status", "lock"}

(* A request that works on a draft or a lock has a receipt, and the label  *)
(* it is at is one its operation gets to.                                  *)
Shape ==
    \A p \in Procs :
        /\ pc[p] \in Drafting \cup Writing => rec[p] \in Receipts
        /\ pc[p] \in {"ensure", "insertDraft", "check"} => op[p] \in {"generate", "pipeline"}
        /\ pc[p] = "status" => op[p] \in {"generate", "pipeline", "status"}
        /\ pc[p] = "header" => op[p] \in {"pipeline", "edit"}
        /\ pc[p] \in Writing => op[p] \in {"generate", "pipeline", "edit"}
        /\ op[p] \in {"generate", "pipeline", "status"} => target[p] # "posted"
        /\ pc[p] # "idle" => req[p] \in Requests

(* What is about to be posted was validated.                               *)
PostingValid ==
    \A p \in Procs :
        pc[p] \in {"lock", "insert"} => validateBalanced(Posting(p).lines)

(* Replies still to come and replies given.                                *)
Answers ==
    /\ \A p \in Procs : pc[p] = "reread" => \E t \in journal : t.by = req[p]
    /\ \A p \in Procs : reply[p] = "conflict" => rec[p] \in Receipts
    /\ RepliesAreTrue

Books ==
    /\ TypeOK
    /\ Shape
    /\ PostingValid
    /\ Answers
    /\ OneTransactionPerReceipt
    /\ AttachedIffPosted
    /\ PostedBalances

-----------------------------------------------------------------------------
LEMMA InitBooks == Init => Books
  BY LedgerConstants, SetStatusesNeverPost
  DEF Init, Books, TypeOK, Shape, PostingValid, Answers, RepliesAreTrue,
      OneTransactionPerReceipt, AttachedIffPosted, PostedBalances, Statuses,
      Drafting, Writing, Ops, Transactions

LEMMA BroughtType ==
    ASSUME TypeOK, begun < MaxRequests, NEW n \in Nets
    PROVE  Brought(n) \in SUBSET Batches
  BY LedgerConstants DEF TypeOK, Brought, Batches, Requests

(* A request begins: it carries valid lines if it is to post at once.      *)
LEMMA BeginKeepsBooks ==
    ASSUME Books, NEW p \in Procs, NEW o \in Ops, NEW r \in Receipts \cup {NoReceipt},
           NEW lines \in SUBSET Batches, NEW mine \in BOOLEAN,
           NEW st \in Statuses,
           NEW first \in {"ensure", "read", "lock", "insert", "status"},
           Begin(p, o, r, lines, mine, st, first),
           r = NoReceipt => first = "insert",
           first = "ensure" => o \in {"generate", "pipeline"},
           first = "status" => o \in {"generate", "pipeline", "status"},
           o \in {"generate", "pipeline", "status"} => st # "posted",
           first \in {"lock", "insert"} => o = "create" /\ validateBalanced(lines)
    PROVE  Books'
  <1> USE DEF Begin, Goto, Reply, tables, locks
  <1>1. TypeOK'
    BY LedgerConstants DEF Books, TypeOK, Requests
  <1>2. Shape'
    BY LedgerConstants DEF Books, TypeOK, Shape, Drafting, Writing, Requests
  <1>3. PostingValid'
    BY DEF Books, TypeOK, PostingValid, Posting
  <1>4. Answers'
    BY DEF Books, TypeOK, Answers, RepliesAreTrue
  <1>5. OneTransactionPerReceipt' /\ AttachedIffPosted' /\ PostedBalances'
    BY DEF Books, OneTransactionPerReceipt, AttachedIffPosted, PostedBalances
  <1>6. QED
    BY <1>1, <1>2, <1>3, <1>4, <1>5 DEF Books

LEMMA ArriveKeepsBooks ==
    ASSUME Books, NEW p \in Procs,
           Arrive(p) \/ \E n \in Nets : handleTransactionCreate(p, NoReceipt, n, TRUE)
    PROVE  Books'
  <1> USE DEF Ops, Statuses
  <1>1. TypeOK /\ {} \in SUBSET Batches
    BY DEF Books
  <1>2. ASSUME NEW r \in Receipts, handleDraftPost(p, r) PROVE Books'
    BY <1>1, <1>2, BeginKeepsBooks, LedgerConstants DEF handleDraftPost
  <1>3. ASSUME NEW r \in Receipts, NEW st \in SetStatuses, setStatus(p, r, st)
        PROVE  Books'
    <2>1. st \in Statuses /\ st # "posted"
      BY SetStatusesNeverPost
    <2>2. QED
      BY <1>1, <1>3, <2>1, BeginKeepsBooks, LedgerConstants DEF setStatus
  <1>4. ASSUME NEW r \in Receipts, runPipeline(p, r) PROVE Books'
    <2>1. Brought(0) \in SUBSET Batches
      BY <1>1, <1>4, BroughtType, LedgerConstants DEF runPipeline, Begin
    <2>2. QED
      BY <1>4, <2>1, BeginKeepsBooks, LedgerConstants DEF runPipeline
  <1>5. ASSUME NEW r \in Receipts, NEW lines \in SUBSET Batches, runDraft(p, r, lines)
        PROVE  Books'
    BY <1>5, BeginKeepsBooks, LedgerConstants DEF runDraft
  <1>6. ASSUME NEW r \in Receipts, NEW n \in Nets, handleDraftUpdate(p, r, n)
        PROVE  Books'
    <2>1. Brought(n) \in SUBSET Batches
      BY <1>1, <1>6, BroughtType DEF handleDraftUpdate, Begin
    <2>2. QED
      BY <1>6, <2>1, BeginKeepsBooks, LedgerConstants DEF handleDraftUpdate
  <1>7. ASSUME NEW r \in Receipts \cup {NoReceipt}, NEW n \in Nets, NEW mine \in BOOLEAN,
               handleTransactionCreate(p, r, n, mine)
        PROVE  Books'
    <2>1. Brought(n) \in SUBSET Batches
      BY <1>1, <1>7, BroughtType DEF handleTransactionCreate, Begin
    <2>2. QED
      BY <1>7, <2>1, BeginKeepsBooks, LedgerConstants DEF handleTransactionCreate
  <1>8. ASSUME NEW n \in Nets, NEW r \in Receipts, runDraft(p, r, Brought(n))
        PROVE  Books'
    <2>1. Brought(n) \in SUBSET Batches
      BY <1>1, <1>8, BroughtType DEF runDraft, Begin
    <2>2. QED
      BY <1>5, <1>8, <2>1
  <1>9. QED
    BY <1>1, <1>2, <1>3, <1>4, <1>5, <1>6, <1>7, <1>8 DEF Arrive

(* Steps that write neither the journal nor a receipt: what is left to show *)
(* is where the request goes and what it answers.                          *)
LEMMA QuietKeepsBooks ==
    ASSUME Books, TypeOK', Shape', PostingValid',
           UNCHANGED <<status, attached, journal, rec, req>>,
           NEW p \in Procs,
           reply' = reply \/ \E a \in {"saved", "error"} : Reply(p, a),
           \A q \in Procs : pc'[q] = "reread" => pc[q] = "reread"
    PROVE  Books'
  <1>1. Answers'
    BY DEF Books, TypeOK, Answers, RepliesAreTrue, Reply
  <1>2. OneTransactionPerReceipt' /\ AttachedIffPosted' /\ PostedBalances'
    BY DEF Books, OneTransactionPerReceipt, AttachedIffPosted, PostedBalances
  <1>3. QED
    BY <1>1, <1>2 DEF Books

(* The steps on a draft and on a status of its own.                        *)
LEMMA DraftStepKeepsBooks ==
    ASSUME Books, NEW p \in Procs,
           \/ EnsureForReceiptReads(p) \/ EnsureForReceiptInserts(p)
           \/ CheckDraft(p) \/ PostReadsDraft(p) \/ EditReadsDraft(p)
           \/ UpdateDraftHeader(p) \/ DeleteStarts(p) \/ DeleteEnds(p)
           \/ CommitDraft(p) \/ lockReceiptForAttach(p)
    PROVE  Books'
  <1> USE DEF Goto, tables, locks, locals
  <1>1. TypeOK /\ Shape /\ PostingValid
    BY DEF Books
  <1>2. CASE EnsureForReceiptReads(p) \/ EnsureForReceiptInserts(p) \/ CheckDraft(p)
    <2>1. TypeOK'
      <3>1. CASE EnsureForReceiptReads(p) \/ CheckDraft(p)
        BY <1>1, <3>1 DEF TypeOK, EnsureForReceiptReads, CheckDraft
      <3>2. CASE EnsureForReceiptInserts(p)
        BY <1>1, <3>2 DEF TypeOK, EnsureForReceiptInserts, Finish, Reply
      <3>3. QED
        BY <1>2, <3>1, <3>2
    <2>2. Shape'
      <3>1. CASE EnsureForReceiptReads(p) \/ CheckDraft(p)
        BY <1>1, <3>1 DEF TypeOK, Shape, EnsureForReceiptReads, CheckDraft,
                          Drafting, Writing
      <3>2. CASE EnsureForReceiptInserts(p)
        BY <1>1, <3>2 DEF TypeOK, Shape, EnsureForReceiptInserts, Finish,
                          Drafting, Writing
      <3>3. QED
        BY <1>2, <3>1, <3>2
    <2>4. PostingValid'
      BY <1>1, <1>2 DEF TypeOK, PostingValid, Posting, EnsureForReceiptReads,
                        EnsureForReceiptInserts, CheckDraft, Finish
    <2>3. QED
      BY <1>1, <1>2, <2>1, <2>2, <2>4, QuietKeepsBooks
      DEF EnsureForReceiptReads, EnsureForReceiptInserts, CheckDraft, Finish, TypeOK
  <1>3. CASE PostReadsDraft(p) \/ EditReadsDraft(p)
    <2>1. TypeOK'
      BY <1>1, <1>3 DEF TypeOK, Shape, Drafting, PostReadsDraft, EditReadsDraft,
                        Finish, Reply
    <2>2. Shape' /\ PostingValid'
      BY <1>1, <1>3 DEF TypeOK, Shape, PostingValid, Posting, PostReadsDraft,
                        EditReadsDraft, Finish, Drafting, Writing
    <2>3. QED
      BY <1>1, <1>3, <2>1, <2>2, QuietKeepsBooks
      DEF PostReadsDraft, EditReadsDraft, Finish, TypeOK
  <1>4. CASE UpdateDraftHeader(p) \/ DeleteStarts(p) \/ DeleteEnds(p)
    <2>1. TypeOK'
      BY <1>1, <1>4 DEF TypeOK, Shape, Drafting, Writing, UpdateDraftHeader,
                        DeleteStarts, DeleteEnds
    <2>2. Shape' /\ PostingValid'
      BY <1>1, <1>4 DEF TypeOK, Shape, PostingValid, Posting, UpdateDraftHeader,
                        DeleteStarts, DeleteEnds, Drafting, Writing
    <2>3. QED
      BY <1>1, <1>4, <2>1, <2>2, QuietKeepsBooks
      DEF UpdateDraftHeader, DeleteStarts, DeleteEnds, TypeOK
  <1>5. CASE CommitDraft(p)
    <2>1. TypeOK'
      BY <1>1, <1>5, LedgerConstants
      DEF TypeOK, Shape, Drafting, Writing, CommitDraft, Unlock, Finish, Reply
    <2>2. Shape' /\ PostingValid'
      BY <1>1, <1>5 DEF TypeOK, Shape, PostingValid, Posting, CommitDraft, Finish,
                        Drafting, Writing
    <2>3. QED
      BY <1>1, <1>5, <2>1, <2>2, QuietKeepsBooks DEF CommitDraft, Finish, TypeOK
  <1>6. CASE lockReceiptForAttach(p)
    <2>1. TypeOK'
      BY <1>1, <1>6 DEF TypeOK, Shape, Drafting, lockReceiptForAttach, Finish, Reply
    <2>2. Shape' /\ PostingValid'
      BY <1>1, <1>6 DEF TypeOK, Shape, PostingValid, Posting, lockReceiptForAttach,
                        Finish, Drafting, Writing
    <2>3. Answers'
      BY <1>1, <1>6 DEF Books, TypeOK, Shape, Drafting, Answers, RepliesAreTrue,
                        lockReceiptForAttach, Finish, Reply
    <2>4. OneTransactionPerReceipt' /\ AttachedIffPosted' /\ PostedBalances'
      BY <1>6 DEF Books, OneTransactionPerReceipt, AttachedIffPosted,
                  PostedBalances, lockReceiptForAttach
    <2>5. QED
      BY <2>1, <2>2, <2>3, <2>4 DEF Books
  <1>7. QED
    BY <1>2, <1>3, <1>4, <1>5, <1>6

LEMMA StatusKeepsBooks ==
    ASSUME Books, NEW p \in Procs, UpdateStatus(p)
    PROVE  Books'
  <1> USE DEF UpdateStatus, Finish, Goto, locks, locals
  <1>1. TypeOK /\ Shape /\ target[p] # "posted" /\ rec[p] \in Receipts
    BY DEF Books, Shape, Drafting
  <1>2. TypeOK' /\ Shape' /\ PostingValid'
    BY <1>1 DEF Books, TypeOK, Shape, PostingValid, Posting, Reply, Drafting, Writing
  <1>3. Answers'
    BY <1>1 DEF Books, TypeOK, Answers, RepliesAreTrue, Reply
  <1>4. AttachedIffPosted'
    BY <1>1 DEF Books, TypeOK, AttachedIffPosted
  <1>5. OneTransactionPerReceipt' /\ PostedBalances'
    BY DEF Books, OneTransactionPerReceipt, PostedBalances
  <1>6. QED
    BY <1>2, <1>3, <1>4, <1>5 DEF Books

(* The one step that posts: the receipt has no transaction yet.            *)
LEMMA CommitKeepsBooks ==
    ASSUME Books, NEW p \in Procs, CommitTransaction(p)
    PROVE  Books'
  <1> USE DEF CommitTransaction, Finish, Goto, locals
  <1>1. TypeOK /\ Shape /\ PostingValid
    BY DEF Books
  <1>2. CASE rec[p] # NoReceipt /\ attached[rec[p]]
    <2>1. TypeOK'
      BY <1>1, <1>2 DEF TypeOK, Unlock, Reply
    <2>2. Shape' /\ PostingValid'
      BY <1>1, <1>2 DEF TypeOK, Shape, PostingValid, Posting, Drafting, Writing
    <2>3. Answers'
      BY <1>1, <1>2 DEF Books, TypeOK, Answers, RepliesAreTrue, Reply
    <2>4. OneTransactionPerReceipt' /\ AttachedIffPosted' /\ PostedBalances'
      BY <1>2 DEF Books, OneTransactionPerReceipt, AttachedIffPosted, PostedBalances
    <2>5. QED
      BY <2>1, <2>2, <2>3, <2>4 DEF Books
  <1>3. CASE ~ (rec[p] # NoReceipt /\ attached[rec[p]])
    <2>1. /\ Posting(p) \in Transactions
          /\ Posting(p).receipt = rec[p] /\ Posting(p).by = req[p]
          /\ validateBalanced(Posting(p).lines)
      <3>1. req[p] \in Requests /\ buf[p] \in SUBSET Batches /\ new[p] \in SUBSET Batches
        BY <1>1, <1>3 DEF TypeOK, Shape
      <3>2. QED
        BY <1>1, <1>3, <3>1 DEF TypeOK, PostingValid, Posting, Transactions
    <2>2. TypeOK'
      <3>1. /\ status' \in [Receipts -> Statuses]
            /\ attached' \in [Receipts -> BOOLEAN]
        BY <1>1, <1>3 DEF TypeOK, Statuses, attachReceipt
      <3>2. /\ rowLock' \in [Receipts -> Procs \cup {Nobody}]
            /\ draftLock' \in [Receipts -> Procs \cup {Nobody}]
        BY <1>1 DEF TypeOK, Unlock
      <3>3. QED
        BY <1>1, <1>3, <2>1, <3>1, <3>2 DEF TypeOK
    <2>3. Shape' /\ PostingValid'
      BY <1>1, <1>3 DEF TypeOK, Shape, PostingValid, Posting, Drafting, Writing
    <2>4. Answers'
      <3>1. journal \subseteq journal' /\ Posting(p) \in journal' /\ reply' = reply
        BY <1>3
      <3>2. \A r \in Receipts : attached[r] => attached'[r]
        BY <1>1, <1>3 DEF TypeOK, attachReceipt
      <3>3. \A q \in Procs : pc'[q] = "reread" => \E t \in journal' : t.by = req[q]
        BY <1>1, <1>3, <2>1, <3>1 DEF Books, TypeOK, Answers
      <3>4. \A q \in Procs : reply[q] = "conflict" => attached'[rec[q]]
        BY <1>1, <3>2 DEF Books, TypeOK, Answers, RepliesAreTrue
      <3>5. QED
        BY <1>1, <1>3, <3>1, <3>2, <3>3, <3>4
        DEF Books, TypeOK, Answers, RepliesAreTrue, attachReceipt
    <2>5. OneTransactionPerReceipt'
      BY <1>1, <1>3, <2>1
      DEF Books, TypeOK, OneTransactionPerReceipt, AttachedIffPosted
    <2>6. AttachedIffPosted'
      BY <1>1, <1>3, <2>1, LedgerConstants
      DEF Books, TypeOK, AttachedIffPosted, attachReceipt
    <2>7. PostedBalances'
      BY <1>3, <2>1 DEF Books, PostedBalances
    <2>8. QED
      BY <2>2, <2>3, <2>4, <2>5, <2>6, <2>7 DEF Books
  <1>4. QED
    BY <1>2, <1>3

LEMMA EndKeepsBooks ==
    ASSUME Books, NEW p \in Procs, RereadTransaction(p) \/ Abort(p)
    PROVE  Books'
  <1> USE DEF Finish, Goto, tables, locals
  <1>1. TypeOK /\ Shape /\ PostingValid
    BY DEF Books
  <1>2. TypeOK'
    BY <1>1 DEF RereadTransaction, Abort, TypeOK, Statuses, Unlock, Reply, locks
  <1>3. Shape' /\ PostingValid'
    BY <1>1 DEF RereadTransaction, Abort, TypeOK, Shape, PostingValid, Posting,
                Drafting, Writing
  <1>4. Answers'
    BY <1>1 DEF Books, RereadTransaction, Abort, TypeOK, Answers, RepliesAreTrue, Reply
  <1>5. OneTransactionPerReceipt' /\ AttachedIffPosted' /\ PostedBalances'
    BY DEF RereadTransaction, Abort, Books, OneTransactionPerReceipt,
           AttachedIffPosted, PostedBalances
  <1>6. QED
    BY <1>2, <1>3, <1>4, <1>5 DEF Books

LEMMA NextKeepsBooks == Books /\ [Next]_vars => Books'
  <1> SUFFICES ASSUME Books, [Next]_vars PROVE Books'
    OBVIOUS
  <1>1. CASE UNCHANGED vars
    BY <1>1 DEF vars, tables, locks, locals, Books, TypeOK, Shape, PostingValid,
                Posting, Answers, RepliesAreTrue, OneTransactionPerReceipt,
                AttachedIffPosted, PostedBalances
  <1>2. ASSUME NEW p \in Procs, Step(p) PROVE Books'
    BY <1>2, DraftStepKeepsBooks, StatusKeepsBooks, CommitKeepsBooks, EndKeepsBooks
    DEF Step
  <1>3. QED
    BY <1>1, <1>2, ArriveKeepsBooks, EndKeepsBooks DEF Next

LEMMA BooksInvariant == Spec => []Books
  BY InitBooks, NextKeepsBooks, PTL DEF Spec

(* Every variable keeps its type.                                          *)
THEOREM LedgerTypes == Spec => []TypeOK
  BY BooksInvariant, PTL DEF Books

(* A receipt backs at most one transaction: CreateFromDraft and Create     *)
(* check attached_at in the transaction that sets it.                      *)
THEOREM ReceiptsBackOneTransaction == Spec => []OneTransactionPerReceipt
  BY BooksInvariant, PTL DEF Books

(* attached_at, the status 'posted' and the journal agree at all times.    *)
THEOREM AttachedMeansPosted == Spec => []AttachedIffPosted
  BY BooksInvariant, PTL DEF Books

(* validateBalanced guards every way into the journal.                     *)
THEOREM PostedTransactionsBalance == Spec => []PostedBalances
  BY BooksInvariant, PTL DEF Books

(* 201 Created and 409 Conflict are only answered when they are true.      *)
THEOREM AnswersAreTrue == Spec => []RepliesAreTrue
  BY BooksInvariant, PTL DEF Books, Answers

(* The ledger implements the abstract journal: it only grows, by balanced  *)
(* transactions, at most one for each receipt.                             *)
THEOREM LedgerImplementsJournal == Spec => JournalSpec
  <1>1. Init => J!Init
    BY DEF Init, J!Init
  <1>2. Books /\ [Next]_vars => [J!Next]_journal
    <2> SUFFICES ASSUME Books, Next PROVE J!Next \/ UNCHANGED journal
      BY DEF vars, tables
    <2>1. ASSUME NEW p \in Procs, CommitTransaction(p)
          PROVE  J!Next \/ UNCHANGED journal
      <3>1. CASE rec[p] # NoReceipt /\ attached[rec[p]]
        BY <2>1, <3>1 DEF CommitTransaction
      <3>2. CASE ~ (rec[p] # NoReceipt /\ attached[rec[p]])
        <4>1. journal' = journal \cup {Posting(p)} /\ Posting(p).receipt = rec[p]
          BY <2>1, <3>2 DEF CommitTransaction, Posting
        <4>2. validateBalanced(Posting(p).lines)
          BY <2>1 DEF Books, PostingValid, CommitTransaction
        <4>3. rec[p] = NoReceipt \/ ~ \E t \in journal : t.receipt = rec[p]
          BY <3>2 DEF Books, TypeOK, AttachedIffPosted
        <4>4. J!Post(Posting(p))
          BY <4>1, <4>2, <4>3 DEF J!Post, J!Backed
        <4>5. QED
          BY <4>1, <4>4 DEF J!Next
      <3>3. QED
        BY <3>1, <3>2
    <2>2. ASSUME NEW p \in Procs,
                 \/ EnsureForReceiptReads(p) \/ EnsureForReceiptInserts(p)
                 \/ CheckDraft(p) \/ PostReadsDraft(p) \/ EditReadsDraft(p)
                 \/ UpdateDraftHeader(p) \/ DeleteStarts(p) \/ DeleteEnds(p)
                 \/ CommitDraft(p) \/ UpdateStatus(p) \/ lockReceiptForAttach(p)
                 \/ RereadTransaction(p) \/ Abort(p)
          PROVE  UNCHANGED journal
      BY <2>2 DEF tables, EnsureForReceiptReads, EnsureForReceiptInserts, CheckDraft,
          PostReadsDraft, EditReadsDraft, UpdateDraftHeader, DeleteStarts, DeleteEnds,
          CommitDraft, UpdateStatus, lockReceiptForAttach, RereadTransaction, Abort
    <2>3. ASSUME NEW p \in Procs,
                 \/ Arrive(p)
                 \/ \E n \in Nets : handleTransactionCreate(p, NoReceipt, n, TRUE)
          PROVE  UNCHANGED journal
      BY <2>3 DEF tables, Arrive, handleTransactionCreate, handleDraftPost,
          handleDraftUpdate, runDraft, runPipeline, setStatus, Begin
    <2>4. QED
      BY <2>1, <2>2, <2>3 DEF Next, Step
  <1>3. QED
    BY <1>1, <1>2, BooksInvariant, PTL DEF Spec, JournalSpec, J!Spec

-----------------------------------------------------------------------------
(* Drafts.                                                                 *)

(* No lines, or the lines of one writer.                                   *)
OneBatch(lines) == lines = {} \/ \E b \in Batches : lines = {b}

(* UpdateDraft holds the header from its UPDATE to its commit.             *)
HeaderHeld ==
    \A p \in Procs :
        pc[p] \in Writing /\ op[p] # "generate" => draftLock[rec[p]] = p

(* At most one request is between its DELETE and its commit.               *)
OneWriter ==
    \A r \in Receipts \ overlapped : \A p, q \in Procs :
        Rewriting(p, r) /\ Rewriting(q, r) => p = q

(* So what it deletes is all there is.                                     *)
DeletesAll ==
    \A p \in Procs :
        pc[p] \in {"deleting", "write"} /\ rec[p] \notin overlapped =>
            buf[p] = entries[rec[p]]

(* Every place lines come from holds those of one writer.                  *)
OneBatchEach ==
    /\ \A p \in Procs : OneBatch(new[p])
    /\ \A p \in Procs :
          op[p] = "post" /\ pc[p] \in {"lock", "insert"} /\ rec[p] \notin overlapped =>
              OneBatch(buf[p])
    /\ \A r \in Receipts \ overlapped :
          /\ OneBatch(entries[r])
          /\ \A t \in journal : t.receipt = r => OneBatch(t.lines)

Drafts ==
    /\ TypeOK
    /\ Shape
    /\ HeaderHeld
    /\ OneWriter
    /\ DeletesAll
    /\ OneBatchEach

LEMMA OneBatchIsSmall ==
    ASSUME NEW lines, OneBatch(lines) PROVE Cardinality(lines) <= 1
  <1>1. CASE lines = {}
    BY <1>1, FS_EmptySet
  <1>2. CASE \E b \in Batches : lines = {b}
    <2>1. PICK b \in Batches : lines = {b}
      BY <1>2
    <2>2. Cardinality({b}) = 1
      BY FS_Singleton
    <2>3. QED
      BY <2>1, <2>2
  <1>3. QED
    BY <1>1, <1>2 DEF OneBatch

LEMMA InitDrafts == Init => Drafts
  BY InitBooks
  DEF Init, Books, Drafts, HeaderHeld, OneWriter, DeletesAll, OneBatchEach, OneBatch,
      Rewriting, Writing

(* What a request brings is one batch.                                     *)
LEMMA BeginKeepsDrafts ==
    ASSUME Drafts, TypeOK', Shape',
           NEW p \in Procs, NEW o, NEW r, NEW lines, NEW mine, NEW st, NEW first,
           Begin(p, o, r, lines, mine, st, first), OneBatch(lines),
           first \in {"ensure", "read", "lock", "insert", "status"},
           o = "post" => first = "read"
    PROVE  Drafts'
  <1> USE DEF Begin, Goto, tables, locks
  <1>1. TypeOK
    BY DEF Drafts
  <1>2. \A q \in Procs \ {p} :
            /\ pc'[q] = pc[q] /\ op'[q] = op[q] /\ rec'[q] = rec[q]
            /\ new'[q] = new[q] /\ buf'[q] = buf[q]
    BY <1>1 DEF TypeOK
  <1>3. /\ pc'[p] = first /\ op'[p] = o /\ new'[p] = lines
    BY <1>1 DEF TypeOK
  <1>4. HeaderHeld'
    BY <1>2, <1>3 DEF Drafts, HeaderHeld, Writing
  <1>5. OneWriter'
    BY <1>2, <1>3 DEF Drafts, OneWriter, Rewriting
  <1>6. DeletesAll'
    BY <1>2, <1>3 DEF Drafts, DeletesAll
  <1>7. OneBatchEach'
    BY <1>2, <1>3 DEF Drafts, OneBatchEach
  <1>8. QED
    BY <1>4, <1>5, <1>6, <1>7 DEF Drafts

LEMMA ArriveKeepsDrafts ==
    ASSUME Drafts, TypeOK', Shape', NEW p \in Procs,
           Arrive(p) \/ \E n \in Nets : handleTransactionCreate(p, NoReceipt, n, TRUE)
    PROVE  Drafts'
  <1>1. OneBatch({}) /\ TypeOK
    BY DEF OneBatch, Drafts
  <1>2. \A n \in Nets : begun < MaxRequests => OneBatch(Brought(n))
    <2> SUFFICES ASSUME NEW n \in Nets, begun < MaxRequests PROVE OneBatch(Brought(n))
      OBVIOUS
    <2>1. [by |-> begun + 1, net |-> n] \in Batches
      BY <1>1, LedgerConstants DEF TypeOK, Batches, Requests
    <2>2. QED
      BY <2>1 DEF OneBatch, Brought
  <1>3. 0 \in Nets
    BY LedgerConstants
  <1>4. ASSUME NEW o, NEW r, NEW lines, NEW mine, NEW st,
               NEW first \in {"ensure", "read", "lock", "insert", "status"},
               Begin(p, o, r, lines, mine, st, first),
               o = "post" => first = "read",
               lines = {} \/ \E n \in Nets : lines = Brought(n)
        PROVE  Drafts'
    <2>1. OneBatch(lines)
      BY <1>1, <1>2, <1>4 DEF Begin
    <2>2. QED
      BY <1>4, <2>1, BeginKeepsDrafts
  <1>5. ASSUME NEW r \in Receipts,
               \/ handleDraftPost(p, r) \/ runPipeline(p, r) \/ runDraft(p, r, {})
               \/ \E st \in SetStatuses : setStatus(p, r, st)
        PROVE  Drafts'
    BY <1>3, <1>4, <1>5 DEF handleDraftPost, runPipeline, runDraft, setStatus
  <1>6. ASSUME NEW r, NEW n \in Nets, NEW mine,
               \/ handleDraftUpdate(p, r, n) \/ runDraft(p, r, Brought(n))
               \/ handleTransactionCreate(p, r, n, mine)
        PROVE  Drafts'
    BY <1>4, <1>6 DEF handleDraftUpdate, runDraft, handleTransactionCreate
  <1>7. QED
    BY <1>5, <1>6 DEF Arrive

(* Steps of a request that is not rewriting a draft afterwards.            *)
LEMMA QuietKeepsDrafts ==
    ASSUME Drafts, TypeOK', Shape', NEW p \in Procs, pc'[p] \notin {"deleting", "write"},
           UNCHANGED <<entries, journal, op, rec, new, overlapped>>,
           \A q \in Procs \ {p} :
               /\ pc'[q] = pc[q] /\ buf'[q] = buf[q]
               /\ draftLock[rec[q]] = q => draftLock'[rec[q]] = q,
           pc'[p] = "delete" /\ op[p] # "generate" => draftLock'[rec[p]] = p,
           op[p] = "post" /\ pc'[p] \in {"lock", "insert"} /\ rec[p] \notin overlapped =>
               OneBatch(buf'[p])
    PROVE  Drafts'
  <1>1. HeaderHeld'
    BY DEF Drafts, HeaderHeld, Writing
  <1>2. OneWriter'
    BY DEF Drafts, OneWriter, Rewriting
  <1>3. DeletesAll'
    BY DEF Drafts, DeletesAll
  <1>4. OneBatchEach'
    BY DEF Drafts, OneBatchEach
  <1>5. QED
    BY <1>1, <1>2, <1>3, <1>4 DEF Drafts

LEMMA DraftStepKeepsDrafts ==
    ASSUME Drafts, TypeOK', Shape', NEW p \in Procs,
           \/ EnsureForReceiptReads(p) \/ EnsureForReceiptInserts(p)
           \/ CheckDraft(p) \/ PostReadsDraft(p) \/ EditReadsDraft(p)
           \/ UpdateDraftHeader(p) \/ UpdateStatus(p) \/ lockReceiptForAttach(p)
           \/ RereadTransaction(p)
    PROVE  Drafts'
  <1> USE DEF Goto, Finish, tables, locks, locals
  <1>1. TypeOK /\ Shape /\ OneBatchEach
    BY DEF Drafts
  <1>2. CASE EnsureForReceiptReads(p) \/ EnsureForReceiptInserts(p) \/ UpdateStatus(p)
    BY <1>1, <1>2, QuietKeepsDrafts
    DEF EnsureForReceiptReads, EnsureForReceiptInserts, UpdateStatus, TypeOK
  <1>3. CASE CheckDraft(p) \/ EditReadsDraft(p) \/ RereadTransaction(p)
    BY <1>1, <1>3, QuietKeepsDrafts
    DEF CheckDraft, EditReadsDraft, RereadTransaction, TypeOK, Shape
  <1>4. CASE PostReadsDraft(p)
    <2>1. rec[p] \in Receipts
      BY <1>1, <1>4 DEF PostReadsDraft, Shape, Drafting
    <2>2. rec[p] \notin overlapped => OneBatch(entries[rec[p]])
      BY <1>1, <2>1 DEF OneBatchEach
    <2>3. QED
      BY <1>1, <1>4, <2>2, QuietKeepsDrafts DEF PostReadsDraft, TypeOK
  <1>5. CASE UpdateDraftHeader(p)
    <2>1. \A q \in Procs : q # Nobody
      BY LedgerConstants
    <2>2. rec[p] \in Receipts
      BY <1>1, <1>5 DEF UpdateDraftHeader, Shape, Drafting
    <2>3. QED
      BY <1>1, <1>5, <2>1, <2>2, QuietKeepsDrafts DEF UpdateDraftHeader, TypeOK
  <1>6. CASE lockReceiptForAttach(p)
    <2>1. op[p] = "post" /\ rec[p] \notin overlapped => OneBatch(buf[p])
      BY <1>1, <1>6 DEF lockReceiptForAttach, OneBatchEach
    <2>2. QED
      BY <1>1, <1>6, <2>1, QuietKeepsDrafts DEF lockReceiptForAttach, TypeOK
  <1>7. QED
    BY <1>2, <1>3, <1>4, <1>5, <1>6

LEMMA DeleteKeepsDrafts ==
    ASSUME Drafts, TypeOK', Shape', NEW p \in Procs, DeleteStarts(p) \/ DeleteEnds(p)
    PROVE  Drafts'
  <1> USE DEF Goto, tables, locks, locals
  <1>1. /\ TypeOK /\ Shape /\ HeaderHeld /\ OneWriter /\ DeletesAll /\ OneBatchEach
        /\ rec[p] \in Receipts
    BY DEF Drafts, Shape, Drafting, Writing, DeleteStarts, DeleteEnds
  <1>2. HeaderHeld'
    BY <1>1 DEF DeleteStarts, DeleteEnds, TypeOK, HeaderHeld, Writing
  <1>3. overlapped \subseteq overlapped'
    BY DEF DeleteStarts, DeleteEnds
  <1>4. OneWriter'
    <2>1. CASE DeleteEnds(p)
      BY <1>1, <2>1 DEF DeleteEnds, TypeOK, OneWriter, Rewriting
    <2>2. CASE DeleteStarts(p)
      <3>1. ASSUME rec[p] \notin overlapped', NEW q \in Procs \ {p}, Rewriting(q, rec[p])
            PROVE  FALSE
        <4>1. "generate" \notin {op[p], op[q]}
          BY <2>2, <3>1 DEF DeleteStarts
        <4>2. draftLock[rec[p]] = p /\ draftLock[rec[p]] = q
          BY <1>1, <2>2, <3>1, <4>1 DEF HeaderHeld, DeleteStarts, Writing, Rewriting
        <4>3. QED
          BY <3>1, <4>2
      <3>2. QED
        BY <1>1, <1>3, <2>2, <3>1 DEF DeleteStarts, TypeOK, OneWriter, Rewriting
    <2>3. QED
      BY <2>1, <2>2
  <1>5. DeletesAll' /\ OneBatchEach'
    BY <1>1, <1>3 DEF DeleteStarts, DeleteEnds, TypeOK, DeletesAll, OneBatchEach
  <1>6. QED
    BY <1>2, <1>4, <1>5 DEF Drafts

(* The commit of a draft: its lines are the writer's, unless two overlapped. *)
LEMMA CommitDraftKeepsDrafts ==
    ASSUME Drafts, TypeOK', Shape', NEW p \in Procs, CommitDraft(p)
    PROVE  Drafts'
  <1> USE DEF CommitDraft, Finish, Goto, locals
  <1> DEFINE r == rec[p]
  <1>1. /\ TypeOK /\ Shape /\ HeaderHeld /\ OneWriter /\ DeletesAll /\ OneBatchEach
        /\ r \in Receipts
    BY DEF Drafts, Shape, Writing
  <1>2. pc'[p] \notin Writing /\ \A q \in Procs \ {p} : pc'[q] = pc[q]
    BY <1>1 DEF TypeOK, Writing
  <1>3. HeaderHeld'
    BY <1>1, <1>2, LedgerConstants DEF HeaderHeld, Unlock, TypeOK, Shape
  <1>4. OneWriter'
    BY <1>1, <1>2 DEF OneWriter, Rewriting, Writing
  <1>5. DeletesAll'
    <2>1. \A q \in Procs \ {p} : pc[q] \in {"deleting", "write"} /\ rec[q] = r => r \in overlapped
      BY <1>1 DEF OneWriter, Rewriting
    <2>2. QED
      BY <1>1, <1>2, <2>1 DEF DeletesAll, TypeOK, Writing
  <1>6. OneBatchEach'
    <2>1. r \notin overlapped => entries'[r] = new[p]
      BY <1>1 DEF DeletesAll, TypeOK
    <2>2. QED
      BY <1>1, <1>2, <2>1 DEF OneBatchEach, TypeOK
  <1>7. QED
    BY <1>3, <1>4, <1>5, <1>6 DEF Drafts

(* A failure lets the others go on.                                        *)
LEMMA AbortKeepsDrafts ==
    ASSUME Drafts, TypeOK', Shape', NEW p \in Procs, Abort(p)
    PROVE  Drafts'
  <1>1. TypeOK /\ Shape
    BY DEF Drafts
  <1>2. /\ UNCHANGED <<entries, journal, op, rec, new, buf, overlapped>>
        /\ Unlock(p)
        /\ pc' = [pc EXCEPT ![p] = "idle"] \/ pc' = [pc EXCEPT ![p] = "status"]
    BY DEF Abort, Finish, Goto, tables, locals
  <1>3. /\ pc'[p] \in {"idle", "status"}
        /\ \A q \in Procs \ {p} : pc'[q] = pc[q]
    BY <1>1, <1>2 DEF TypeOK
  <1>4. \A q \in Procs \ {p} :
            pc[q] \in Writing /\ op[q] # "generate" => draftLock'[rec[q]] = q
    BY <1>1, <1>2, LedgerConstants DEF TypeOK, Unlock, Drafts, HeaderHeld, Shape
  <1>5. HeaderHeld'
    BY <1>2, <1>3, <1>4 DEF Drafts, HeaderHeld, Writing
  <1>6. OneWriter' /\ DeletesAll' /\ OneBatchEach'
    BY <1>2, <1>3 DEF Drafts, OneWriter, DeletesAll, OneBatchEach, Rewriting
  <1>7. QED
    BY <1>5, <1>6 DEF Drafts

(* What is posted from a draft is what was read from it.                   *)
LEMMA CommitKeepsDrafts ==
    ASSUME Drafts, TypeOK', Shape', NEW p \in Procs, CommitTransaction(p)
    PROVE  Drafts'
  <1> USE DEF CommitTransaction, Finish, Goto, locals
  <1>1. TypeOK /\ Shape /\ HeaderHeld /\ OneWriter /\ DeletesAll /\ OneBatchEach
    BY DEF Drafts
  <1>2. /\ \A q \in Procs \ {p} : pc'[q] = pc[q]
        /\ pc'[p] \in {"idle", "reread"}
    BY <1>1 DEF TypeOK
  <1>3. HeaderHeld'
    <2>1. Unlock(p) /\ op' = op /\ rec' = rec
      OBVIOUS
    <2>2. \A q \in Procs \ {p} : pc[q] \in Writing /\ op[q] # "generate" =>
              draftLock'[rec[q]] = q
      BY <1>1, <2>1 DEF HeaderHeld, Unlock, TypeOK, Shape
    <2>3. QED
      BY <1>2, <2>1, <2>2 DEF HeaderHeld, Writing
  <1>4. OneWriter' /\ DeletesAll'
    BY <1>1, <1>2 DEF OneWriter, DeletesAll, Rewriting
  <1>5. OneBatchEach'
    <2>1. rec[p] \notin overlapped => OneBatch(Posting(p).lines)
      BY <1>1 DEF OneBatchEach, Posting
    <2>2. Posting(p).receipt = rec[p]
      BY DEF Posting
    <2>3. \A t \in journal' : t \in journal \/ t = Posting(p)
      OBVIOUS
    <2>4. QED
      BY <1>1, <1>2, <2>1, <2>2, <2>3 DEF OneBatchEach
  <1>6. QED
    BY <1>3, <1>4, <1>5 DEF Drafts

LEMMA NextKeepsDrafts == Books /\ Books' /\ Drafts /\ [Next]_vars => Drafts'
  <1> SUFFICES ASSUME Books, Books', Drafts, [Next]_vars PROVE Drafts'
    OBVIOUS
  <1>1. TypeOK' /\ Shape'
    BY DEF Books
  <1>2. CASE UNCHANGED vars
    BY <1>1, <1>2 DEF vars, tables, locks, locals, Drafts, HeaderHeld, OneWriter,
                      DeletesAll, OneBatchEach, Rewriting
  <1>3. ASSUME NEW p \in Procs, Step(p) PROVE Drafts'
    BY <1>1, <1>3, DraftStepKeepsDrafts, DeleteKeepsDrafts, CommitDraftKeepsDrafts,
       CommitKeepsDrafts
    DEF Step
  <1>4. QED
    BY <1>1, <1>2, <1>3, ArriveKeepsDrafts, AbortKeepsDrafts DEF Next

(* The UPDATE of the header keeps concurrent saves of a draft apart: a     *)
(* draft and what is posted from it are the lines of one writer, unless    *)
(* SetEntriesByReceipt ran into another writer.                            *)
THEOREM DraftsHaveOneAuthor == Spec => []DraftsDoNotMix
  <1>1. Drafts => DraftsDoNotMix
    <2> SUFFICES ASSUME Drafts, NEW r \in Receipts \ overlapped
                 PROVE  /\ Cardinality(entries[r]) <= 1
                        /\ \A t \in journal : t.receipt = r => Cardinality(t.lines) <= 1
      BY DEF DraftsDoNotMix
    <2>1. OneBatch(entries[r]) /\ \A t \in journal : t.receipt = r => OneBatch(t.lines)
      BY DEF Drafts, OneBatchEach
    <2>2. QED
      BY <2>1, OneBatchIsSmall
  <1>2. QED
    BY <1>1, InitDrafts, NextKeepsDrafts, BooksInvariant, PTL DEF Spec
=============================================================================
