---------------------------- MODULE DocumentsProofs ----------------------------
(***************************************************************************)
(* That no document is left in silence, and that none is shown as it was.  *)
(*                                                                         *)
(* Receipts and import rows, for any number of workers, jobs, tries,       *)
(* requests and faults: a document that has not been judged is owed its    *)
(* judgement by somebody, a request that has still to enqueue, a claimable *)
(* job or a worker.  The invariant says so (Carried), and every step either *)
(* pays or hands the debt on.  The rows of an import are owed the same way *)
(* (RowsCarried), and whoever may still count a document for its vendor was *)
(* asked to by a request of its own (AskedFor).                            *)
(*                                                                         *)
(* Search documents, for any number of vendors, requests, edits and        *)
(* reindexer runs: one is as the table has it, or has a named excuse, or is *)
(* due, so that somebody will still write or remove it.  That is inductive *)
(* only with what is held between the read and the write.  A visit's row   *)
(* and aliases are the present ones unless another write has marked the    *)
(* visit late; a request's or the reindexer's copy agrees with the tables  *)
(* unless its document strayed.  And nothing the AI proposes replaces an   *)
(* account a person chose for a vendor.                                    *)
(***************************************************************************)
EXTENDS ReceiptStages, VendorMemory, SearchIndex, FiniteSetTheorems, SequenceTheorems, TLAPS

(***************************************************************************)
(* Receipts and import rows.  What a worker has left to write is one of a  *)
(* few plans; the first group of lemmas says how they go on.               *)
(***************************************************************************)

(* What a worker may have left to write.                                   *)
ToTranscribe == {<<"mark", "transcribe", "pass", "ack">>, <<"transcribe", "pass", "ack">>}
ToMatch      == {<<"begin", "ensure", "match", "suggest", "pass", "ack">>,
                 <<"begin", "match", "suggest", "pass", "ack">>,
                 <<"ensure", "match", "suggest", "pass", "ack">>,
                 <<"match", "suggest", "pass", "ack">>}
ToSuggest    == <<"suggest", "pass", "ack">>
ToPass       == <<"pass", "ack">>
ToRead       == <<"read">>
ToEnsure     == <<"ensure", "fill", "ready", "vendor", "ack">>
ToFill       == {<<"fill", "ready", "vendor", "ack">>, <<"ready", "vendor", "ack">>}
ToCount      == <<"vendor", "ack">>
ToDraft      == <<"ensure", "draft">>
ToFinal      == {<<"draft">>, <<"fill", "final", "ack">>, <<"final", "ack">>}
ToHand       == <<"hand", "ack">>
ToPark       == {<<"reason", "attention", "ack">>, <<"attention", "ack">>}
ToBlame      == {<<"reason", "attention", "retry">>, <<"attention", "retry">>}
ToNote       == <<"reason", "retry">>
ToRetry      == <<"retry">>
ToAck        == <<"ack">>

Plans == ToTranscribe \cup ToMatch \cup ToFill \cup ToFinal \cup ToPark \cup ToBlame
         \cup {ToSuggest, ToPass, ToRead, ToEnsure, ToCount, ToDraft, ToHand, ToNote, ToRetry, ToAck}

OnDuty(w)  == run[w] # OffDuty
StageOf(w) == queued[run[w].job].stage

(* The statements a request can have left.                                 *)
ThenText == <<[do |-> "enqueue", stage |-> "suggest"], [do |-> "text", stage |-> "suggest"]>>
LastText == <<[do |-> "text", stage |-> "suggest"]>>
OnlyJob(do, s) == <<[do |-> do, stage |-> s]>>

DeskOK ==
    \/ desk \in {AtRest, ThenText, LastText}
    \/ \E do \in {"enqueue", "again"}, s \in Stages : desk = OnlyJob(do, s)

RunsOK ==
    /\ run = [w \in StageWorkers |-> run[w]]
    /\ \A w \in StageWorkers : OnDuty(w) =>
          run[w] \in [job : 1 .. Len(queued), todo : Plans, silent : BOOLEAN]

(* Nothing happens before the upload.                                      *)
Blank ==
    paper.kind = "none" =>
        queued = <<>> /\ desk = AtRest /\ \A w \in StageWorkers : ~ OnDuty(w)

(* A plan is one of its stage and mode, and comes after what it relies on. *)
Fits(w) ==
    LET t == run[w].todo IN
    /\ t \in ToTranscribe => StageOf(w) = "ocr"
    /\ t \in ToMatch \cup {ToSuggest} => StageOf(w) = "suggest" /\ pipelineMode = "legacy"
    /\ t \in ToFill \cup {ToRead, ToEnsure, ToCount} => StageOf(w) # "draft"
    /\ t \in ToFill \cup ToFinal => paper.draft # "none"
    /\ t = ToNote => run[w].silent
    /\ Head(t) = "attention" => paper.reason \/ "reason" \in missed

PlansFit == \A w \in StageWorkers : OnDuty(w) => Fits(w)

(* A judgement has its grounds; only suggestions of the legacy mode are    *)
(* stored by the worker.                                                   *)
Grounds ==
    /\ paper.status = "ready_for_review" => paper.draft # "none"
    /\ paper.status = "needs_attention" => paper.reason \/ "reason" \in missed
    /\ paper.suggested => pipelineMode = "legacy"

Told == Judged \/ paper.state = "pending" \/
        missed \cap {"enqueue", "pass", "attention", "ready", "tries", "hand", "ack"} # {}

AsksJob == desk # AtRest /\ Head(desk).do # "text"

(* The worker will judge the document, pass it on, or have lost it.        *)
Owes(w) ==
    OnDuty(w) /\ run[w].todo \notin {ToCount, ToAck} /\ (run[w].todo = ToRetry => run[w].silent)

(* Somebody still owes the document its judgement.                         *)
Carried ==
    paper.kind # "none" =>
        Told \/ AsksJob \/ StageClaimable # {} \/ \E w \in StageWorkers : Owes(w)

Lacking ==
    /\ paper.kind = "csv" /\ paper.text = "text" /\ ~ paper.rows
    /\ missed \cap {"early", "rows"} = {}

PastMatch(w) == OnDuty(w) /\ run[w].todo = ToSuggest

Suggesting == paper.suggested \/ \E w \in StageWorkers : PastMatch(w)

EarlyJobs == {j \in StageClaimable : queued[j].stage # "draft"}

Storing == ToTranscribe \cup ToMatch \cup ToBlame \cup {ToRetry}

Stores(w) ==
    /\ OnDuty(w) /\ StageOf(w) # "draft"
    /\ run[w].todo \in Storing \/ (run[w].todo = ToPass /\ StageOf(w) = "ocr")

(* Somebody still owes the import its rows.                                *)
RowsCarried == Lacking /\ Suggesting => EarlyJobs # {} \/ \E w \in StageWorkers : Stores(w)

TextToCome == desk \in {ThenText, LastText}

(* A suggestion made before the text is stored is noticed.                 *)
TextNoticed ==
    TextToCome => /\ paper.kind = "csv"
                  /\ Suggesting => paper.rows \/ missed \cap {"early", "rows"} # {}

Counting == {w \in StageWorkers : OnDuty(w) /\ StageOf(w) # "draft" /\ run[w].todo # ToAck}

(* Every job that may count the document was asked for.                    *)
Owed == memoized + Cardinality(EarlyJobs) + Cardinality(Counting) + (IF AsksJob THEN 1 ELSE 0)
AskedFor == IsFiniteSet(Counting) /\ Owed <= asked

StagesInv ==
    /\ StagesTypeOK /\ DeskOK /\ RunsOK /\ Blank
    /\ PlansFit /\ Grounds /\ Carried /\ RowsCarried /\ TextNoticed /\ AskedFor

-----------------------------------------------------------------------------
(* Plans.                                                                  *)

(* The first write of a plan, and the rest.                                *)
LEMMA Tails ==
  /\ \A a : Head(<<a>>) = a
  /\ \A a, b : Head(<<a, b>>) = a /\ Tail(<<a, b>>) = <<b>>
  /\ \A a, b, c : Head(<<a, b, c>>) = a /\ Tail(<<a, b, c>>) = <<b, c>>
  /\ \A a, b, c, d : Head(<<a, b, c, d>>) = a /\ Tail(<<a, b, c, d>>) = <<b, c, d>>
  /\ \A a, b, c, d, e :
        Head(<<a, b, c, d, e>>) = a /\ Tail(<<a, b, c, d, e>>) = <<b, c, d, e>>
  /\ \A a, b, c, d, e, f :
        Head(<<a, b, c, d, e, f>>) = a /\ Tail(<<a, b, c, d, e, f>>) = <<b, c, d, e, f>>
OBVIOUS

(* What comes first in a plan of each group, and what is left behind it.   *)
LEMMA ToTranscribeHeads ==
  ASSUME NEW t \in ToTranscribe
  PROVE  \/ Head(t) = "mark" /\ Tail(t) \in ToTranscribe
         \/ Head(t) = "transcribe" /\ Tail(t) = ToPass
<1>1. CASE t = <<"mark", "transcribe", "pass", "ack">>
  BY <1>1, Tails DEF ToTranscribe, ToPass
<1>2. CASE t = <<"transcribe", "pass", "ack">>
  BY <1>2, Tails DEF ToTranscribe, ToPass
<1> QED BY <1>1, <1>2 DEF ToTranscribe

(* The suggest job, from the receipt's status to its answer.               *)
LEMMA ToMatchHeads ==
  ASSUME NEW t \in ToMatch
  PROVE  \/ Head(t) \in {"begin", "ensure"} /\ Tail(t) \in ToMatch
         \/ Head(t) = "match" /\ Tail(t) = ToSuggest
<1>1. CASE t = <<"begin", "ensure", "match", "suggest", "pass", "ack">>
  BY <1>1, Tails DEF ToMatch, ToSuggest
<1>2. CASE t = <<"begin", "match", "suggest", "pass", "ack">>
  BY <1>2, Tails DEF ToMatch, ToSuggest
<1>3. CASE t = <<"ensure", "match", "suggest", "pass", "ack">>
  BY <1>3, Tails DEF ToMatch, ToSuggest
<1>4. CASE t = <<"match", "suggest", "pass", "ack">>
  BY <1>4, Tails DEF ToMatch, ToSuggest
<1> QED BY <1>1, <1>2, <1>3, <1>4 DEF ToMatch

(* The pipeline's draft.                                                   *)
LEMMA ToFillHeads ==
  ASSUME NEW t \in ToFill
  PROVE  \/ Head(t) = "fill" /\ Tail(t) \in ToFill /\ Head(Tail(t)) = "ready"
         \/ Head(t) = "ready" /\ Tail(t) = ToCount
<1>1. CASE t = <<"fill", "ready", "vendor", "ack">>
  BY <1>1, Tails DEF ToFill, ToCount
<1>2. CASE t = <<"ready", "vendor", "ack">>
  BY <1>2, Tails DEF ToFill, ToCount
<1> QED BY <1>1, <1>2 DEF ToFill

(* The draft of the draft stage.                                           *)
LEMMA ToFinalHeads ==
  ASSUME NEW t \in ToFinal
  PROVE  \/ Head(t) = "fill" /\ Tail(t) \in ToFinal /\ Head(Tail(t)) = "final"
         \/ Head(t) = "final" /\ Tail(t) = ToAck
         \/ Head(t) = "draft"
<1>1. CASE t = <<"draft">>
  BY <1>1, Tails DEF ToFinal, ToAck
<1>2. CASE t = <<"fill", "final", "ack">>
  BY <1>2, Tails DEF ToFinal, ToAck
<1>3. CASE t = <<"final", "ack">>
  BY <1>3, Tails DEF ToFinal, ToAck
<1> QED BY <1>1, <1>2, <1>3 DEF ToFinal

(* A receipt parked for a reviewer.                                        *)
LEMMA ToParkHeads ==
  ASSUME NEW t \in ToPark
  PROVE  \/ Head(t) = "reason" /\ Tail(t) \in ToPark /\ Head(Tail(t)) = "attention"
         \/ Head(t) = "attention" /\ Tail(t) = ToAck
<1>1. CASE t = <<"reason", "attention", "ack">>
  BY <1>1, Tails DEF ToPark, ToAck
<1>2. CASE t = <<"attention", "ack">>
  BY <1>2, Tails DEF ToPark, ToAck
<1> QED BY <1>1, <1>2 DEF ToPark

(* A receipt whose stage failed.                                           *)
LEMMA ToBlameHeads ==
  ASSUME NEW t \in ToBlame
  PROVE  \/ Head(t) = "reason" /\ Tail(t) \in ToBlame /\ Head(Tail(t)) = "attention"
         \/ Head(t) = "attention" /\ Tail(t) = ToRetry
<1>1. CASE t = <<"reason", "attention", "retry">>
  BY <1>1, Tails DEF ToBlame, ToRetry
<1>2. CASE t = <<"attention", "retry">>
  BY <1>2, Tails DEF ToBlame, ToRetry
<1> QED BY <1>1, <1>2 DEF ToBlame

(* The plans that are a group of their own.                                *)
LEMMA SingleHeads ==
  /\ Head(ToSuggest) = "suggest" /\ Tail(ToSuggest) = ToPass
  /\ Head(ToPass) = "pass" /\ Tail(ToPass) = ToAck
  /\ Head(ToEnsure) = "ensure" /\ Tail(ToEnsure) \in ToFill
  /\ Head(ToDraft) = "ensure" /\ Tail(ToDraft) \in ToFinal
  /\ Head(ToCount) = "vendor" /\ Tail(ToCount) = ToAck
  /\ Head(ToHand) = "hand" /\ Tail(ToHand) = ToAck
  /\ Head(ToNote) = "reason" /\ Tail(ToNote) = ToRetry
  /\ Head(ToRead) = "read" /\ Head(ToRetry) = "retry" /\ Head(ToAck) = "ack"
<1>1. Head(ToEnsure) = "ensure" /\ Tail(ToEnsure) \in ToFill
  BY Tails DEF ToEnsure, ToFill
<1>2. Head(ToDraft) = "ensure" /\ Tail(ToDraft) \in ToFinal
  BY Tails DEF ToDraft, ToFinal
<1> QED BY <1>1, <1>2, Tails DEF ToSuggest, ToPass, ToCount, ToHand, ToNote, ToRead, ToRetry, ToAck

(* Which plan the next write is of, and which plan is left after it.       *)
LEMMA PlanHeads ==
  ASSUME NEW t \in Plans
  PROVE  /\ Head(t) = "mark" => t \in ToTranscribe /\ Tail(t) \in ToTranscribe
         /\ Head(t) = "transcribe" => t \in ToTranscribe /\ Tail(t) = ToPass
         /\ Head(t) = "begin" => t \in ToMatch /\ Tail(t) \in ToMatch
         /\ Head(t) = "match" => t \in ToMatch /\ Tail(t) = ToSuggest
         /\ Head(t) = "suggest" => t = ToSuggest /\ Tail(t) = ToPass
         /\ Head(t) = "pass" => t = ToPass /\ Tail(t) = ToAck
         /\ Head(t) = "ensure" => \/ t \in ToMatch /\ Tail(t) \in ToMatch
                                  \/ t = ToEnsure /\ Tail(t) \in ToFill
                                  \/ t = ToDraft /\ Tail(t) \in ToFinal
         /\ Head(t) = "fill" => \/ t \in ToFill /\ Tail(t) \in ToFill
                                \/ t \in ToFinal /\ Tail(t) \in ToFinal
         /\ Head(t) = "ready" => t \in ToFill /\ Tail(t) = ToCount
         /\ Head(t) = "final" => t \in ToFinal /\ Tail(t) = ToAck
         /\ Head(t) = "draft" => t \in ToFinal
         /\ Head(t) = "read" => t = ToRead
         /\ Head(t) = "vendor" => t = ToCount /\ Tail(t) = ToAck
         /\ Head(t) = "hand" => t = ToHand /\ Tail(t) = ToAck
         /\ Head(t) = "reason" => \/ t \in ToPark /\ Tail(t) \in ToPark
                                  \/ t \in ToBlame /\ Tail(t) \in ToBlame
                                  \/ t = ToNote /\ Tail(t) = ToRetry
         /\ Head(t) = "attention" => \/ t \in ToPark /\ Tail(t) = ToAck
                                     \/ t \in ToBlame /\ Tail(t) = ToRetry
         /\ Head(t) = "ack" => t = ToAck
         /\ Head(t) = "retry" => t = ToRetry
         /\ t = ToAck => Head(t) = "ack"
         /\ t \in ToTranscribe => Head(t) \in {"mark", "transcribe"}
         /\ t \in ToMatch => Head(t) \in {"begin", "ensure", "match"}
         /\ t \in ToFill => Head(t) \in {"fill", "ready"}
         /\ t \in ToFinal => Head(t) \in {"fill", "final", "draft"}
         /\ t \in ToPark \cup ToBlame => Head(t) \in {"reason", "attention"}
BY ToTranscribeHeads, ToMatchHeads, ToFillHeads, ToFinalHeads, ToParkHeads, ToBlameHeads,
   SingleHeads DEF Plans
(* Plans that match rows, or come back to it, and plans with nothing left  *)
(* to judge, by their first write.                                         *)
LEMMA PlanKinds ==
  ASSUME NEW t \in Plans
  PROVE  /\ t \in Storing => Head(t) \in {"mark", "transcribe", "begin", "ensure", "match", "reason",
                                          "attention", "retry"}
         /\ t \in Storing /\ Head(t) = "ensure" => Tail(t) \in Storing
         /\ t \in Storing /\ Head(t) \in {"reason", "attention"} => Tail(t) \in Storing
         /\ t = ToSuggest => Head(t) = "suggest"
         /\ t = ToPass => Head(t) = "pass"
         /\ t = ToRead => Head(t) = "read"
         /\ t = ToEnsure => Head(t) = "ensure"
         /\ t = ToCount => Head(t) = "vendor"
         /\ t = ToNote => Head(t) = "reason"
         /\ t = ToRetry => Head(t) = "retry"
         /\ t = ToAck => Head(t) = "ack"
<1>1. t \in Storing /\ Head(t) = "ensure" => Tail(t) \in Storing
  BY PlanHeads, SingleHeads, ToTranscribeHeads, ToMatchHeads, ToBlameHeads DEF Storing
<1>2. t \in Storing /\ Head(t) \in {"reason", "attention"} => Tail(t) \in Storing
  BY ToTranscribeHeads, ToMatchHeads, ToBlameHeads, SingleHeads DEF Storing
<1>3. t \in Storing => Head(t) \in {"mark", "transcribe", "begin", "ensure", "match", "reason",
                                   "attention", "retry"}
  BY ToTranscribeHeads, ToMatchHeads, ToBlameHeads, SingleHeads DEF Storing
<1> QED BY <1>1, <1>2, <1>3, SingleHeads

(* The first write of the plans of a group.                                *)
LEMMA GroupHeads ==
  ASSUME NEW n
  PROVE  /\ n \in ToTranscribe => Head(n) \in {"mark", "transcribe"}
         /\ n \in ToMatch => Head(n) \in {"begin", "ensure", "match"}
         /\ n \in ToFill => Head(n) \in {"fill", "ready"}
         /\ n \in ToFinal => Head(n) \in {"fill", "final", "draft"}
         /\ n \in ToPark \cup ToBlame => Head(n) \in {"reason", "attention"}
         /\ n = ToSuggest => Head(n) = "suggest"
         /\ n = ToPass => Head(n) = "pass"
         /\ n = ToRead => Head(n) = "read"
         /\ n = ToEnsure => Head(n) = "ensure"
         /\ n = ToCount => Head(n) = "vendor"
         /\ n = ToNote => Head(n) = "reason"
         /\ n = ToRetry => Head(n) = "retry"
         /\ n = ToAck => Head(n) = "ack"
BY ToTranscribeHeads, ToMatchHeads, ToFillHeads, ToFinalHeads, ToParkHeads, ToBlameHeads, SingleHeads

(* The writes a plan can come to.                                          *)
LEMMA AllHeads ==
  ASSUME NEW t \in Plans
  PROVE  Head(t) \in {"mark", "transcribe", "begin", "ensure", "match", "suggest", "pass", "fill", "ready",
                     "final", "draft", "read", "vendor", "hand", "reason", "attention", "ack", "retry"}
BY GroupHeads, SingleHeads DEF Plans

(* The pipeline's plan and the fills of the two stages are of one group    *)
(* each.                                                                   *)
LEMMA GroupsApart ==
  /\ ToEnsure \notin ToMatch
  /\ ToFill \cap ToFinal = {}
<1>1. ToEnsure \notin ToMatch
  <2> SUFFICES ASSUME ToEnsure \in ToMatch PROVE FALSE
    OBVIOUS
  <2>1. Tail(ToEnsure) \in ToMatch /\ Tail(ToEnsure) \in ToFill
    BY ToMatchHeads, SingleHeads
  <2> QED BY <2>1, GroupHeads
<1>2. ToFill \cap ToFinal = {}
  BY ToFillHeads, ToFinalHeads
<1> QED BY <1>1, <1>2

(* Who may still store a text or rows keeps doing so until a read, a match *)
(* or the end.                                                             *)
LEMMA StoringGoesOn ==
  ASSUME NEW t \in Storing, Head(t) \notin {"match", "transcribe", "retry"}
  PROVE  Tail(t) \in Storing
BY ToTranscribeHeads, ToMatchHeads, ToBlameHeads, SingleHeads DEF Storing

(* How a plan goes on.                                                     *)
LEMMA PlansGoOn ==
  ASSUME NEW t \in Plans, NEW n, n = Tail(t), Head(t) \notin {"ack", "retry", "read", "draft"}
  PROVE  /\ n \in Plans /\ t # ToAck /\ n # ToNote
         /\ n \in ToTranscribe => t \in ToTranscribe
         /\ n \in ToMatch \cup {ToSuggest} => t \in ToMatch
         /\ n \in ToFill \cup {ToRead, ToEnsure, ToCount} => t \in ToFill \cup {ToEnsure}
         /\ n \in ToFill \cup ToFinal => t \in ToFill \cup ToFinal \/ Head(t) = "ensure"
         /\ Head(n) = "attention" => Head(t) = "reason"
         /\ n = ToSuggest => Head(t) = "match"
         /\ n \in {ToCount, ToAck} =>
               Head(t) \in {"ready", "final", "hand", "pass", "attention", "vendor"}
         /\ n = ToRetry => Head(t) = "attention" \/ t = ToNote
         /\ Head(t) = "transcribe" => n = ToPass /\ t \in ToTranscribe
         /\ Head(t) = "vendor" => n = ToAck /\ t = ToCount
         /\ Head(t) = "suggest" => t = ToSuggest
<1>t. t # ToAck /\ t # ToRetry /\ t # ToRead
  BY SingleHeads
<1>1. CASE t \in ToTranscribe
  <2>1. \/ Head(t) = "mark" /\ n \in ToTranscribe /\ Head(n) \in {"mark", "transcribe"}
        \/ Head(t) = "transcribe" /\ n = ToPass /\ Head(n) = "pass"
    BY <1>1, ToTranscribeHeads, GroupHeads, SingleHeads
  <2>2. CASE Head(t) = "mark" /\ n \in ToTranscribe /\ Head(n) \in {"mark", "transcribe"}
    BY <1>1, <1>t, <2>2, GroupHeads, GroupsApart, SingleHeads DEF Plans
  <2>3. CASE Head(t) = "transcribe" /\ n = ToPass /\ Head(n) = "pass"
    BY <1>1, <1>t, <2>3, GroupHeads, GroupsApart, SingleHeads DEF Plans
  <2> QED BY <2>1, <2>2, <2>3
<1>2. CASE t \in ToMatch
  <2>1. \/ Head(t) \in {"begin", "ensure"} /\ n \in ToMatch /\ Head(n) \in {"begin", "ensure", "match"}
        \/ Head(t) = "match" /\ n = ToSuggest /\ Head(n) = "suggest"
    BY <1>2, ToMatchHeads, GroupHeads, SingleHeads
  <2>2. CASE Head(t) \in {"begin", "ensure"} /\ n \in ToMatch /\ Head(n) \in {"begin", "ensure", "match"}
    BY <1>2, <1>t, <2>2, GroupHeads, GroupsApart, SingleHeads DEF Plans
  <2>3. CASE Head(t) = "match" /\ n = ToSuggest /\ Head(n) = "suggest"
    BY <1>2, <1>t, <2>3, GroupHeads, GroupsApart, SingleHeads DEF Plans
  <2> QED BY <2>1, <2>2, <2>3
<1>3. CASE t \in ToFill
  <2>1. \/ Head(t) = "fill" /\ n \in ToFill /\ Head(n) \in {"fill", "ready"}
        \/ Head(t) = "ready" /\ n = ToCount /\ Head(n) = "vendor"
    BY <1>3, ToFillHeads, GroupHeads, SingleHeads
  <2>2. CASE Head(t) = "fill" /\ n \in ToFill /\ Head(n) \in {"fill", "ready"}
    BY <1>3, <1>t, <2>2, GroupHeads, GroupsApart, SingleHeads DEF Plans
  <2>3. CASE Head(t) = "ready" /\ n = ToCount /\ Head(n) = "vendor"
    BY <1>3, <1>t, <2>3, GroupHeads, GroupsApart, SingleHeads DEF Plans
  <2> QED BY <2>1, <2>2, <2>3
<1>4. CASE t \in ToFinal
  <2>1. \/ Head(t) = "fill" /\ n \in ToFinal /\ Head(n) \in {"fill", "final", "draft"}
        \/ Head(t) = "final" /\ n = ToAck /\ Head(n) = "ack"
    BY <1>4, ToFinalHeads, GroupHeads, SingleHeads
  <2>2. CASE Head(t) = "fill" /\ n \in ToFinal /\ Head(n) \in {"fill", "final", "draft"}
    BY <1>4, <1>t, <2>2, GroupHeads, GroupsApart, SingleHeads DEF Plans
  <2>3. CASE Head(t) = "final" /\ n = ToAck /\ Head(n) = "ack"
    BY <1>4, <1>t, <2>3, GroupHeads, GroupsApart, SingleHeads DEF Plans
  <2> QED BY <2>1, <2>2, <2>3
<1>5. CASE t \in ToPark
  <2>1. \/ Head(t) = "reason" /\ n \in ToPark /\ Head(n) = "attention"
        \/ Head(t) = "attention" /\ n = ToAck /\ Head(n) = "ack"
    BY <1>5, ToParkHeads, GroupHeads, SingleHeads
  <2>2. CASE Head(t) = "reason" /\ n \in ToPark /\ Head(n) = "attention"
    BY <1>5, <1>t, <2>2, GroupHeads, GroupsApart, SingleHeads DEF Plans
  <2>3. CASE Head(t) = "attention" /\ n = ToAck /\ Head(n) = "ack"
    BY <1>5, <1>t, <2>3, GroupHeads, GroupsApart, SingleHeads DEF Plans
  <2> QED BY <2>1, <2>2, <2>3
<1>6. CASE t \in ToBlame
  <2>1. \/ Head(t) = "reason" /\ n \in ToBlame /\ Head(n) = "attention"
        \/ Head(t) = "attention" /\ n = ToRetry /\ Head(n) = "retry"
    BY <1>6, ToBlameHeads, GroupHeads, SingleHeads
  <2>2. CASE Head(t) = "reason" /\ n \in ToBlame /\ Head(n) = "attention"
    BY <1>6, <1>t, <2>2, GroupHeads, GroupsApart, SingleHeads DEF Plans
  <2>3. CASE Head(t) = "attention" /\ n = ToRetry /\ Head(n) = "retry"
    BY <1>6, <1>t, <2>3, GroupHeads, GroupsApart, SingleHeads DEF Plans
  <2> QED BY <2>1, <2>2, <2>3
<1>7. CASE t = ToSuggest
  <2>1. n = ToPass /\ Head(n) = "pass"
    BY <1>7, GroupHeads, SingleHeads
  <2> QED BY <1>7, <1>t, <2>1, GroupHeads, GroupsApart, SingleHeads DEF Plans
<1>8. CASE t = ToPass
  <2>1. n = ToAck /\ Head(n) = "ack"
    BY <1>8, GroupHeads, SingleHeads
  <2> QED BY <1>8, <1>t, <2>1, GroupHeads, GroupsApart, SingleHeads DEF Plans
<1>9. CASE t = ToEnsure
  <2>1. n \in ToFill /\ Head(n) \in {"fill", "ready"}
    BY <1>9, GroupHeads, SingleHeads
  <2> QED BY <1>9, <1>t, <2>1, GroupHeads, GroupsApart, SingleHeads DEF Plans
<1>10. CASE t = ToDraft
  <2>1. n \in ToFinal /\ Head(n) \in {"fill", "final", "draft"}
    BY <1>10, GroupHeads, SingleHeads
  <2> QED BY <1>10, <1>t, <2>1, GroupHeads, GroupsApart, SingleHeads DEF Plans
<1>11. CASE t = ToCount
  <2>1. n = ToAck /\ Head(n) = "ack"
    BY <1>11, GroupHeads, SingleHeads
  <2> QED BY <1>11, <1>t, <2>1, GroupHeads, GroupsApart, SingleHeads DEF Plans
<1>12. CASE t = ToHand
  <2>1. n = ToAck /\ Head(n) = "ack"
    BY <1>12, GroupHeads, SingleHeads
  <2> QED BY <1>12, <1>t, <2>1, GroupHeads, GroupsApart, SingleHeads DEF Plans
<1>13. CASE t = ToNote
  <2>1. n = ToRetry /\ Head(n) = "retry"
    BY <1>13, GroupHeads, SingleHeads
  <2> QED BY <1>13, <1>t, <2>1, GroupHeads, GroupsApart, SingleHeads DEF Plans
<1> QED BY <1>t, <1>1, <1>2, <1>3, <1>4, <1>5, <1>6, <1>7, <1>8, <1>9, <1>10, <1>11, <1>12, <1>13 DEF Plans

-----------------------------------------------------------------------------
(* Writes of a worker that touch neither the queue nor the desk.           *)

NothingNew(w) ==
    /\ paper'.suggested => paper.suggested \/ PastMatch(w)
    /\ PastMatch(w)' => PastMatch(w)

Writes(w) ==
    /\ OnDuty(w) /\ run[w].todo # ToAck
    /\ UNCHANGED <<pipelineMode, queued, desk, asked>>
    /\ stageFaults' \in 0 .. MaxStageFaults
    /\ run' = [run EXCEPT ![w] = run'[w]]
    /\ run'[w] \in [job : {run[w].job}, todo : Plans, silent : BOOLEAN]
    /\ paper' \in PaperRows /\ paper'.kind = paper.kind
    /\ missed \subseteq missed'
    /\ paper.draft # "none" => paper'.draft # "none"
    /\ paper.reason => paper'.reason
    /\ paper.rows => paper'.rows
    /\ Grounds' /\ Fits(w)'
    /\ \/ memoized' = memoized
       \/ memoized' = memoized + 1 /\ StageOf(w) # "draft" /\ run'[w].todo = ToAck
    /\ Told' \/ Owes(w)' \/ (~ Owes(w) /\ (Told => Told'))
    /\ Lacking' => Stores(w)' \/ (Lacking /\ ~ Stores(w) /\ NothingNew(w))
    /\ TextToCome => NothingNew(w) \/ paper'.rows \/ missed' \cap {"early", "rows"} # {}

(* Jobs are numbers, finitely many.                                        *)
LEMMA SomeNumbers ==
  ASSUME NEW n \in Nat, NEW S \in SUBSET (1 .. n)
  PROVE  IsFiniteSet(S) /\ Cardinality(S) \in Nat
<1>1. IsFiniteSet(1 .. n)
  BY FS_Interval
<1>2. IsFiniteSet(S)
  BY <1>1, FS_Subset
<1> QED BY <1>2, FS_CardinalityType

(* A write is one worker's: the others, its duty and its stage stay as     *)
(* they are.                                                               *)
LEMMA OthersRest ==
  ASSUME StagesInv, NEW w \in StageWorkers, Writes(w)
  PROVE  /\ run' = [q \in StageWorkers |-> run'[q]]
         /\ OnDuty(w)' /\ StageOf(w)' = StageOf(w)
         /\ run'[w] \in [job : 1 .. Len(queued), todo : Plans, silent : BOOLEAN]
         /\ \A q \in StageWorkers \ {w} : run'[q] = run[q]
<1>1. run[w] \in [job : 1 .. Len(queued), todo : Plans, silent : BOOLEAN]
  BY DEF Writes, StagesInv, RunsOK
<1>2. /\ run' = [q \in StageWorkers |-> run'[q]]
      /\ \A q \in StageWorkers \ {w} : run'[q] = run[q]
  BY DEF Writes, StagesInv, RunsOK
<1>3. run'[w] \in [job : 1 .. Len(queued), todo : Plans, silent : BOOLEAN] /\ run'[w].job = run[w].job
  BY <1>1 DEF Writes
<1>4. OnDuty(w)'
  <2>1. Len(queued) \in Nat
    BY DEF StagesInv, StagesTypeOK
  <2> QED BY <1>3, <2>1 DEF OnDuty, OffDuty
<1>5. StageOf(w)' = StageOf(w)
  BY <1>3 DEF StageOf, Writes
<1> QED BY <1>2, <1>3, <1>4, <1>5

(* Every write that keeps to what Writes says of it keeps the invariant.   *)
LEMMA WritesKeep ==
  ASSUME StagesInv, NEW w \in StageWorkers, Writes(w) PROVE StagesInv'
<1>0. /\ run' = [q \in StageWorkers |-> run'[q]]
      /\ OnDuty(w)' /\ StageOf(w)' = StageOf(w)
      /\ run'[w] \in [job : 1 .. Len(queued), todo : Plans, silent : BOOLEAN]
      /\ \A q \in StageWorkers \ {w} : run'[q] = run[q]
  BY OthersRest
<1>s. /\ queued' = queued /\ desk' = desk /\ asked' = asked /\ pipelineMode' = pipelineMode
      /\ OnDuty(w)
  BY DEF Writes
<1>q. ASSUME NEW q \in StageWorkers \ {w}
      PROVE  /\ OnDuty(q)' = OnDuty(q) /\ StageOf(q)' = StageOf(q)
             /\ Owes(q)' = Owes(q) /\ Stores(q)' = Stores(q) /\ PastMatch(q)' = PastMatch(q)
  BY <1>0, <1>s DEF OnDuty, StageOf, Owes, Stores, PastMatch
<1>1. StagesTypeOK'
  BY <1>s DEF Writes, StagesInv, StagesTypeOK
<1>2. DeskOK' /\ Blank'
  BY <1>s DEF Writes, StagesInv, DeskOK, Blank
<1>3. RunsOK'
  BY <1>0, <1>q, <1>s DEF StagesInv, RunsOK
<1>4. PlansFit'
  <2>1. ASSUME NEW q \in StageWorkers, OnDuty(q)' PROVE Fits(q)'
    <3>1. CASE q = w
      BY <3>1 DEF Writes
    <3>2. CASE q # w
      <4>1. Fits(q)
        BY <1>q, <2>1, <3>2 DEF StagesInv, PlansFit
      <4> QED BY <1>0, <1>q, <1>s, <3>2, <4>1 DEF Fits, Writes
    <3> QED BY <3>1, <3>2
  <2> QED BY <2>1 DEF PlansFit
<1>5. Grounds'
  BY DEF Writes
<1>6. Carried'
  <2> SUFFICES ASSUME paper.kind # "none", ~ Told', ~ Owes(w)', ~ AsksJob, StageClaimable = {}
               PROVE  \E q \in StageWorkers : Owes(q)'
    BY <1>s DEF Writes, Carried, AsksJob, StageClaimable
  <2>1. ~ Owes(w) /\ ~ Told
    BY DEF Writes
  <2>2. PICK q \in StageWorkers : Owes(q)
    BY <2>1 DEF StagesInv, Carried
  <2> QED BY <1>q, <2>1, <2>2
<1>7. RowsCarried'
  <2> SUFFICES ASSUME Lacking', Suggesting', EarlyJobs = {}, ~ Stores(w)'
               PROVE  \E q \in StageWorkers : Stores(q)'
    BY <1>s DEF RowsCarried, EarlyJobs, StageClaimable
  <2>1. Lacking /\ ~ Stores(w) /\ NothingNew(w)
    BY DEF Writes
  <2>2. Suggesting
    BY <1>q, <2>1 DEF Suggesting, NothingNew
  <2>3. PICK q \in StageWorkers : Stores(q)
    BY <2>1, <2>2 DEF StagesInv, RowsCarried
  <2> QED BY <1>q, <2>1, <2>3
<1>8. TextNoticed'
  <2> SUFFICES ASSUME TextToCome, Suggesting', ~ paper'.rows, missed' \cap {"early", "rows"} = {}
               PROVE  FALSE
    BY <1>s DEF Writes, StagesInv, TextNoticed, TextToCome
  <2>1. NothingNew(w)
    BY DEF Writes
  <2>2. Suggesting
    BY <1>q, <2>1 DEF Suggesting, NothingNew
  <2>3. paper.rows \/ missed \cap {"early", "rows"} # {}
    BY <2>2 DEF StagesInv, TextNoticed
  <2> QED BY <2>3 DEF Writes
<1>9. AskedFor'
  <2>1. Counting' \subseteq Counting
    BY <1>0, <1>q, <1>s DEF Counting, Writes
  <2>2. /\ EarlyJobs' = EarlyJobs /\ AsksJob' = AsksJob
    BY <1>s DEF EarlyJobs, StageClaimable, AsksJob
  <2>3. IsFiniteSet(Counting) /\ IsFiniteSet(Counting')
    BY <2>1, FS_Subset DEF StagesInv, AskedFor
  <2>4. EarlyJobs \in SUBSET (1 .. Len(queued)) /\ Len(queued) \in Nat
    BY DEF EarlyJobs, StageClaimable, StagesInv, StagesTypeOK
  <2>5. IsFiniteSet(EarlyJobs) /\ Cardinality(EarlyJobs) \in Nat
    BY <2>4, SomeNumbers
  <2>6. Cardinality(Counting') \in Nat /\ Cardinality(Counting) \in Nat
    BY <2>3, FS_CardinalityType
  <2>7. memoized \in Nat /\ asked \in Nat
    BY DEF StagesInv, StagesTypeOK
  <2>8. CASE memoized' = memoized
    <3>1. Cardinality(Counting') <= Cardinality(Counting)
      BY <2>1, <2>3, FS_Subset
    <3> QED BY <1>s, <2>2, <2>3, <2>5, <2>6, <2>7, <2>8, <3>1 DEF StagesInv, AskedFor, Owed
  <2>9. CASE memoized' = memoized + 1 /\ StageOf(w) # "draft" /\ run'[w].todo = ToAck
    <3>1. w \in Counting
      BY <2>9, <1>s DEF Counting, Writes
    <3>2. Counting' \subseteq Counting \ {w}
      BY <2>1, <2>9 DEF Counting
    <3>3. IsFiniteSet(Counting \ {w}) /\ Cardinality(Counting \ {w}) = Cardinality(Counting) - 1
      BY <2>3, <3>1, FS_RemoveElement
    <3>4. Cardinality(Counting') <= Cardinality(Counting) - 1
      BY <3>2, <3>3, FS_Subset
    <3> QED BY <1>s, <2>2, <2>3, <2>5, <2>6, <2>7, <2>9, <3>4 DEF StagesInv, AskedFor, Owed
  <2> QED BY <2>8, <2>9 DEF Writes
<1> QED BY <1>1, <1>2, <1>3, <1>4, <1>5, <1>6, <1>7, <1>8, <1>9 DEF StagesInv

(* What a worker at work has left fits its job.                            *)
LEMMA AtWork ==
  ASSUME StagesInv, NEW w \in StageWorkers, OnDuty(w)
  PROVE  /\ run[w] \in [job : 1 .. Len(queued), todo : Plans, silent : BOOLEAN]
         /\ run[w].todo \in Plans
         /\ Fits(w)
         /\ paper \in PaperRows
BY DEF StagesInv, StagesTypeOK, RunsOK, PlansFit

(* It turns to a plan.                                                     *)
LEMMA TurnsTo ==
  ASSUME StagesInv, NEW w \in StageWorkers, OnDuty(w), NEW t \in Plans, Goes(w, t)
  PROVE  /\ run' = [run EXCEPT ![w] = run'[w]]
         /\ run'[w] \in [job : {run[w].job}, todo : Plans, silent : BOOLEAN]
         /\ run'[w].todo = t /\ run'[w].job = run[w].job /\ run'[w].silent = run[w].silent
         /\ OnDuty(w)'
<1>1. /\ run[w] \in [job : 1 .. Len(queued), todo : Plans, silent : BOOLEAN]
      /\ run = [q \in StageWorkers |-> run[q]] /\ Len(queued) \in Nat
  BY AtWork DEF StagesInv, RunsOK, StagesTypeOK
<1>2. run'[w] = [run[w] EXCEPT !.todo = t]
  BY <1>1 DEF Goes
<1>3. run' = [run EXCEPT ![w] = run'[w]]
  BY <1>1, <1>2 DEF Goes
<1> QED BY <1>1, <1>2, <1>3 DEF OnDuty, OffDuty

(* What a write of a plan owes to the writes before and after it.          *)
LEMMA ProceedWrites ==
  ASSUME StagesInv, NEW w \in StageWorkers, OnDuty(w), Proceed(w),
         NEW h, h = Head(run[w].todo), h \notin {"ack", "retry", "read", "draft"},
         UNCHANGED <<pipelineMode, queued, desk, asked>>, stageFaults' \in 0 .. MaxStageFaults,
         paper' \in PaperRows, paper'.kind = paper.kind, missed \subseteq missed',
         paper.draft # "none" => paper'.draft # "none",
         paper.reason => paper'.reason, paper.rows => paper'.rows,
         Grounds',
         h = "ensure" => paper'.draft # "none",
         h = "reason" => paper'.reason \/ "reason" \in missed',
         memoized' = memoized \/ (memoized' = memoized + 1 /\ h = "vendor"),
         h \in {"ready", "final", "hand", "pass", "attention"} => Told',
         h = "vendor" /\ Told => Told',
         Lacking' => (Lacking \/ h = "transcribe") /\ h \notin {"match", "pass"},
         paper'.suggested => paper.suggested \/ h = "suggest",
         TextToCome /\ h = "match" => paper'.rows \/ missed' \cap {"early", "rows"} # {}
  PROVE  Writes(w)
<1> DEFINE t == run[w].todo
           n == Tail(t)
<1>1. run[w] \in [job : 1 .. Len(queued), todo : Plans, silent : BOOLEAN] /\ t \in Plans /\ Fits(w)
  BY AtWork
<1>2. /\ n \in Plans /\ t # ToAck /\ n # ToNote
      /\ n \in ToTranscribe => t \in ToTranscribe
      /\ n \in ToMatch \cup {ToSuggest} => t \in ToMatch
      /\ n \in ToFill \cup {ToRead, ToEnsure, ToCount} => t \in ToFill \cup {ToEnsure}
      /\ n \in ToFill \cup ToFinal => t \in ToFill \cup ToFinal \/ h = "ensure"
      /\ Head(n) = "attention" => h = "reason"
      /\ n = ToSuggest => h = "match"
      /\ n \in {ToCount, ToAck} =>
            h \in {"ready", "final", "hand", "pass", "attention", "vendor"}
      /\ n = ToRetry => h = "attention" \/ t = ToNote
      /\ h = "transcribe" => n = ToPass /\ t \in ToTranscribe
      /\ h = "vendor" => n = ToAck /\ t = ToCount
      /\ h = "suggest" => t = ToSuggest
  BY <1>1, PlansGoOn
<1>3. t \in Storing /\ h \notin {"match", "transcribe"} => n \in Storing
  BY StoringGoesOn
<1>4. t = ToPass => h = "pass"
  BY SingleHeads
<1>5. /\ run' = [run EXCEPT ![w] = run'[w]]
      /\ run'[w] \in [job : {run[w].job}, todo : Plans, silent : BOOLEAN]
      /\ run'[w].todo = n /\ run'[w].job = run[w].job /\ run'[w].silent = run[w].silent
      /\ OnDuty(w)'
  BY <1>2, TurnsTo DEF Proceed
<1> HIDE DEF t, n
<1>6. StageOf(w)' = StageOf(w)
  BY <1>5 DEF StageOf
<1>7. Fits(w)'
  BY <1>1, <1>2, <1>5, <1>6 DEF Fits, t
<1>8. NothingNew(w) \/ h = "match"
  BY <1>2, <1>5 DEF NothingNew, PastMatch, t
<1>9. Told' \/ Owes(w)' \/ (~ Owes(w) /\ (Told => Told'))
  <2>1. CASE n \in {ToCount, ToAck}
    BY <1>2, <2>1 DEF Owes, t
  <2>2. CASE n = ToRetry
    <3>1. CASE t = ToNote
      BY <1>1, <1>2, <1>5, <2>2, <3>1, SingleHeads DEF Owes, Fits, t
    <3> QED BY <1>2, <2>2, <3>1
  <2> QED BY <1>5, <2>1, <2>2 DEF Owes
<1>10. ASSUME Lacking' PROVE Stores(w)' \/ (Lacking /\ ~ Stores(w) /\ NothingNew(w))
  <2>1. CASE h = "transcribe"
    BY <1>1, <1>2, <1>5, <1>6, <2>1 DEF Stores, Fits, t
  <2>2. CASE h # "transcribe"
    BY <1>3, <1>4, <1>5, <1>6, <1>8, <1>10, <2>2 DEF Stores, t
  <2> QED BY <2>1, <2>2
<1>11. memoized' = memoized \/ (memoized' = memoized + 1 /\ StageOf(w) # "draft" /\ run'[w].todo = ToAck)
  BY <1>1, <1>2, <1>5 DEF Fits, t
<1>12. TextToCome => NothingNew(w) \/ paper'.rows \/ missed' \cap {"early", "rows"} # {}
  BY <1>8
<1> QED BY <1>2, <1>5, <1>7, <1>9, <1>10, <1>11, <1>12 DEF Writes, t
(* The status of a document at work.                                       *)
LEMMA MarkProcessingWrites ==
  ASSUME StagesInv, NEW w \in StageWorkers, MarkProcessing(w) PROVE Writes(w)
<1> DEFINE h == Head(run[w].todo)
<1>1. OnDuty(w) /\ h \in {"mark", "begin"} /\ Proceed(w)
  BY DEF MarkProcessing, Doing, OnDuty, Wrote
<1>2. UNCHANGED <<pipelineMode, queued, desk, asked, stageFaults, memoized, missed>>
  BY DEF MarkProcessing, Wrote
<1>3. paper' = [paper EXCEPT !.status = "processing"]
  BY DEF MarkProcessing, Wrote
<1>4. paper \in PaperRows /\ Grounds /\ stageFaults \in 0 .. MaxStageFaults /\ run[w].todo \in Plans /\ Fits(w)
  BY <1>1, AtWork DEF StagesInv, StagesTypeOK
<1> HIDE DEF h
<1>6. paper' \in PaperRows /\ Grounds'
  BY <1>2, <1>3, <1>4 DEF PaperRows, Grounds
<1>7. h \in {"ready", "final", "attention"} => Told'
  BY <1>1, <1>3, <1>4 DEF Told, Judged, PaperRows
<1>8. Lacking' => Lacking \/ h = "transcribe"
  BY <1>1, <1>2, <1>3, <1>4 DEF Lacking, PaperRows
<1> QED BY <1>1, <1>2, <1>3, <1>4, <1>6, <1>7, <1>8, ProceedWrites DEF h, PaperRows

(* The text that OCR finds.                                                *)
LEMMA TranscribeWrites ==
  ASSUME StagesInv, NEW w \in StageWorkers, Transcribe(w) PROVE Writes(w)
<1> DEFINE h == Head(run[w].todo)
<1>1. OnDuty(w) /\ h = "transcribe" /\ Proceed(w)
  BY DEF Transcribe, Doing, OnDuty, Wrote
<1>2. UNCHANGED <<pipelineMode, queued, desk, asked, stageFaults, memoized, missed>>
  BY DEF Transcribe, Wrote
<1>3. \E s \in {"blank", "text"} : paper' = [paper EXCEPT !.text = s]
  BY DEF Transcribe, Wrote
<1>4. paper \in PaperRows /\ Grounds /\ stageFaults \in 0 .. MaxStageFaults /\ run[w].todo \in Plans /\ Fits(w)
  BY <1>1, AtWork DEF StagesInv, StagesTypeOK
<1> HIDE DEF h
<1>6. paper' \in PaperRows /\ Grounds'
  BY <1>2, <1>3, <1>4 DEF PaperRows, Grounds
<1>7. h \in {"ready", "final", "attention"} => Told'
  BY <1>1, <1>3, <1>4 DEF Told, Judged, PaperRows
<1>8. Lacking' => Lacking \/ h = "transcribe"
  BY <1>1, <1>2, <1>3, <1>4 DEF Lacking, PaperRows
<1> QED BY <1>1, <1>2, <1>3, <1>4, <1>6, <1>7, <1>8, ProceedWrites DEF h, PaperRows

(* The draft of a receipt.                                                 *)
LEMMA EnsureDraftWrites ==
  ASSUME StagesInv, NEW w \in StageWorkers, EnsureDraft(w) PROVE Writes(w)
<1> DEFINE h == Head(run[w].todo)
<1>1. OnDuty(w) /\ h = "ensure" /\ Proceed(w)
  BY DEF EnsureDraft, Doing, OnDuty, Wrote
<1>2. UNCHANGED <<pipelineMode, queued, desk, asked, stageFaults, memoized, missed>>
  BY DEF EnsureDraft, Wrote
<1>3. paper' = [paper EXCEPT !.draft = IF @ = "none" THEN "empty" ELSE @]
  BY DEF EnsureDraft, Wrote
<1>4. paper \in PaperRows /\ Grounds /\ stageFaults \in 0 .. MaxStageFaults /\ run[w].todo \in Plans /\ Fits(w)
  BY <1>1, AtWork DEF StagesInv, StagesTypeOK
<1> HIDE DEF h
<1>6. paper' \in PaperRows /\ Grounds'
  BY <1>2, <1>3, <1>4 DEF PaperRows, Grounds
<1>7. h \in {"ready", "final", "attention"} => Told'
  BY <1>1, <1>3, <1>4 DEF Told, Judged, PaperRows
<1>8. Lacking' => Lacking \/ h = "transcribe"
  BY <1>1, <1>2, <1>3, <1>4 DEF Lacking, PaperRows
<1> QED BY <1>1, <1>2, <1>3, <1>4, <1>6, <1>7, <1>8, ProceedWrites DEF h, PaperRows

(* The entries of the draft.                                               *)
LEMMA FillDraftWrites ==
  ASSUME StagesInv, NEW w \in StageWorkers, FillDraft(w) PROVE Writes(w)
<1> DEFINE h == Head(run[w].todo)
<1>1. OnDuty(w) /\ h = "fill" /\ Proceed(w)
  BY DEF FillDraft, Doing, OnDuty, Wrote
<1>2. UNCHANGED <<pipelineMode, queued, desk, asked, stageFaults, memoized, missed>>
  BY DEF FillDraft, Wrote
<1>3. paper' = [paper EXCEPT !.draft = "filled"]
  BY DEF FillDraft, Wrote
<1>4. paper \in PaperRows /\ Grounds /\ stageFaults \in 0 .. MaxStageFaults /\ run[w].todo \in Plans /\ Fits(w)
  BY <1>1, AtWork DEF StagesInv, StagesTypeOK
<1> HIDE DEF h
<1>6. paper' \in PaperRows /\ Grounds'
  BY <1>2, <1>3, <1>4 DEF PaperRows, Grounds
<1>7. h \in {"ready", "final", "attention"} => Told'
  BY <1>1, <1>3, <1>4 DEF Told, Judged, PaperRows
<1>8. Lacking' => Lacking \/ h = "transcribe"
  BY <1>1, <1>2, <1>3, <1>4 DEF Lacking, PaperRows
<1> QED BY <1>1, <1>2, <1>3, <1>4, <1>6, <1>7, <1>8, ProceedWrites DEF h, PaperRows

(* A document is ready only with a draft.                                  *)
LEMMA MarkReadyWrites ==
  ASSUME StagesInv, NEW w \in StageWorkers, MarkReady(w) PROVE Writes(w)
<1> DEFINE h == Head(run[w].todo)
<1>1. OnDuty(w) /\ h \in {"ready", "final"} /\ Proceed(w)
  BY DEF MarkReady, Doing, OnDuty, Wrote
<1>2. UNCHANGED <<pipelineMode, queued, desk, asked, stageFaults, memoized, missed>>
  BY DEF MarkReady, Wrote
<1>3. paper' = [paper EXCEPT !.status = "ready_for_review"]
  BY DEF MarkReady, Wrote
<1>4. paper \in PaperRows /\ Grounds /\ stageFaults \in 0 .. MaxStageFaults /\ run[w].todo \in Plans /\ Fits(w)
  BY <1>1, AtWork DEF StagesInv, StagesTypeOK
<1>5. paper.draft # "none"
  BY <1>1, <1>4, PlanHeads DEF Fits
<1> HIDE DEF h
<1>6. paper' \in PaperRows /\ Grounds'
  BY <1>2, <1>3, <1>4, <1>5 DEF PaperRows, Grounds
<1>7. h \in {"ready", "final", "attention"} => Told'
  BY <1>1, <1>3, <1>4 DEF Told, Judged, PaperRows
<1>8. Lacking' => Lacking \/ h = "transcribe"
  BY <1>1, <1>2, <1>3, <1>4 DEF Lacking, PaperRows
<1> QED BY <1>1, <1>2, <1>3, <1>4, <1>6, <1>7, <1>8, ProceedWrites DEF h, PaperRows

(* The reason of an error.                                                 *)
LEMMA RecordReasonWrites ==
  ASSUME StagesInv, NEW w \in StageWorkers, RecordReason(w) PROVE Writes(w)
<1> DEFINE h == Head(run[w].todo)
<1>1. OnDuty(w) /\ h = "reason" /\ Proceed(w)
  BY DEF RecordReason, Doing, OnDuty, Wrote
<1>2. UNCHANGED <<pipelineMode, queued, desk, asked, stageFaults, memoized, missed>>
  BY DEF RecordReason, Wrote
<1>3. paper' = [paper EXCEPT !.reason = TRUE]
  BY DEF RecordReason, Wrote
<1>4. paper \in PaperRows /\ Grounds /\ stageFaults \in 0 .. MaxStageFaults /\ run[w].todo \in Plans /\ Fits(w)
  BY <1>1, AtWork DEF StagesInv, StagesTypeOK
<1> HIDE DEF h
<1>6. paper' \in PaperRows /\ Grounds'
  BY <1>2, <1>3, <1>4 DEF PaperRows, Grounds
<1>7. h \in {"ready", "final", "attention"} => Told'
  BY <1>1, <1>3, <1>4 DEF Told, Judged, PaperRows
<1>8. Lacking' => Lacking \/ h = "transcribe"
  BY <1>1, <1>2, <1>3, <1>4 DEF Lacking, PaperRows
<1> QED BY <1>1, <1>2, <1>3, <1>4, <1>6, <1>7, <1>8, ProceedWrites DEF h, PaperRows

(* A document wants attention only with a reason, or one that was lost.    *)
LEMMA MarkAttentionWrites ==
  ASSUME StagesInv, NEW w \in StageWorkers, MarkAttention(w) PROVE Writes(w)
<1> DEFINE h == Head(run[w].todo)
<1>1. OnDuty(w) /\ h = "attention" /\ Proceed(w)
  BY DEF MarkAttention, Doing, OnDuty, Wrote
<1>2. UNCHANGED <<pipelineMode, queued, desk, asked, stageFaults, memoized, missed>>
  BY DEF MarkAttention, Wrote
<1>3. paper' = [paper EXCEPT !.status = "needs_attention"]
  BY DEF MarkAttention, Wrote
<1>4. paper \in PaperRows /\ Grounds /\ stageFaults \in 0 .. MaxStageFaults /\ run[w].todo \in Plans /\ Fits(w)
  BY <1>1, AtWork DEF StagesInv, StagesTypeOK
<1>5. paper.reason \/ "reason" \in missed
  BY <1>1, <1>4 DEF Fits
<1> HIDE DEF h
<1>6. paper' \in PaperRows /\ Grounds'
  BY <1>2, <1>3, <1>4, <1>5 DEF PaperRows, Grounds
<1>7. h \in {"ready", "final", "attention"} => Told'
  BY <1>1, <1>3, <1>4 DEF Told, Judged, PaperRows
<1>8. Lacking' => Lacking \/ h = "transcribe"
  BY <1>1, <1>2, <1>3, <1>4 DEF Lacking, PaperRows
<1> QED BY <1>1, <1>2, <1>3, <1>4, <1>6, <1>7, <1>8, ProceedWrites DEF h, PaperRows

(* Only the legacy mode makes suggestions here.                            *)
LEMMA CreateSuggestionWrites ==
  ASSUME StagesInv, NEW w \in StageWorkers, CreateSuggestion(w) PROVE Writes(w)
<1> DEFINE h == Head(run[w].todo)
<1>1. OnDuty(w) /\ h = "suggest" /\ Proceed(w)
  BY DEF CreateSuggestion, Doing, OnDuty, Wrote
<1>2. UNCHANGED <<pipelineMode, queued, desk, asked, stageFaults, memoized, missed>>
  BY DEF CreateSuggestion, Wrote
<1>3. paper' = [paper EXCEPT !.suggested = TRUE]
  BY DEF CreateSuggestion, Wrote
<1>4. paper \in PaperRows /\ Grounds /\ stageFaults \in 0 .. MaxStageFaults /\ run[w].todo \in Plans /\ Fits(w)
  BY <1>1, AtWork DEF StagesInv, StagesTypeOK
<1>5. pipelineMode = "legacy"
  BY <1>1, <1>4, PlanHeads DEF Fits
<1> HIDE DEF h
<1>6. paper' \in PaperRows /\ Grounds'
  BY <1>2, <1>3, <1>4, <1>5 DEF PaperRows, Grounds
<1>7. h \in {"ready", "final", "attention"} => Told'
  BY <1>1, <1>3, <1>4 DEF Told, Judged, PaperRows
<1>8. Lacking' => Lacking \/ h = "transcribe"
  BY <1>1, <1>2, <1>3, <1>4 DEF Lacking, PaperRows
<1> QED BY <1>1, <1>2, <1>3, <1>4, <1>6, <1>7, <1>8, ProceedWrites DEF h, PaperRows

(* The rows of an import are stored, or its missing text is noticed.       *)
LEMMA MatchRulesWrites ==
  ASSUME StagesInv, NEW w \in StageWorkers, MatchRules(w) PROVE Writes(w)
<1> DEFINE h == Head(run[w].todo)
           hasText == paper.kind # "receipt" /\ paper.text = "text"
<1>1. OnDuty(w) /\ h = "match" /\ Proceed(w)
  BY DEF MatchRules, Doing, OnDuty
<1>2. /\ UNCHANGED <<pipelineMode, queued, desk, asked, stageFaults, memoized>>
      /\ paper' = [paper EXCEPT !.rows = paper.rows \/ hasText]
      /\ missed' = IF paper.kind = "csv" /\ desk # AtRest /\ ~ hasText
                   THEN missed \cup {"early"} ELSE missed
  BY DEF MatchRules
<1>3. paper \in PaperRows /\ Grounds /\ stageFaults \in 0 .. MaxStageFaults
  BY DEF StagesInv, StagesTypeOK
<1>4. TextToCome => paper.kind = "csv" /\ desk # AtRest
  BY DEF StagesInv, TextNoticed, TextToCome, ThenText, LastText, AtRest
<1> HIDE DEF h
<1>5. paper' \in PaperRows /\ paper'.kind = paper.kind /\ paper'.text = paper.text
      /\ paper'.rows = (paper.rows \/ hasText) /\ paper'.draft = paper.draft
      /\ paper'.reason = paper.reason /\ paper'.suggested = paper.suggested
      /\ paper'.status = paper.status
  BY <1>2, <1>3 DEF PaperRows
<1>6. missed \subseteq missed' /\ Grounds'
  BY <1>2, <1>3, <1>5 DEF Grounds
<1>7. ~ Lacking'
  BY <1>5 DEF Lacking
<1>8. TextToCome => paper'.rows \/ missed' \cap {"early", "rows"} # {}
  BY <1>2, <1>4, <1>5
<1> HIDE DEF hasText
<1> QED BY <1>1, <1>2, <1>3, <1>5, <1>6, <1>7, <1>8, ProceedWrites DEF h

(* A document handed over is pending, unless the batches had finished with *)
(* it.                                                                     *)
LEMMA HandOverWrites ==
  ASSUME StagesInv, NEW w \in StageWorkers, HandOver(w) PROVE Writes(w)
<1> DEFINE h == Head(run[w].todo)
<1>1. OnDuty(w) /\ h = "hand" /\ Proceed(w)
  BY DEF HandOver, Doing, OnDuty
<1>2. /\ UNCHANGED <<pipelineMode, queued, desk, asked, stageFaults, memoized>>
      /\ paper' = [paper EXCEPT !.state = IF paper.state = "none" THEN "pending" ELSE paper.state]
      /\ missed' = IF paper.state = "finished" THEN missed \cup {"hand"} ELSE missed
  BY DEF HandOver
<1>3. paper \in PaperRows /\ Grounds /\ stageFaults \in 0 .. MaxStageFaults
  BY DEF StagesInv, StagesTypeOK
<1> HIDE DEF h
<1>4. paper' \in PaperRows
  <2>1. (IF paper.state = "none" THEN "pending" ELSE paper.state) \in {"none", "pending", "finished"}
    BY <1>3 DEF PaperRows
  <2> QED BY <1>2, <1>3, <2>1 DEF PaperRows
<1>5. paper'.state = (IF paper.state = "none" THEN "pending" ELSE paper.state)
  BY <1>2, <1>3 DEF PaperRows
<1>6. missed \subseteq missed' /\ Told'
  BY <1>2, <1>3, <1>5 DEF Told, PaperRows
<1>7. Grounds' /\ (Lacking' => Lacking)
  BY <1>2, <1>3, <1>6 DEF Grounds, Lacking, PaperRows
<1> QED BY <1>1, <1>2, <1>3, <1>4, <1>6, <1>7, ProceedWrites DEF h, PaperRows

(* A document is counted for its vendor by the last write of its plan.     *)
LEMMA CountVendorWrites ==
  ASSUME StagesInv, NEW w \in StageWorkers, CountVendor(w) PROVE Writes(w)
<1> DEFINE h == Head(run[w].todo)
<1>1. OnDuty(w) /\ h = "vendor" /\ Proceed(w)
  BY DEF CountVendor, Doing, OnDuty
<1>2. /\ UNCHANGED <<pipelineMode, paper, queued, desk, asked, stageFaults, missed>>
      /\ memoized' = memoized + 1
  BY DEF CountVendor
<1>3. paper \in PaperRows /\ Grounds /\ stageFaults \in 0 .. MaxStageFaults
  BY DEF StagesInv, StagesTypeOK
<1> HIDE DEF h
<1>4. /\ Grounds' = Grounds /\ Lacking' = Lacking /\ Told' = Told
  BY <1>2 DEF Grounds, Lacking, Told, Judged
<1> QED BY <1>1, <1>2, <1>3, <1>4, ProceedWrites DEF h

(* A write that is lost is missed.                                         *)
LEMMA WriteLostWrites ==
  ASSUME StagesInv, NEW w \in StageWorkers, WriteLost(w) PROVE Writes(w)
<1> DEFINE h == Head(run[w].todo)
<1>1. /\ OnDuty(w) /\ Proceed(w)
      /\ h \in {"begin", "reason", "attention", "ready", "vendor", "pass"}
  BY DEF WriteLost, OnDuty
<1>2. /\ UNCHANGED <<pipelineMode, paper, queued, desk, asked, memoized>>
      /\ stageFaults' = stageFaults + 1 /\ stageFaults < MaxStageFaults
      /\ missed' = missed \cup ({h} \ {"begin", "vendor"}) \cup (IF h = "pass" THEN Rows ELSE {})
  BY DEF WriteLost
<1>3. paper \in PaperRows /\ Grounds /\ stageFaults \in 0 .. MaxStageFaults
  BY DEF StagesInv, StagesTypeOK
<1>4. stageFaults' \in 0 .. MaxStageFaults
  BY <1>2, <1>3, StageConstants
<1> HIDE DEF h
<1>5. missed \subseteq missed' /\ (h \notin {"begin", "vendor"} => h \in missed')
  BY <1>2
<1>6. Grounds' /\ (Lacking' => Lacking) /\ (Told => Told')
  BY <1>2, <1>3, <1>5 DEF Grounds, Lacking, Told, Judged
<1>7. h \in {"attention", "ready", "pass"} => Told'
  BY <1>5 DEF Told
<1>8. h = "pass" => ~ Lacking'
  BY <1>2 DEF Lacking, Rows
<1> QED BY <1>1, <1>2, <1>3, <1>4, <1>5, <1>6, <1>7, <1>8, ProceedWrites DEF h

(* A sequence of two, and one more.                                        *)
LEMMA TwoAndOne ==
  ASSUME NEW a, NEW b, NEW c PROVE <<a, b>> \o <<c>> = <<a, b, c>>
<1> DEFINE S == {a, b, c}
           y == <<a, b>> \o <<c>>
           z == <<a, b, c>>
<1>1. y \in Seq(S) /\ Len(y) = 3 /\ z \in Seq(S) /\ Len(z) = 3
  OBVIOUS
<1>2. /\ y[1] = a /\ y[2] = b /\ y[3] = c
      /\ z[1] = a /\ z[2] = b /\ z[3] = c
  OBVIOUS
<1> HIDE DEF S, y, z
<1>3. \A i \in 1 .. Len(y) : y[i] = z[i]
  BY <1>1, <1>2
<1>4. y = z
  BY <1>1, <1>3, SeqEqual
<1> QED BY <1>4 DEF y, z

(* The plans that the choices and the failures of a stage turn to.         *)
LEMMA OtherPlans ==
  /\ pipelinePark \o <<"ack">> \in ToPark /\ Head(pipelinePark \o <<"ack">>) = "reason"
  /\ pipelinePark \o <<"retry">> \in ToBlame /\ Head(pipelinePark \o <<"retry">>) = "reason"
  /\ <<"reason", "retry">> = ToNote /\ <<"retry">> = ToRetry
  /\ <<"ensure", "fill", "ready", "vendor", "ack">> = ToEnsure
  /\ {<<"final", "ack">>, <<"fill", "final", "ack">>} \subseteq ToFinal
<1>1. pipelinePark \o <<"ack">> = <<"reason", "attention", "ack">>
  BY TwoAndOne DEF pipelinePark
<1>2. pipelinePark \o <<"retry">> = <<"reason", "attention", "retry">>
  BY TwoAndOne DEF pipelinePark
<1>3. /\ <<"reason", "attention", "ack">> \in ToPark
      /\ <<"reason", "attention", "retry">> \in ToBlame
  BY DEF ToPark, ToBlame
<1>4. /\ Head(<<"reason", "attention", "ack">>) = "reason"
      /\ Head(<<"reason", "attention", "retry">>) = "reason"
  BY Tails
<1>5. /\ <<"reason", "retry">> = ToNote /\ <<"retry">> = ToRetry
      /\ <<"ensure", "fill", "ready", "vendor", "ack">> = ToEnsure
      /\ {<<"final", "ack">>, <<"fill", "final", "ack">>} \subseteq ToFinal
  BY DEF ToNote, ToRetry, ToEnsure, ToFinal
<1> QED BY <1>1, <1>2, <1>3, <1>4, <1>5

(* What turning to another plan owes.                                      *)
LEMMA TurnWrites ==
  ASSUME StagesInv, NEW w \in StageWorkers, OnDuty(w), run[w].todo # ToAck,
         NEW t \in Plans, t \notin {ToCount, ToAck, ToSuggest}, NEW b \in BOOLEAN,
         run' = [run EXCEPT ![w] = run'[w]],
         run'[w] = [job |-> run[w].job, todo |-> t, silent |-> b],
         t \in {ToNote, ToRetry} => b,
         UNCHANGED <<pipelineMode, paper, queued, desk, asked, memoized, missed>>,
         stageFaults' \in 0 .. MaxStageFaults,
         Head(t) # "attention",
         t \in ToFill \cup ToFinal => run[w].todo \in ToFill \cup ToFinal,
         t \notin ToTranscribe \cup ToMatch \cup ToFill \cup {ToRead},
         t = ToEnsure => run[w].todo = ToRead,
         Stores(w) => t \in Storing
  PROVE  Writes(w)
<1>1. /\ run[w] \in [job : 1 .. Len(queued), todo : Plans, silent : BOOLEAN] /\ Fits(w)
      /\ run = [q \in StageWorkers |-> run[q]] /\ Len(queued) \in Nat
      /\ paper \in PaperRows /\ Grounds
  BY AtWork DEF StagesInv, RunsOK, StagesTypeOK
<1>3. /\ run'[w] \in [job : {run[w].job}, todo : Plans, silent : BOOLEAN]
      /\ run'[w].todo = t /\ run'[w].job = run[w].job /\ run'[w].silent = b
      /\ OnDuty(w)'
  BY <1>1 DEF OnDuty, OffDuty
<1>5. StageOf(w)' = StageOf(w)
  BY <1>3 DEF StageOf
<1>6. Fits(w)'
  BY <1>1, <1>3, <1>5 DEF Fits
<1>7. Owes(w)'
  BY <1>3 DEF Owes
<1>8. Grounds' /\ (Lacking' => Lacking) /\ NothingNew(w)
  BY <1>1, <1>3 DEF Grounds, Lacking, NothingNew, PastMatch
<1>9. Stores(w) => Stores(w)'
  BY <1>3, <1>5 DEF Stores
<1> QED BY <1>1, <1>3, <1>6, <1>7, <1>8, <1>9 DEF Writes

(* The pipeline parks a document, or drafts it.                            *)
LEMMA RunPipelineWrites ==
  ASSUME StagesInv, NEW w \in StageWorkers, runPipeline(w) PROVE Writes(w)
<1>1. OnDuty(w) /\ Head(run[w].todo) = "read"
  BY DEF runPipeline, Doing, OnDuty
<1>2. /\ UNCHANGED <<pipelineMode, paper, queued, desk, asked, stageFaults, memoized, missed>>
      /\ stageFaults \in 0 .. MaxStageFaults
  BY DEF runPipeline, StagesInv, StagesTypeOK
<1>3. run[w].todo = ToRead /\ run[w].silent \in BOOLEAN
  BY <1>1, AtWork, PlanHeads
<1>4. ~ Stores(w) /\ run[w].todo # ToAck
  BY <1>1, <1>3, PlanKinds, SingleHeads DEF Stores, Plans
<1>5. PICK t \in ToPark \cup {ToEnsure} : Goes(w, t) /\ Head(t) \in {"reason", "ensure"}
  BY OtherPlans, SingleHeads DEF runPipeline
<1>6. /\ t \in Plans
      /\ t \notin {ToCount, ToAck, ToSuggest, ToNote, ToRetry, ToRead}
      /\ t \notin ToTranscribe \cup ToMatch \cup ToFill \cup ToFinal
  <2>1. CASE t = ToEnsure
    BY <2>1, GroupHeads, GroupsApart, SingleHeads DEF Plans
  <2>2. CASE t \in ToPark
    <3>1. Head(Tail(t)) = "attention"
      BY <1>5, <2>2, ToParkHeads
    <3>2. t # ToNote
      BY <3>1, SingleHeads
    <3> QED BY <1>5, <2>2, <3>2, GroupHeads, SingleHeads DEF Plans
  <2> QED BY <1>5, <2>1, <2>2
<1>7. /\ run' = [run EXCEPT ![w] = run'[w]]
      /\ run'[w] = [job |-> run[w].job, todo |-> t, silent |-> run[w].silent]
  BY <1>1, <1>5, <1>6, TurnsTo
<1> QED BY <1>1, <1>2, <1>3, <1>4, <1>5, <1>6, <1>7, TurnWrites

(* A draft gets its entries and its status, or only its status.            *)
LEMMA RunDraftWrites ==
  ASSUME StagesInv, NEW w \in StageWorkers, runDraft(w) PROVE Writes(w)
<1>1. OnDuty(w) /\ Head(run[w].todo) = "draft"
  BY DEF runDraft, Doing, OnDuty
<1>2. /\ UNCHANGED <<pipelineMode, paper, queued, desk, asked, stageFaults, memoized, missed>>
      /\ stageFaults \in 0 .. MaxStageFaults
  BY DEF runDraft, StagesInv, StagesTypeOK
<1>3. run[w].todo \in ToFinal /\ run[w].silent \in BOOLEAN
  BY <1>1, AtWork, PlanHeads
<1>4. ~ Stores(w) /\ run[w].todo # ToAck
  BY <1>1, <1>3, PlanKinds, SingleHeads DEF Stores, Plans
<1>5. PICK t \in ToFinal : Goes(w, t)
  BY OtherPlans DEF runDraft
<1>6. /\ t \in Plans
      /\ t \notin {ToCount, ToAck, ToSuggest, ToNote, ToRetry, ToRead, ToEnsure}
      /\ t \notin ToTranscribe \cup ToMatch \cup ToFill
      /\ Head(t) # "attention"
  BY GroupHeads, GroupsApart DEF Plans
<1>7. /\ run' = [run EXCEPT ![w] = run'[w]]
      /\ run'[w] = [job |-> run[w].job, todo |-> t, silent |-> run[w].silent]
  BY <1>1, <1>5, <1>6, TurnsTo
<1> QED BY <1>1, <1>2, <1>3, <1>4, <1>6, <1>7, TurnWrites

(* A step that fails records why, or its retry is silent.                  *)
LEMMA StepFailsWrites ==
  ASSUME StagesInv, NEW w \in StageWorkers, StepFails(w) PROVE Writes(w)
<1> DEFINE h == Head(run[w].todo)
           b == h \notin {"transcribe", "fill", "suggest"}
           t == OnFailure(h)
<1>1. /\ OnDuty(w)
      /\ h \notin {"begin", "reason", "attention", "ready", "vendor", "pass", "ack", "retry"}
      /\ run' = [run EXCEPT ![w].todo = t, ![w].silent = b]
  BY DEF StepFails, OnDuty
<1>2. /\ UNCHANGED <<pipelineMode, paper, queued, desk, asked, memoized, missed>>
      /\ stageFaults' \in 0 .. MaxStageFaults
  BY StageConstants DEF StepFails, StagesInv, StagesTypeOK
<1>3. /\ run[w] \in [job : 1 .. Len(queued), todo : Plans, silent : BOOLEAN]
      /\ run = [q \in StageWorkers |-> run[q]]
  BY <1>1, AtWork DEF StagesInv, RunsOK
<1>4. /\ run'[w] = [job |-> run[w].job, todo |-> t, silent |-> b]
      /\ run' = [run EXCEPT ![w] = run'[w]]
  BY <1>1, <1>3
<1>5. h \in {"mark", "transcribe", "ensure", "match", "suggest", "fill", "final", "draft", "read", "hand"}
  BY <1>1, <1>3, AllHeads
<1>6. \/ ~ b /\ t \in ToBlame /\ Head(t) = "reason" /\ Head(Tail(t)) = "attention"
      \/ b /\ t = ToNote /\ h = "final"
      \/ b /\ t = ToRetry
  BY <1>5, OtherPlans, ToBlameHeads DEF OnFailure
<1> HIDE DEF t, b, h
<1>7. /\ t \in Plans
      /\ t \notin {ToCount, ToAck, ToSuggest, ToRead, ToEnsure}
      /\ t \notin ToTranscribe \cup ToMatch \cup ToFill \cup ToFinal
      /\ Head(t) # "attention"
      /\ t \in {ToNote, ToRetry} => b
  BY <1>6, GroupHeads, SingleHeads DEF Plans
<1>8. run[w].todo # ToAck
  BY <1>5, SingleHeads DEF h
<1>9. Stores(w) => t \in Storing
  <2>1. CASE h = "final"
    BY <1>3, <2>1, PlanKinds, SingleHeads DEF Stores, h
  <2>2. CASE h # "final"
    BY <1>6, <2>2 DEF Storing
  <2> QED BY <2>1, <2>2
<1>10. b \in BOOLEAN
  BY DEF b
<1> QED BY <1>1, <1>2, <1>4, <1>7, <1>8, <1>9, <1>10, TurnWrites
-----------------------------------------------------------------------------
(* The queue and the desk.                                                 *)

(* What is counted is finite.                                              *)
LEMMA Tallied ==
  ASSUME StagesInv
  PROVE  /\ EarlyJobs \in SUBSET (1 .. Len(queued)) /\ Len(queued) \in Nat
         /\ IsFiniteSet(EarlyJobs) /\ Cardinality(EarlyJobs) \in Nat
         /\ IsFiniteSet(Counting) /\ Cardinality(Counting) \in Nat
         /\ memoized \in Nat /\ asked \in Nat
         /\ Owed <= asked
<1>1. EarlyJobs \in SUBSET (1 .. Len(queued)) /\ Len(queued) \in Nat
  BY DEF EarlyJobs, StageClaimable, StagesInv, StagesTypeOK
<1>2. IsFiniteSet(EarlyJobs) /\ Cardinality(EarlyJobs) \in Nat
  BY <1>1, SomeNumbers
<1>3. IsFiniteSet(Counting) /\ Cardinality(Counting) \in Nat
  BY FS_CardinalityType DEF StagesInv, AskedFor
<1> QED BY <1>1, <1>2, <1>3 DEF StagesInv, StagesTypeOK, AskedFor

(* A step of no worker leaves each at what it was doing.                   *)
LEMMA WorkersStay ==
  ASSUME StagesInv, run' = run, pipelineMode' = pipelineMode,
         Len(queued') \in Nat, Len(queued) <= Len(queued'),
         \A j \in 1 .. Len(queued) : queued'[j].stage = queued[j].stage,
         paper.draft # "none" => paper'.draft # "none",
         paper.reason \/ "reason" \in missed => paper'.reason \/ "reason" \in missed'
  PROVE  /\ RunsOK' /\ PlansFit' /\ Counting' = Counting
         /\ \A q \in StageWorkers : /\ OnDuty(q)' = OnDuty(q) /\ Owes(q)' = Owes(q)
                                    /\ Stores(q)' = Stores(q) /\ PastMatch(q)' = PastMatch(q)
         /\ paper'.suggested = paper.suggested => Suggesting' = Suggesting
<1>1. Len(queued) \in Nat
  BY DEF StagesInv, StagesTypeOK
<1>2. ASSUME NEW q \in StageWorkers
      PROVE  /\ OnDuty(q)' = OnDuty(q) /\ PastMatch(q)' = PastMatch(q)
             /\ OnDuty(q) => StageOf(q)' = StageOf(q)
  <2>1. OnDuty(q)' = OnDuty(q)
    BY DEF OnDuty
  <2>2. OnDuty(q) => run[q].job \in 1 .. Len(queued)
    BY DEF StagesInv, RunsOK
  <2> QED BY <2>1, <2>2 DEF PastMatch, StageOf
<1>3. ASSUME NEW q \in StageWorkers
      PROVE  Owes(q)' = Owes(q) /\ Stores(q)' = Stores(q)
  BY <1>2 DEF Owes, Stores
<1>4. RunsOK'
  <2>1. ASSUME NEW q \in StageWorkers, OnDuty(q)'
        PROVE  run'[q] \in [job : 1 .. Len(queued'), todo : Plans, silent : BOOLEAN]
    <3>1. run[q] \in [job : 1 .. Len(queued), todo : Plans, silent : BOOLEAN]
      BY <1>2, <2>1 DEF StagesInv, RunsOK
    <3>2. 1 .. Len(queued) \subseteq 1 .. Len(queued')
      BY <1>1
    <3> QED BY <3>1, <3>2
  <2> QED BY <2>1 DEF StagesInv, RunsOK
<1>5. PlansFit'
  <2>1. ASSUME NEW q \in StageWorkers, OnDuty(q)' PROVE Fits(q)'
    <3>1. Fits(q) /\ StageOf(q)' = StageOf(q)
      BY <1>2, <2>1 DEF StagesInv, PlansFit
    <3> QED BY <3>1 DEF Fits
  <2> QED BY <2>1 DEF PlansFit
<1>6. Counting' = Counting
  BY <1>2 DEF Counting
<1>7. paper'.suggested = paper.suggested => Suggesting' = Suggesting
  BY <1>2 DEF Suggesting
<1> QED BY <1>2, <1>3, <1>4, <1>5, <1>6, <1>7

(* A new job is claimable.                                                 *)
LEMMA NewJob ==
  ASSUME StagesInv, NEW s \in Stages, queued' = Enqueued(s), Len(queued) < MaxStageJobs
  PROVE  /\ queued' \in Seq(JobRows) /\ Len(queued') = Len(queued) + 1 /\ Len(queued') <= MaxStageJobs
         /\ \A j \in 1 .. Len(queued) : queued'[j] = queued[j]
         /\ StageClaimable' # {}
         /\ s # "draft" => EarlyJobs' # {}
         /\ EarlyJobs \subseteq EarlyJobs'
         /\ Cardinality(EarlyJobs') = Cardinality(EarlyJobs) + (IF s # "draft" THEN 1 ELSE 0)
<1> DEFINE n == Len(queued) + 1
           row == [stage |-> s, state |-> "queued", tries |-> 0]
<1>1. queued \in Seq(JobRows) /\ Len(queued) \in Nat /\ MaxStageJobs \in Nat
  BY StageConstants DEF StagesInv, StagesTypeOK
<1>2. row \in JobRows
  BY StageConstants DEF JobRows
<1>3. /\ queued' \in Seq(JobRows) /\ Len(queued') = n
      /\ \A j \in 1 .. Len(queued) : queued'[j] = queued[j]
      /\ queued'[n] = row
  BY <1>1, <1>2 DEF Enqueued
<1>4. StageClaimable' = StageClaimable \cup {n}
  <2>1. 1 .. Len(queued') = (1 .. Len(queued)) \cup {n} /\ 0 < MaxTries
    BY <1>1, <1>3, StageConstants
  <2> QED BY <1>3, <2>1 DEF StageClaimable
<1>5. EarlyJobs' = IF s # "draft" THEN EarlyJobs \cup {n} ELSE EarlyJobs
  <2>1. \A j \in StageClaimable : queued'[j].stage = queued[j].stage
    BY <1>3 DEF StageClaimable
  <2>2. queued'[n].stage = s
    BY <1>3
  <2> QED BY <1>4, <2>1, <2>2 DEF EarlyJobs
<1>6. n \notin EarlyJobs
  BY <1>1 DEF EarlyJobs, StageClaimable
<1>7. Cardinality(EarlyJobs') = Cardinality(EarlyJobs) + (IF s # "draft" THEN 1 ELSE 0)
  <2>1. Cardinality(EarlyJobs \cup {n}) = Cardinality(EarlyJobs) + 1
    BY <1>6, Tallied, FS_AddElement
  <2> QED BY <1>5, <2>1, Tallied
<1> HIDE DEF n, row
<1>8. /\ StageClaimable' # {} /\ EarlyJobs \subseteq EarlyJobs'
      /\ s # "draft" => EarlyJobs' # {}
  BY <1>4, <1>5
<1> QED BY <1>1, <1>3, <1>7, <1>8 DEF n

(* The statements of a request.                                            *)
LEMMA DeskHeads ==
  /\ ThenText # AtRest /\ Head(ThenText) = [do |-> "enqueue", stage |-> "suggest"]
  /\ Tail(ThenText) = LastText
  /\ LastText # AtRest /\ Head(LastText) = [do |-> "text", stage |-> "suggest"]
  /\ Tail(LastText) = AtRest
  /\ \A do, s : /\ OnlyJob(do, s) # AtRest /\ Head(OnlyJob(do, s)) = [do |-> do, stage |-> s]
                /\ Tail(OnlyJob(do, s)) = AtRest
BY Tails, SMT DEF ThenText, LastText, OnlyJob, AtRest

(* What an upload leaves to do.                                            *)
LEMMA UploadKeeps ==
  ASSUME StagesInv, paper.kind = "none", desk = AtRest, asked < MaxAsked, asked' = asked + 1,
         UNCHANGED <<pipelineMode, queued, run, stageFaults, memoized, missed>>,
         paper' \in PaperRows, paper'.kind \in Kinds, Grounds', ~ paper'.suggested,
         desk' \in {OnlyJob("enqueue", "ocr"), ThenText}, desk' = ThenText => paper'.kind = "csv"
  PROVE  StagesInv'
<1>1. queued = <<>> /\ \A w \in StageWorkers : ~ OnDuty(w)
  BY DEF StagesInv, Blank
<1>2. \A w \in StageWorkers : ~ OnDuty(w)'
  BY <1>1 DEF OnDuty
<1>3. StagesTypeOK'
  BY StageConstants DEF StagesInv, StagesTypeOK
<1>4. DeskOK' /\ AsksJob'
  BY DeskHeads DEF DeskOK, AsksJob, Stages
<1>5. RunsOK' /\ PlansFit' /\ Blank'
  BY <1>2 DEF StagesInv, RunsOK, PlansFit, Blank, Kinds
<1>6. ~ Suggesting'
  BY <1>2 DEF Suggesting, PastMatch
<1>7. Carried' /\ RowsCarried' /\ TextNoticed'
  BY <1>4, <1>6, DeskHeads DEF Carried, RowsCarried, TextNoticed, TextToCome
<1>8. AskedFor'
  <2>1. Counting = {} /\ Counting' = {}
    BY <1>1, <1>2 DEF Counting
  <2>2. EarlyJobs' = EarlyJobs
    BY DEF EarlyJobs, StageClaimable
  <2>3. ~ AsksJob
    BY DEF AsksJob
  <2> QED BY <1>4, <2>1, <2>2, <2>3, Tallied DEF StagesInv, AskedFor, Owed
<1> QED BY <1>3, <1>4, <1>5, <1>7, <1>8 DEF StagesInv

(* An upload is the first thing that happens: it asks for a job.           *)
LEMMA ReceiptUploadKeeps ==
  ASSUME StagesInv, handleReceiptUpload PROVE StagesInv'
<1>1. /\ paper.kind = "none" /\ desk = AtRest /\ asked < MaxAsked /\ asked' = asked + 1
      /\ desk' = OnlyJob("enqueue", "ocr")
      /\ paper' = [NoPaper EXCEPT !.kind = "receipt", !.status = "uploaded"]
      /\ UNCHANGED <<pipelineMode, queued, run, stageFaults, memoized, missed>>
  BY DEF handleReceiptUpload, Ask, OnlyJob
<1>3. paper' = [kind |-> "receipt", status |-> "uploaded", text |-> "none", rows |-> FALSE,
                suggested |-> FALSE, draft |-> "none", reason |-> FALSE, state |-> "none"]
  BY <1>1 DEF NoPaper
<1>4. paper' \in PaperRows /\ paper'.kind = "receipt" /\ Grounds' /\ ~ paper'.suggested
  BY <1>3 DEF PaperRows, Kinds, Grounds
<1>5. desk' # ThenText
  BY <1>1, DeskHeads
<1> QED BY <1>1, <1>4, <1>5, UploadKeeps DEF Kinds

(* The upload of an import (handleImportUpload): the text of a csv follows *)
(* the job.                                                                *)
LEMMA ImportUploadKeeps ==
  ASSUME StagesInv, NEW kind \in Kinds, handleImportUpload(kind) PROVE StagesInv'
<1>1. /\ paper.kind = "none" /\ desk = AtRest /\ asked < MaxAsked /\ asked' = asked + 1
      /\ desk' = IF kind = "csv" THEN ThenText ELSE OnlyJob("enqueue", "ocr")
      /\ paper' = [NoPaper EXCEPT !.kind = kind, !.status = "uploaded"]
      /\ UNCHANGED <<pipelineMode, queued, run, stageFaults, memoized, missed>>
  BY DEF handleImportUpload, Ask, OnlyJob, ThenText
<1>2. paper' = [kind |-> kind, status |-> "uploaded", text |-> "none", rows |-> FALSE,
                suggested |-> FALSE, draft |-> "none", reason |-> FALSE, state |-> "none"]
  BY <1>1 DEF NoPaper
<1>3. paper' \in PaperRows /\ paper'.kind = kind /\ Grounds' /\ ~ paper'.suggested
  BY <1>2 DEF PaperRows, Kinds, Grounds
<1>4. desk' = ThenText => kind = "csv"
  BY <1>1, DeskHeads
<1> QED BY <1>1, <1>3, <1>4, UploadKeeps

(* A rerun asks for a job.                                                 *)
LEMMA RerunKeeps ==
  ASSUME StagesInv, NEW s \in Stages, rerunStage(s) PROVE StagesInv'
<1>1. /\ paper.kind # "none" /\ desk = AtRest /\ asked < MaxAsked /\ asked' = asked + 1
      /\ desk' = OnlyJob("again", s)
      /\ paper' = [paper EXCEPT !.status = "queued"]
      /\ UNCHANGED <<pipelineMode, queued, run, stageFaults, memoized, missed>>
  BY DEF rerunStage, Ask, OnlyJob
<1>2. paper \in PaperRows /\ Grounds /\ Len(queued) \in Nat
  BY DEF StagesInv, StagesTypeOK
<1>3. /\ paper' \in PaperRows /\ paper'.kind = paper.kind /\ Grounds' /\ Lacking' = Lacking
      /\ paper'.draft = paper.draft /\ paper'.reason = paper.reason
      /\ paper'.suggested = paper.suggested
  BY <1>1, <1>2 DEF PaperRows, Grounds, Lacking
<1>4. /\ RunsOK' /\ PlansFit' /\ Counting' = Counting /\ Suggesting' = Suggesting
      /\ \A q \in StageWorkers : Stores(q)' = Stores(q)
  BY <1>1, <1>2, <1>3, WorkersStay
<1>5. StagesTypeOK' /\ Blank'
  BY <1>1, <1>3, StageConstants DEF StagesInv, StagesTypeOK, Blank
<1>6. DeskOK' /\ AsksJob' /\ ~ AsksJob /\ ~ TextToCome'
  BY <1>1, DeskHeads DEF DeskOK, AsksJob, TextToCome
<1>7. EarlyJobs' = EarlyJobs
  BY <1>1 DEF EarlyJobs, StageClaimable
<1>8. Carried' /\ RowsCarried' /\ TextNoticed'
  BY <1>3, <1>4, <1>6, <1>7 DEF StagesInv, Carried, RowsCarried, TextNoticed
<1>9. AskedFor'
  BY <1>1, <1>4, <1>6, <1>7, Tallied DEF StagesInv, AskedFor, Owed
<1> QED BY <1>3, <1>4, <1>5, <1>6, <1>8, <1>9 DEF StagesInv

(* A row of the queue is updated.                                          *)
LEMMA RowUpdated ==
  ASSUME queued \in Seq(JobRows), NEW j \in 1 .. Len(queued),
         NEW state \in {"queued", "processing", "done", "failed"}, NEW tries \in 0 .. MaxTries,
         queued' = [queued EXCEPT ![j] = [stage |-> queued[j].stage, state |-> state, tries |-> tries]]
  PROVE  /\ queued' \in Seq(JobRows) /\ Len(queued') = Len(queued)
         /\ \A i \in 1 .. Len(queued) : queued'[i].stage = queued[i].stage
         /\ StageClaimable' = IF state \in {"queued", "failed"} /\ tries < MaxTries
                              THEN StageClaimable \cup {j} ELSE StageClaimable \ {j}
         /\ EarlyJobs' = IF state \in {"queued", "failed"} /\ tries < MaxTries
                            /\ queued[j].stage # "draft"
                         THEN EarlyJobs \cup {j} ELSE EarlyJobs \ {j}
<1> DEFINE row == [stage |-> queued[j].stage, state |-> state, tries |-> tries]
<1>1. row \in JobRows
  <2>1. queued[j] \in JobRows
    BY ElementOfSeq
  <2> QED BY <2>1 DEF JobRows
<1>2. row.stage = queued[j].stage /\ row.state = state /\ row.tries = tries
  OBVIOUS
<1>3. queued' = [queued EXCEPT ![j] = row]
  OBVIOUS
<1> HIDE DEF row
<1>4. /\ queued' \in Seq(JobRows) /\ Len(queued') = Len(queued)
      /\ \A i \in 1 .. Len(queued) : queued'[i] = IF i = j THEN row ELSE queued[i]
  BY <1>1, <1>3, ExceptSeq
<1>5. ASSUME NEW i \in 1 .. Len(queued)
      PROVE  /\ queued'[i].stage = queued[i].stage
             /\ queued'[i].state = IF i = j THEN state ELSE queued[i].state
             /\ queued'[i].tries = IF i = j THEN tries ELSE queued[i].tries
  BY <1>2, <1>4
<1>6. StageClaimable' = IF state \in {"queued", "failed"} /\ tries < MaxTries
                        THEN StageClaimable \cup {j} ELSE StageClaimable \ {j}
  BY <1>4, <1>5, StageConstants DEF StageClaimable
<1>7. EarlyJobs' = IF state \in {"queued", "failed"} /\ tries < MaxTries
                      /\ queued[j].stage # "draft"
                   THEN EarlyJobs \cup {j} ELSE EarlyJobs \ {j}
  <2>1. \A i \in StageClaimable \cup {j} : queued'[i].stage = queued[i].stage
    BY <1>5 DEF StageClaimable
  <2> QED BY <1>6, <2>1 DEF EarlyJobs
<1> QED BY <1>4, <1>5, <1>6, <1>7

(* A requeue returns the newest job to the queue, done or not.             *)
LEMMA RequeueKeeps ==
  ASSUME StagesInv, handleReceiptRequeue PROVE StagesInv'
<1> DEFINE n == Len(queued)
<1>1. /\ queued # <<>> /\ desk = AtRest /\ asked < MaxAsked /\ asked' = asked + 1
      /\ desk' = AtRest
      /\ queued' = [queued EXCEPT ![n].state = "queued"]
      /\ UNCHANGED <<pipelineMode, paper, run, stageFaults, memoized, missed>>
  BY DEF handleReceiptRequeue, Ask
<1>2. queued \in Seq(JobRows) /\ n \in Nat /\ n <= MaxStageJobs /\ n \in 1 .. Len(queued)
  BY <1>1 DEF StagesInv, StagesTypeOK
<1>3. queued[n] \in JobRows
  BY <1>2, ElementOfSeq
<1>4. queued' = [queued EXCEPT ![n] = [stage |-> queued[n].stage, state |-> "queued",
                                       tries |-> queued[n].tries]]
  <2>1. [queued[n] EXCEPT !.state = "queued"]
           = [stage |-> queued[n].stage, state |-> "queued", tries |-> queued[n].tries]
    BY <1>3 DEF JobRows
  <2> QED BY <1>1, <2>1, Zenon
<1> HIDE DEF n
<1>5. /\ queued' \in Seq(JobRows) /\ Len(queued') = Len(queued)
      /\ \A i \in 1 .. Len(queued) : queued'[i].stage = queued[i].stage
      /\ StageClaimable \subseteq StageClaimable'
      /\ EarlyJobs \subseteq EarlyJobs' /\ EarlyJobs' \subseteq EarlyJobs \cup {n}
  <2>1. queued[n].tries \in 0 .. MaxTries
    BY <1>3 DEF JobRows
  <2>2. queued[n].tries = MaxTries => n \notin StageClaimable
    BY StageConstants DEF StageClaimable
  <2>3. queued[n].tries < MaxTries \/ queued[n].tries = MaxTries
    BY <2>1, StageConstants
  <2>4. /\ queued' \in Seq(JobRows) /\ Len(queued') = Len(queued)
        /\ \A i \in 1 .. Len(queued) : queued'[i].stage = queued[i].stage
        /\ StageClaimable' = IF queued[n].tries < MaxTries
                             THEN StageClaimable \cup {n} ELSE StageClaimable \ {n}
        /\ EarlyJobs' = IF queued[n].tries < MaxTries /\ queued[n].stage # "draft"
                        THEN EarlyJobs \cup {n} ELSE EarlyJobs \ {n}
    BY <1>2, <1>4, <2>1, RowUpdated
  <2>5. queued[n].stage = "draft" => n \notin EarlyJobs
    BY DEF EarlyJobs
  <2> QED BY <2>2, <2>3, <2>4, <2>5 DEF EarlyJobs
<1>6. /\ RunsOK' /\ PlansFit' /\ Counting' = Counting /\ Suggesting' = Suggesting
      /\ \A q \in StageWorkers : Owes(q)' = Owes(q) /\ Stores(q)' = Stores(q)
  BY <1>1, <1>2, <1>5, WorkersStay DEF n
<1>7. StagesTypeOK' /\ DeskOK' /\ Blank' /\ Grounds' /\ ~ TextToCome'
  <2>1. paper.kind # "none"
    BY <1>1 DEF StagesInv, Blank
  <2> QED BY <1>1, <1>2, <1>5, <2>1, DeskHeads, StageConstants
          DEF StagesInv, StagesTypeOK, DeskOK, Blank, Grounds, TextToCome, n
<1>8. Carried' /\ RowsCarried' /\ TextNoticed'
  <2>1. Lacking' = Lacking /\ Told' = Told /\ AsksJob' = AsksJob
    BY <1>1 DEF Lacking, Told, Judged, AsksJob
  <2> QED BY <1>1, <1>5, <1>6, <1>7, <2>1 DEF StagesInv, Carried, RowsCarried, TextNoticed
<1>9. AskedFor'
  <2>1. IsFiniteSet(EarlyJobs \cup {n}) /\ Cardinality(EarlyJobs \cup {n}) <= Cardinality(EarlyJobs) + 1
    <3>1. IsFiniteSet(EarlyJobs) /\ Cardinality(EarlyJobs) \in Nat
      BY Tallied
    <3>2. /\ IsFiniteSet(EarlyJobs \cup {n})
          /\ \/ Cardinality(EarlyJobs \cup {n}) = Cardinality(EarlyJobs)
             \/ Cardinality(EarlyJobs \cup {n}) = Cardinality(EarlyJobs) + 1
      BY <3>1, FS_AddElement
    <3> QED BY <3>1, <3>2
  <2>2. Cardinality(EarlyJobs') <= Cardinality(EarlyJobs \cup {n})
    BY <1>5, <2>1, FS_Subset
  <2>3. Cardinality(EarlyJobs') \in Nat /\ Cardinality(EarlyJobs \cup {n}) \in Nat
    BY <1>5, <2>1, FS_Subset, FS_CardinalityType
  <2>4. ~ AsksJob /\ ~ AsksJob'
    BY <1>1 DEF AsksJob
  <2> QED BY <1>1, <1>6, <2>1, <2>2, <2>3, <2>4, Tallied DEF StagesInv, AskedFor, Owed
<1> QED BY <1>6, <1>7, <1>8, <1>9 DEF StagesInv

(* How a request goes on.                                                  *)
LEMMA DeskGoesOn ==
  ASSUME DeskOK, desk # AtRest, desk' = Tail(desk)
  PROVE  /\ DeskOK' /\ ~ AsksJob' /\ Head(desk).stage \in Stages
         /\ TextToCome' => TextToCome /\ Head(desk).do # "again"
<1>1. CASE desk = ThenText
  <2>1. desk' = LastText /\ Head(desk) = [do |-> "enqueue", stage |-> "suggest"]
    BY <1>1, DeskHeads
  <2>2. Head(desk') = [do |-> "text", stage |-> "suggest"]
    BY <2>1, DeskHeads
  <2>3. ~ AsksJob'
    BY <2>1, <2>2 DEF AsksJob, LastText
  <2>4. DeskOK' /\ Head(desk).stage \in Stages /\ TextToCome /\ Head(desk).do # "again"
    BY <1>1, <2>1 DEF Stages, DeskOK, TextToCome
  <2> QED BY <2>3, <2>4
<1>2. CASE desk # ThenText
  <2>1. desk' = AtRest /\ Head(desk).stage \in Stages
    <3>1. CASE desk = LastText
      BY <3>1, DeskHeads DEF Stages
    <3>2. CASE \E do \in {"enqueue", "again"}, s \in Stages : desk = OnlyJob(do, s)
      <4>1. PICK do \in {"enqueue", "again"}, s \in Stages : desk = OnlyJob(do, s)
        BY <3>2
      <4> QED BY <4>1, DeskHeads
    <3> QED BY <1>2, <3>1, <3>2 DEF DeskOK
  <2>2. AtRest # ThenText /\ AtRest # LastText
    BY DeskHeads
  <2> QED BY <2>1, <2>2 DEF DeskOK, AsksJob, TextToCome
<1> QED BY <1>1, <1>2

(* The enqueue of a request; a rerun makes good what was missed.           *)
LEMMA EnqueueKeeps ==
  ASSUME StagesInv, EnqueueFirst PROVE StagesInv'
<1> DEFINE do == Head(desk).do
           s == Head(desk).stage
<1>1. /\ desk # AtRest /\ do \in {"enqueue", "again"} /\ Len(queued) < MaxStageJobs
      /\ queued' = Enqueued(s) /\ desk' = Tail(desk)
      /\ missed' = IF do = "again" THEN missed \cap Unmended(s) ELSE missed
      /\ UNCHANGED <<pipelineMode, paper, run, asked, stageFaults, memoized>>
  BY DEF EnqueueFirst
<1>2. /\ s \in Stages /\ DeskOK' /\ ~ AsksJob'
      /\ TextToCome' => TextToCome /\ do = "enqueue"
  BY <1>1, DeskGoesOn DEF StagesInv
<1>3. AsksJob
  BY <1>1 DEF AsksJob
<1> HIDE DEF do, s
<1>4. /\ queued' \in Seq(JobRows) /\ Len(queued') = Len(queued) + 1 /\ Len(queued') <= MaxStageJobs
      /\ \A j \in 1 .. Len(queued) : queued'[j] = queued[j]
      /\ StageClaimable' # {}
      /\ s # "draft" => EarlyJobs' # {}
      /\ EarlyJobs \subseteq EarlyJobs'
      /\ Cardinality(EarlyJobs') = Cardinality(EarlyJobs) + (IF s # "draft" THEN 1 ELSE 0)
  BY <1>1, <1>2, NewJob
<1>5. /\ "reason" \in missed => "reason" \in missed'
      /\ Lacking' => Lacking \/ s = "suggest"
      /\ do = "enqueue" => missed' = missed
  BY <1>1 DEF Unmended, Lacking
<1>6. Len(queued) \in Nat
  BY DEF StagesInv, StagesTypeOK
<1>7. /\ RunsOK' /\ PlansFit' /\ Counting' = Counting /\ Suggesting' = Suggesting
      /\ \A q \in StageWorkers : Stores(q)' = Stores(q)
  BY <1>1, <1>4, <1>5, <1>6, WorkersStay
<1>8. StagesTypeOK' /\ Blank' /\ Grounds'
  BY <1>1, <1>4, <1>5 DEF StagesInv, StagesTypeOK, Blank, Grounds
<1>9. Carried' /\ RowsCarried' /\ TextNoticed'
  BY <1>1, <1>2, <1>4, <1>5, <1>7 DEF StagesInv, Carried, RowsCarried, TextNoticed
<1>10. AskedFor'
  BY <1>1, <1>2, <1>3, <1>4, <1>7, Tallied DEF StagesInv, AskedFor, Owed
<1> QED BY <1>2, <1>7, <1>8, <1>9, <1>10 DEF StagesInv

(* The text of an import is stored after its job was asked for: whoever    *)
(* suggested before was noticed.                                           *)
LEMMA StoreTextKeeps ==
  ASSUME StagesInv, StoreText PROVE StagesInv'
<1>1. /\ desk # AtRest /\ Head(desk).do = "text" /\ desk' = Tail(desk)
      /\ paper' = [paper EXCEPT !.text = "text"]
      /\ UNCHANGED <<pipelineMode, queued, run, asked, stageFaults, memoized, missed>>
  BY DEF StoreText
<1>2. desk = LastText
  BY <1>1, DeskHeads DEF StagesInv, DeskOK
<1>3. desk' = AtRest /\ ~ AsksJob /\ ~ AsksJob' /\ TextToCome /\ ~ TextToCome' /\ DeskOK'
  BY <1>1, <1>2, DeskHeads DEF AsksJob, TextToCome, DeskOK
<1>4. paper \in PaperRows /\ Len(queued) \in Nat
  BY DEF StagesInv, StagesTypeOK
<1>5. /\ paper' \in PaperRows /\ paper'.kind = paper.kind /\ paper'.rows = paper.rows
      /\ paper'.status = paper.status /\ paper'.draft = paper.draft /\ paper'.reason = paper.reason
      /\ paper'.suggested = paper.suggested /\ paper'.state = paper.state
  BY <1>1, <1>4 DEF PaperRows
<1>6. /\ RunsOK' /\ PlansFit' /\ Counting' = Counting /\ Suggesting' = Suggesting
      /\ \A q \in StageWorkers : Owes(q)' = Owes(q)
  BY <1>1, <1>4, <1>5, WorkersStay
<1>7. StageClaimable' = StageClaimable /\ EarlyJobs' = EarlyJobs
  BY <1>1 DEF EarlyJobs, StageClaimable
<1>8. StagesTypeOK' /\ Blank' /\ Grounds' /\ Told' = Told
  BY <1>1, <1>3, <1>5 DEF StagesInv, StagesTypeOK, Blank, Grounds, Told, Judged
<1>9. Carried' /\ RowsCarried' /\ TextNoticed'
  BY <1>1, <1>3, <1>5, <1>6, <1>7, <1>8
     DEF StagesInv, Carried, RowsCarried, TextNoticed, Lacking
<1>10. AskedFor'
  BY <1>1, <1>3, <1>6, <1>7, Tallied DEF StagesInv, AskedFor, Owed
<1> QED BY <1>3, <1>6, <1>8, <1>9, <1>10 DEF StagesInv

(* An enqueue that fails is missed.                                        *)
LEMMA DeskFailsKeeps ==
  ASSUME StagesInv, DeskFails PROVE StagesInv'
<1>1. /\ desk # AtRest /\ stageFaults < MaxStageFaults /\ stageFaults' = stageFaults + 1
      /\ missed' = IF Head(desk).do = "text" THEN missed ELSE missed \cup {"enqueue"}
      /\ desk' = Tail(desk)
      /\ UNCHANGED <<pipelineMode, paper, queued, run, asked, memoized>>
  BY DEF DeskFails
<1>2. /\ DeskOK' /\ ~ AsksJob'
      /\ TextToCome' => TextToCome
  BY <1>1, DeskGoesOn DEF StagesInv
<1>3. AsksJob => Told'
  BY <1>1 DEF AsksJob, Told
<1>4. missed \subseteq missed' /\ (missed' \cap {"early", "rows"} = missed \cap {"early", "rows"})
  BY <1>1
<1>5. Len(queued) \in Nat
  BY DEF StagesInv, StagesTypeOK
<1>6. /\ RunsOK' /\ PlansFit' /\ Counting' = Counting /\ Suggesting' = Suggesting
      /\ \A q \in StageWorkers : Owes(q)' = Owes(q) /\ Stores(q)' = Stores(q)
  BY <1>1, <1>4, <1>5, WorkersStay
<1>7. StageClaimable' = StageClaimable /\ EarlyJobs' = EarlyJobs
  BY <1>1 DEF EarlyJobs, StageClaimable
<1>8. StagesTypeOK' /\ Blank' /\ Grounds' /\ (Told => Told') /\ Lacking' = Lacking
  <2>1. paper.kind # "none"
    BY <1>1 DEF StagesInv, Blank
  <2> QED BY <1>1, <1>4, <2>1, StageConstants
          DEF StagesInv, StagesTypeOK, Blank, Grounds, Told, Judged, Lacking
<1>9. Carried' /\ RowsCarried' /\ TextNoticed'
  BY <1>1, <1>2, <1>3, <1>4, <1>6, <1>7, <1>8 DEF StagesInv, Carried, RowsCarried, TextNoticed
<1>10. AskedFor'
  BY <1>1, <1>2, <1>6, <1>7, Tallied DEF StagesInv, AskedFor, Owed
<1> QED BY <1>2, <1>6, <1>8, <1>9, <1>10 DEF StagesInv

(* The batches judge a document.                                           *)
LEMMA BatchSettlesKeeps ==
  ASSUME StagesInv, BatchSettles PROVE StagesInv'
<1>1. /\ paper.state = "pending"
      /\ \/ paper' = [paper EXCEPT !.state = "finished", !.status = "ready_for_review", !.draft = "filled"]
         \/ paper' = [paper EXCEPT !.state = "finished", !.status = "needs_attention", !.reason = TRUE]
      /\ UNCHANGED <<pipelineMode, queued, desk, run, asked, stageFaults, memoized, missed>>
  BY DEF BatchSettles
<1>2. paper \in PaperRows /\ Len(queued) \in Nat
  BY DEF StagesInv, StagesTypeOK
<1>3. /\ paper' \in PaperRows /\ paper'.kind = paper.kind /\ paper'.rows = paper.rows
      /\ paper'.text = paper.text /\ paper'.suggested = paper.suggested
      /\ paper.draft # "none" => paper'.draft # "none"
      /\ paper.reason => paper'.reason
      /\ \/ paper'.status = "ready_for_review" /\ paper'.draft = "filled"
         \/ paper'.status = "needs_attention" /\ paper'.reason
  BY <1>1, <1>2 DEF PaperRows
<1>4. /\ RunsOK' /\ PlansFit' /\ Counting' = Counting /\ Suggesting' = Suggesting
      /\ \A q \in StageWorkers : Stores(q)' = Stores(q)
  BY <1>1, <1>2, <1>3, WorkersStay
<1>5. EarlyJobs' = EarlyJobs /\ AsksJob' = AsksJob /\ TextToCome' = TextToCome
  BY <1>1 DEF EarlyJobs, StageClaimable, AsksJob, TextToCome
<1>6. StagesTypeOK' /\ DeskOK' /\ Blank' /\ Grounds' /\ Told' /\ Lacking' = Lacking
  BY <1>1, <1>3 DEF StagesInv, StagesTypeOK, DeskOK, Blank, OnDuty, Grounds, Told, Judged, Lacking
<1>7. Carried' /\ RowsCarried' /\ TextNoticed'
  BY <1>1, <1>3, <1>4, <1>5, <1>6 DEF StagesInv, Carried, RowsCarried, TextNoticed
<1>8. AskedFor'
  BY <1>1, <1>4, <1>5, Tallied DEF StagesInv, AskedFor, Owed
<1> QED BY <1>4, <1>6, <1>7, <1>8 DEF StagesInv

-----------------------------------------------------------------------------
(* Steps of a worker that touch the queue.                                 *)

(* A step of one worker leaves the others at what they were doing.         *)
LEMMA OneWorker ==
  ASSUME StagesInv, NEW w \in StageWorkers, run' = [run EXCEPT ![w] = run'[w]],
         UNCHANGED <<pipelineMode, paper>>, missed \subseteq missed',
         Len(queued') \in Nat, Len(queued) <= Len(queued'),
         \A j \in 1 .. Len(queued) : queued'[j].stage = queued[j].stage,
         OnDuty(w)' => /\ run'[w] \in [job : 1 .. Len(queued'), todo : Plans, silent : BOOLEAN]
                       /\ Fits(w)',
         ~ PastMatch(w), ~ PastMatch(w)'
  PROVE  /\ RunsOK' /\ PlansFit' /\ Suggesting' = Suggesting
         /\ \A q \in StageWorkers \ {w} : Owes(q)' = Owes(q) /\ Stores(q)' = Stores(q)
         /\ Counting' \ {w} = Counting \ {w} /\ IsFiniteSet(Counting')
<1>1. /\ run = [q \in StageWorkers |-> run[q]] /\ Len(queued) \in Nat
  BY DEF StagesInv, RunsOK, StagesTypeOK
<1>2. /\ run' = [q \in StageWorkers |-> run'[q]]
      /\ \A q \in StageWorkers \ {w} : run'[q] = run[q]
  BY <1>1
<1>3. ASSUME NEW q \in StageWorkers \ {w}
      PROVE  /\ OnDuty(q)' = OnDuty(q) /\ PastMatch(q)' = PastMatch(q)
             /\ OnDuty(q) => StageOf(q)' = StageOf(q)
             /\ Owes(q)' = Owes(q) /\ Stores(q)' = Stores(q)
  <2>1. OnDuty(q)' = OnDuty(q)
    BY <1>2 DEF OnDuty
  <2>2. OnDuty(q) => run[q].job \in 1 .. Len(queued)
    BY DEF StagesInv, RunsOK
  <2> QED BY <1>2, <2>1, <2>2 DEF PastMatch, StageOf, Stores, Owes
<1>4. RunsOK'
  <2>1. ASSUME NEW q \in StageWorkers, OnDuty(q)'
        PROVE  run'[q] \in [job : 1 .. Len(queued'), todo : Plans, silent : BOOLEAN]
    <3>1. CASE q # w
      <4>1. run[q] \in [job : 1 .. Len(queued), todo : Plans, silent : BOOLEAN]
        BY <1>3, <2>1, <3>1 DEF StagesInv, RunsOK
      <4>2. 1 .. Len(queued) \subseteq 1 .. Len(queued')
        BY <1>1
      <4> QED BY <1>2, <3>1, <4>1, <4>2
    <3> QED BY <2>1, <3>1
  <2> QED BY <1>2, <2>1 DEF RunsOK
<1>5. PlansFit'
  <2>1. ASSUME NEW q \in StageWorkers, OnDuty(q)' PROVE Fits(q)'
    <3>1. CASE q # w
      <4>1. Fits(q) /\ StageOf(q)' = StageOf(q) /\ run'[q] = run[q]
        BY <1>2, <1>3, <2>1, <3>1 DEF StagesInv, PlansFit
      <4> QED BY <4>1 DEF Fits
    <3> QED BY <2>1, <3>1
  <2> QED BY <2>1 DEF PlansFit
<1>6. Suggesting' = Suggesting
  BY <1>3 DEF Suggesting
<1>7. Counting' \ {w} = Counting \ {w}
  BY <1>2, <1>3 DEF Counting
<1>8. IsFiniteSet(Counting')
  <2>1. IsFiniteSet(Counting \cup {w})
    BY Tallied, FS_AddElement
  <2> QED BY <1>7, <2>1, FS_Subset
<1> QED BY <1>3, <1>4, <1>5, <1>6, <1>7, <1>8

(* A worker that no longer counts the document, or begins to.              *)
LEMMA CountingMoves ==
  ASSUME IsFiniteSet(Counting), IsFiniteSet(Counting'), NEW w,
         Counting' \ {w} = Counting \ {w}
  PROVE  /\ Cardinality(Counting) \in Nat /\ Cardinality(Counting') \in Nat
         /\ Cardinality(Counting') = Cardinality(Counting)
              + (IF w \in Counting' THEN 1 ELSE 0) - (IF w \in Counting THEN 1 ELSE 0)
<1> DEFINE rest == Counting \ {w}
<1>1. IsFiniteSet(rest) /\ Cardinality(rest) \in Nat
  BY FS_Subset, FS_CardinalityType
<1>2. ASSUME NEW S, S \ {w} = rest
      PROVE  Cardinality(S) = Cardinality(rest) + (IF w \in S THEN 1 ELSE 0)
  <2>1. CASE w \in S
    <3>1. S = rest \cup {w} /\ w \notin rest
      BY <1>2, <2>1
    <3> HIDE DEF rest
    <3> QED BY <1>1, <2>1, <3>1, FS_AddElement
  <2>2. CASE w \notin S
    <3>1. S = rest
      BY <1>2, <2>2
    <3> QED BY <1>1, <2>2, <3>1
  <2> QED BY <2>1, <2>2
<1>3. /\ Cardinality(Counting) = Cardinality(rest) + (IF w \in Counting THEN 1 ELSE 0)
      /\ Cardinality(Counting') = Cardinality(rest) + (IF w \in Counting' THEN 1 ELSE 0)
  BY <1>2
<1> HIDE DEF rest
<1> QED BY <1>1, <1>3

(* What is owed does not grow.                                             *)
LEMMA OwedStays ==
  ASSUME StagesInv, UNCHANGED <<desk, asked, memoized>>, IsFiniteSet(Counting'),
         Cardinality(EarlyJobs') \in Nat, Cardinality(Counting') \in Nat,
         Cardinality(EarlyJobs') + Cardinality(Counting') <= Cardinality(EarlyJobs) + Cardinality(Counting)
  PROVE  AskedFor'
<1> DEFINE ask == IF AsksJob THEN 1 ELSE 0
<1>1. ask \in Int /\ ask' = ask
  BY DEF AsksJob
<1>2. /\ Cardinality(EarlyJobs) \in Nat /\ Cardinality(Counting) \in Nat
      /\ memoized \in Nat /\ asked \in Nat /\ Owed <= asked
  BY Tallied
<1>3. /\ Owed = memoized + Cardinality(EarlyJobs) + Cardinality(Counting) + ask
      /\ Owed' = memoized + Cardinality(EarlyJobs') + Cardinality(Counting') + ask
  BY <1>1 DEF Owed
<1> HIDE DEF ask
<1>4. Owed' <= asked
  BY <1>1, <1>2, <1>3
<1> QED BY <1>4 DEF AskedFor

(* The next job of a stage is asked for; an import transcribed goes on to  *)
(* the stage that stores its rows.                                         *)
LEMMA PassOnKeeps ==
  ASSUME StagesInv, NEW w \in StageWorkers, PassOn(w) PROVE StagesInv'
<1> DEFINE s == IF StageOf(w) = "ocr" THEN "suggest" ELSE "draft"
<1>1. /\ OnDuty(w) /\ Head(run[w].todo) = "pass" /\ Len(queued) < MaxStageJobs
      /\ queued' = Enqueued(s) /\ Proceed(w)
      /\ UNCHANGED <<pipelineMode, paper, desk, asked, stageFaults, memoized, missed>>
  BY DEF PassOn, Doing, OnDuty, StageOf
<1>2. /\ run[w] \in [job : 1 .. Len(queued), todo : Plans, silent : BOOLEAN]
      /\ Len(queued) \in Nat
  BY <1>1, AtWork DEF StagesInv, StagesTypeOK
<1>3. run[w].todo = ToPass /\ Tail(run[w].todo) = ToAck
  BY <1>1, <1>2, PlanHeads
<1>4. /\ run' = [run EXCEPT ![w] = run'[w]]
      /\ run'[w] \in [job : {run[w].job}, todo : Plans, silent : BOOLEAN]
      /\ run'[w].todo = ToAck /\ run'[w].job = run[w].job
      /\ OnDuty(w)'
  BY <1>1, <1>3, TurnsTo DEF Proceed, Plans
<1>5. s \in Stages
  BY DEF Stages
<1> HIDE DEF s
<1>6. /\ queued' \in Seq(JobRows) /\ Len(queued') = Len(queued) + 1 /\ Len(queued') <= MaxStageJobs
      /\ \A j \in 1 .. Len(queued) : queued'[j] = queued[j]
      /\ StageClaimable' # {}
      /\ s # "draft" => EarlyJobs' # {}
      /\ EarlyJobs \subseteq EarlyJobs'
      /\ Cardinality(EarlyJobs') = Cardinality(EarlyJobs) + (IF s # "draft" THEN 1 ELSE 0)
  BY <1>1, <1>5, NewJob
<1>7. ~ PastMatch(w) /\ ~ PastMatch(w)' /\ Fits(w)'
  BY <1>3, <1>4, GroupHeads, SingleHeads DEF PastMatch, Fits
<1>8. /\ RunsOK' /\ PlansFit' /\ Suggesting' = Suggesting
      /\ \A q \in StageWorkers \ {w} : Stores(q)' = Stores(q)
      /\ Counting' \ {w} = Counting \ {w} /\ IsFiniteSet(Counting')
  BY <1>1, <1>2, <1>4, <1>6, <1>7, OneWorker
<1>9. StagesTypeOK' /\ DeskOK' /\ Blank' /\ Grounds'
  <2>1. paper.kind # "none"
    BY <1>1 DEF StagesInv, Blank
  <2> QED BY <1>1, <1>6, <2>1 DEF StagesInv, StagesTypeOK, DeskOK, Blank, Grounds
<1>10. Carried' /\ RowsCarried' /\ TextNoticed'
  <2>1. Lacking' = Lacking /\ TextToCome' = TextToCome
    BY <1>1 DEF Lacking, TextToCome
  <2>2. ASSUME Lacking', Suggesting' PROVE EarlyJobs' # {} \/ \E q \in StageWorkers : Stores(q)'
    <3>1. CASE EarlyJobs # {}
      BY <1>6, <3>1
    <3>2. CASE Stores(w)
      <4>1. ToPass \notin Storing
        BY PlanKinds, SingleHeads DEF Plans
      <4>2. StageOf(w) = "ocr"
        BY <1>3, <3>2, <4>1 DEF Stores
      <4> QED BY <1>6, <4>2 DEF s
    <3> QED BY <1>8, <2>1, <2>2, <3>1, <3>2 DEF StagesInv, RowsCarried
  <2> QED BY <1>1, <1>6, <1>8, <2>1, <2>2 DEF StagesInv, Carried, RowsCarried, TextNoticed
<1>11. AskedFor'
  <2>1. w \notin Counting' /\ (s # "draft" => w \in Counting)
    BY <1>1, <1>3, <1>4, SingleHeads DEF Counting, s
  <2>3. /\ Cardinality(Counting) \in Nat /\ Cardinality(Counting') \in Nat
        /\ Cardinality(Counting') = Cardinality(Counting)
             + (IF w \in Counting' THEN 1 ELSE 0) - (IF w \in Counting THEN 1 ELSE 0)
    BY <1>8, Tallied, CountingMoves
  <2>4. Cardinality(EarlyJobs') + Cardinality(Counting') <= Cardinality(EarlyJobs) + Cardinality(Counting)
    BY <1>6, <2>1, <2>3, Tallied
  <2>5. Cardinality(EarlyJobs') \in Nat
    BY <1>6, Tallied
  <2> QED BY <1>1, <1>8, <2>3, <2>4, <2>5, OwedStays
<1> QED BY <1>8, <1>9, <1>10, <1>11 DEF StagesInv

(* A plan is a sequence.                                                   *)
LEMMA Tuples ==
  ASSUME NEW S
  PROVE  /\ \A a \in S : <<a>> \in Seq(S)
         /\ \A a, b, c, d \in S : <<a, b, c, d>> \in Seq(S)
         /\ \A a, b, c, d, e \in S : <<a, b, c, d, e>> \in Seq(S)
OBVIOUS

(* One write before the rest.                                              *)
LEMMA OneMore ==
  /\ \A a, b, c, d, e : <<a>> \o <<b, c, d, e>> = <<a, b, c, d, e>>
  /\ \A a, b, c, d, e, f : <<a>> \o <<b, c, d, e, f>> = <<a, b, c, d, e, f>>
<1>1. ASSUME NEW a, NEW b, NEW c, NEW d, NEW e
      PROVE  <<a>> \o <<b, c, d, e>> = <<a, b, c, d, e>>
  <2> DEFINE S == {a, b, c, d, e}
             y == <<a>> \o <<b, c, d, e>>
             z == <<a, b, c, d, e>>
  <2>1. y \in Seq(S) /\ Len(y) = 5 /\ z \in Seq(S) /\ Len(z) = 5
    OBVIOUS
  <2>2. /\ y[1] = a /\ y[2] = b /\ y[3] = c /\ y[4] = d /\ y[5] = e
        /\ z[1] = a /\ z[2] = b /\ z[3] = c /\ z[4] = d /\ z[5] = e
    OBVIOUS
  <2> HIDE DEF S, y, z
  <2>3. \A i \in 1 .. Len(y) : y[i] = z[i]
    BY <2>1, <2>2
  <2>4. y = z
    BY <2>1, <2>3, SeqEqual
  <2> QED BY <2>4 DEF y, z
<1>2. ASSUME NEW a, NEW b, NEW c, NEW d, NEW e, NEW f
      PROVE  <<a>> \o <<b, c, d, e, f>> = <<a, b, c, d, e, f>>
  <2> DEFINE S == {a, b, c, d, e, f}
             y == <<a>> \o <<b, c, d, e, f>>
             z == <<a, b, c, d, e, f>>
  <2>1. y \in Seq(S) /\ Len(y) = 6 /\ z \in Seq(S) /\ Len(z) = 6
    OBVIOUS
  <2>2. /\ y[1] = a /\ y[2] = b /\ y[3] = c /\ y[4] = d /\ y[5] = e /\ y[6] = f
        /\ z[1] = a /\ z[2] = b /\ z[3] = c /\ z[4] = d /\ z[5] = e /\ z[6] = f
    OBVIOUS
  <2> HIDE DEF S, y, z
  <2>3. \A i \in 1 .. Len(y) : y[i] = z[i]
    BY <2>1, <2>2
  <2>4. y = z
    BY <2>1, <2>3, SeqEqual
  <2> QED BY <2>4 DEF y, z
<1> QED BY <1>1, <1>2

(* What a worker starts with.                                              *)
LEMMA StagePlans ==
  ASSUME NEW s \in Stages, pipelineMode \in Modes
  PROVE  /\ processJob(s) \in Plans
         /\ s = "ocr" => processJob(s) \in ToTranscribe
         /\ s = "draft" => processJob(s) = ToDraft
         /\ s = "suggest" => \/ processJob(s) \in ToMatch /\ pipelineMode = "legacy"
                             \/ processJob(s) \in {ToRead, ToHand} /\ pipelineMode # "legacy"
<1>1. s = "ocr" => processJob(s) \in ToTranscribe
  BY DEF processJob, ToTranscribe
<1>2. s = "draft" => processJob(s) = ToDraft
  BY DEF processJob, ToDraft
<1>3. s = "suggest" => processJob(s) = CASE pipelineMode = "legacy"     -> runSuggest
                                         [] pipelineMode = "decomposed" -> <<"read">>
                                         [] OTHER                       -> <<"hand", "ack">>
  BY DEF processJob
<1>4. runSuggest \in ToMatch
  <2> DEFINE m  == <<"match", "suggest", "pass", "ack">>
             em == <<"ensure", "match", "suggest", "pass", "ack">>
             S  == {"begin", "ensure", "match", "suggest", "pass", "ack"}
             begin  == IF paper.status = "processing" THEN <<>> ELSE <<"begin">>
             ensure == IF paper.kind = "receipt" THEN <<"ensure">> ELSE <<>>
  <2>1. runSuggest = (begin \o ensure) \o m
    BY DEF runSuggest
  <2>2. /\ m \in Seq(S) /\ em \in Seq(S)
        /\ <<"begin">> \in Seq(S) /\ <<"ensure">> \in Seq(S)
    <3>1. /\ "begin" \in S /\ "ensure" \in S /\ "match" \in S
          /\ "suggest" \in S /\ "pass" \in S /\ "ack" \in S
      OBVIOUS
    <3> HIDE DEF S
    <3> QED BY <3>1, Tuples, Zenon
  <2>3. /\ <<"ensure">> \o m = em
        /\ <<"begin">> \o m = <<"begin", "match", "suggest", "pass", "ack">>
        /\ <<"begin">> \o em = <<"begin", "ensure", "match", "suggest", "pass", "ack">>
    BY OneMore
  <2>4. /\ m \in ToMatch /\ em \in ToMatch
        /\ <<"begin", "match", "suggest", "pass", "ack">> \in ToMatch
        /\ <<"begin", "ensure", "match", "suggest", "pass", "ack">> \in ToMatch
    BY DEF ToMatch
  <2> HIDE DEF m, em, S
  <2>5. <<>> \o m = m /\ <<>> \o em = em
    BY <2>2, ConcatEmptySeq
  <2>6. begin \in Seq(S) /\ ensure \in Seq(S)
    BY <2>2, EmptySeq
  <2>7. (begin \o ensure) \o m = begin \o (ensure \o m)
    <3> HIDE DEF begin, ensure
    <3> QED BY <2>2, <2>6, ConcatAssociative
  <2>8. ensure \o m \in {m, em}
    BY <2>3, <2>5, Zenon
  <2>9. begin \o m \in ToMatch /\ begin \o em \in ToMatch
    BY <2>3, <2>4, <2>5, Zenon
  <2> QED BY <2>1, <2>7, <2>8, <2>9, Zenon
<1> QED BY <1>1, <1>2, <1>3, <1>4 DEF Stages, Modes, Plans, ToRead, ToHand

(* The changes of a row.                                                   *)
LEMMA RowEdit ==
  ASSUME NEW r \in JobRows, NEW state, NEW tries
  PROVE  /\ [r EXCEPT !.state = state] = [stage |-> r.stage, state |-> state, tries |-> r.tries]
         /\ [r EXCEPT !.state = state, !.tries = tries]
               = [stage |-> r.stage, state |-> state, tries |-> tries]
<1>1. [r EXCEPT !.state = state] = [stage |-> r.stage, state |-> state, tries |-> r.tries]
  BY DEF JobRows
<1>2. ASSUME NEW q, q = [stage |-> r.stage, state |-> state, tries |-> r.tries]
      PROVE  [q EXCEPT !.tries = tries] = [stage |-> r.stage, state |-> state, tries |-> tries]
  BY <1>2
<1> QED BY <1>1, <1>2, Zenon

(* What a plan of a stage fits.                                            *)
(* ToDraft is of no other group.                                           *)
LEMMA DraftApart ==
  ToDraft \notin ToMatch \cup ToFill \cup {ToRead, ToEnsure, ToCount}
<1>1. Tail(ToDraft) \in ToFinal
  BY SingleHeads
<1>2. ToDraft \notin ToMatch
  <2>1. ToDraft \in ToMatch => Tail(ToDraft) \in ToMatch
    BY ToMatchHeads, SingleHeads
  <2> QED BY <1>1, <2>1, GroupHeads
<1>3. ToDraft # ToEnsure
  BY <1>1, SingleHeads, GroupsApart
<1> QED BY <1>2, <1>3, GroupHeads, SingleHeads

(* A claimed job starts with a plan of its stage (main, processJob), and   *)
(* takes over the obligation of the queued row.                            *)
LEMMA StartJobKeeps ==
  ASSUME StagesInv, NEW w \in StageWorkers, StartJob(w) PROVE StagesInv'
<1>1. PICK j \in StageClaimable :
         /\ queued' = [queued EXCEPT ![j].state = "processing", ![j].tries = @ + 1]
         /\ run' = [run EXCEPT ![w] = [job |-> j, todo |-> processJob(queued[j].stage),
                                       silent |-> FALSE]]
  BY DEF StartJob
<1>2. /\ ~ OnDuty(w)
      /\ UNCHANGED <<pipelineMode, paper, desk, asked, stageFaults, memoized, missed>>
  BY DEF StartJob, OnDuty
<1> DEFINE s == queued[j].stage
           t == processJob(s)
<1>3. /\ run = [q \in StageWorkers |-> run[q]] /\ Len(queued) \in Nat /\ pipelineMode \in Modes
      /\ queued \in Seq(JobRows) /\ Len(queued) <= MaxStageJobs
  BY DEF StagesInv, RunsOK, StagesTypeOK
<1>4. j \in 1 .. Len(queued) /\ queued[j].tries < MaxTries
  BY DEF StageClaimable
<1>5. queued[j] \in JobRows
  BY <1>3, <1>4, ElementOfSeq
<1>6. s \in Stages /\ queued[j].tries + 1 \in 0 .. MaxTries
  BY <1>4, <1>5, StageConstants DEF JobRows
<1>7. queued' = [queued EXCEPT ![j] = [stage |-> s, state |-> "processing", tries |-> queued[j].tries + 1]]
  <2>1. [queued[j] EXCEPT !.state = "processing", !.tries = @ + 1]
           = [stage |-> s, state |-> "processing", tries |-> queued[j].tries + 1]
    BY <1>5, RowEdit
  <2> QED BY <1>1, <1>3, <1>4, <2>1
<1>8. /\ queued' \in Seq(JobRows) /\ Len(queued') = Len(queued)
      /\ \A i \in 1 .. Len(queued) : queued'[i].stage = queued[i].stage
      /\ EarlyJobs' = EarlyJobs \ {j}
  BY <1>3, <1>4, <1>6, <1>7, RowUpdated
<1>9. /\ t \in Plans
      /\ s = "ocr" => t \in ToTranscribe
      /\ s = "draft" => t = ToDraft
      /\ s = "suggest" => \/ t \in ToMatch /\ pipelineMode = "legacy"
                          \/ t \in {ToRead, ToHand} /\ pipelineMode # "legacy"
  BY <1>3, <1>6, StagePlans
<1>18. j \in EarlyJobs <=> s # "draft"
  BY DEF EarlyJobs
<1> HIDE DEF s, t
<1>10. /\ run'[w] = [job |-> j, todo |-> t, silent |-> FALSE]
       /\ run' = [run EXCEPT ![w] = run'[w]]
  BY <1>1, <1>3 DEF s, t
<1>11. /\ OnDuty(w)' /\ StageOf(w)' = s
       /\ run'[w] \in [job : 1 .. Len(queued'), todo : Plans, silent : BOOLEAN]
  BY <1>3, <1>4, <1>8, <1>9, <1>10 DEF OnDuty, OffDuty, StageOf, s
<1>12. /\ Head(t) \in {"mark", "transcribe", "begin", "ensure", "match", "read", "hand"}
       /\ t \notin {ToCount, ToAck, ToSuggest, ToNote, ToRetry}
  BY <1>6, <1>9, GroupHeads, SingleHeads DEF Stages
<1>13. Fits(w)' /\ Owes(w)' /\ ~ PastMatch(w) /\ ~ PastMatch(w)'
  <2>1. Owes(w)' /\ ~ PastMatch(w) /\ ~ PastMatch(w)'
    BY <1>2, <1>10, <1>11, <1>12 DEF Owes, PastMatch
  <2>2. t \notin ToFill \cup ToFinal
    BY <1>12, GroupHeads
  <2>3. Fits(w)'
    <3>1. CASE s = "ocr"
      BY <1>2, <1>9, <1>10, <1>11, <1>12, <2>2, <3>1, GroupHeads DEF Fits
    <3>2. CASE s = "draft"
      <4>1. /\ t = ToDraft /\ t \notin ToMatch \cup ToFill \cup {ToRead, ToEnsure, ToCount}
            /\ t \notin ToTranscribe \cup ToFill \cup ToFinal /\ t \notin {ToSuggest, ToNote}
            /\ Head(t) # "attention"
        BY <1>9, <1>12, <2>2, <3>2, GroupHeads, DraftApart, SingleHeads
      <4> QED BY <1>10, <4>1 DEF Fits
    <3>3. CASE s = "suggest"
      BY <1>2, <1>9, <1>10, <1>11, <1>12, <2>2, <3>3, GroupHeads, SingleHeads DEF Fits
    <3> QED BY <1>6, <3>1, <3>2, <3>3 DEF Stages
  <2> QED BY <2>1, <2>3
<1>14. /\ RunsOK' /\ PlansFit' /\ Suggesting' = Suggesting
       /\ \A q \in StageWorkers \ {w} : Stores(q)' = Stores(q)
       /\ Counting' \ {w} = Counting \ {w} /\ IsFiniteSet(Counting')
  <2>1. Len(queued') \in Nat /\ Len(queued) <= Len(queued') /\ missed \subseteq missed'
    BY <1>2, <1>3, <1>8
  <2> QED BY <1>2, <1>8, <1>10, <1>11, <1>13, <2>1, OneWorker
<1>15. StagesTypeOK' /\ DeskOK' /\ Blank' /\ Grounds'
  <2>1. paper.kind # "none"
    BY <1>4 DEF StagesInv, Blank
  <2> QED BY <1>2, <1>3, <1>8, <2>1 DEF StagesInv, StagesTypeOK, DeskOK, Blank, Grounds
<1>16. Carried' /\ RowsCarried' /\ TextNoticed'
  <2>1. Lacking' = Lacking /\ TextToCome' = TextToCome
    BY <1>2 DEF Lacking, TextToCome
  <2>2. ASSUME Lacking', Suggesting' PROVE EarlyJobs' # {} \/ \E q \in StageWorkers : Stores(q)'
    <3>1. pipelineMode = "legacy"
      <4>1. CASE paper.suggested
        BY <4>1 DEF StagesInv, Grounds
      <4>2. CASE \E q \in StageWorkers : PastMatch(q)
        BY <4>2 DEF StagesInv, PlansFit, PastMatch, Fits
      <4> QED BY <1>14, <2>2, <4>1, <4>2 DEF Suggesting
    <3>2. CASE j \in EarlyJobs
      <4>1. s # "draft"
        BY <1>18, <3>2
      <4>2. t \in Storing
        BY <1>6, <1>9, <3>1, <4>1 DEF Storing, Stages
      <4> QED BY <1>10, <1>11, <4>1, <4>2 DEF Stores
    <3>3. CASE j \notin EarlyJobs /\ EarlyJobs # {}
      BY <1>8, <3>3
    <3>4. CASE \E q \in StageWorkers : Stores(q)
      <4>1. ~ Stores(w)
        BY <1>2 DEF Stores
      <4> QED BY <1>14, <3>4, <4>1
    <3> QED BY <1>14, <2>1, <2>2, <3>2, <3>3, <3>4 DEF StagesInv, RowsCarried
  <2> QED BY <1>2, <1>13, <1>14, <2>1, <2>2 DEF StagesInv, Carried, RowsCarried, TextNoticed
<1>17. AskedFor'
  <2>1. w \notin Counting /\ (w \in Counting' => s # "draft")
    BY <1>2, <1>11 DEF Counting
  <2>3. /\ Cardinality(Counting) \in Nat /\ Cardinality(Counting') \in Nat
        /\ Cardinality(Counting') = Cardinality(Counting)
             + (IF w \in Counting' THEN 1 ELSE 0) - (IF w \in Counting THEN 1 ELSE 0)
    BY <1>14, Tallied, CountingMoves
  <2>4. /\ Cardinality(EarlyJobs') \in Nat
        /\ Cardinality(EarlyJobs') = Cardinality(EarlyJobs) - (IF s # "draft" THEN 1 ELSE 0)
    <3>1. IsFiniteSet(EarlyJobs) /\ Cardinality(EarlyJobs) \in Nat
      BY Tallied
    <3>2. /\ IsFiniteSet(EarlyJobs \ {j})
          /\ Cardinality(EarlyJobs \ {j}) = Cardinality(EarlyJobs) - (IF s # "draft" THEN 1 ELSE 0)
      BY <1>18, <3>1, FS_RemoveElement
    <3> QED BY <1>8, <3>2, FS_CardinalityType
  <2>5. Cardinality(EarlyJobs') + Cardinality(Counting') <= Cardinality(EarlyJobs) + Cardinality(Counting)
    BY <2>1, <2>3, <2>4, Tallied
  <2> QED BY <1>2, <1>14, <2>3, <2>4, <2>5, OwedStays
<1> QED BY <1>14, <1>15, <1>16, <1>17 DEF StagesInv

(* An acknowledgement or a failure is written on the job's row, whoever    *)
(* has it by now: what it undoes is missed.                                *)
LEMMA SettleJobKeeps ==
  ASSUME StagesInv, NEW w \in StageWorkers, SettleJob(w) PROVE StagesInv'
<1> DEFINE j == run[w].job
           h == Head(run[w].todo)
           s == queued[j].stage
           last == h = "retry" /\ queued[j].tries = MaxTries
           undid == h = "ack" /\ j \in StageClaimable
           state == IF h = "ack" THEN "done" ELSE "failed"
<1>1. /\ OnDuty(w) /\ h \in {"ack", "retry"}
      /\ queued' = [queued EXCEPT ![j].state = state]
      /\ missed' = missed \cup (IF last /\ run[w].silent THEN {"tries"} ELSE {})
                          \cup (IF undid THEN {"ack"} ELSE {})
                          \cup (IF last \/ undid THEN Rows ELSE {})
      /\ run' = [run EXCEPT ![w] = OffDuty]
      /\ UNCHANGED <<pipelineMode, paper, desk, asked, stageFaults, memoized>>
  <2>1. h # "ack" => h = "retry"
    BY DEF SettleJob, Doing
  <2> QED BY <2>1 DEF SettleJob, Doing, OnDuty
<1>2. /\ run[w] \in [job : 1 .. Len(queued), todo : Plans, silent : BOOLEAN]
      /\ run = [q \in StageWorkers |-> run[q]] /\ Len(queued) \in Nat
      /\ queued \in Seq(JobRows) /\ Len(queued) <= MaxStageJobs
  BY <1>1, AtWork DEF StagesInv, RunsOK, StagesTypeOK
<1>3. j \in 1 .. Len(queued) /\ StageOf(w) = s
  BY <1>2 DEF StageOf
<1>4. queued[j] \in JobRows
  BY <1>2, <1>3, ElementOfSeq
<1>5. s \in Stages /\ queued[j].tries \in 0 .. MaxTries
  BY <1>4 DEF JobRows
<1>6. \/ h = "ack" /\ run[w].todo = ToAck
      \/ h = "retry" /\ run[w].todo = ToRetry
  BY <1>1, <1>2, PlanHeads
<1> HIDE DEF j, h
<1>7. queued' = [queued EXCEPT ![j] = [stage |-> s, state |-> state, tries |-> queued[j].tries]]
  BY <1>1, <1>4, RowEdit, Zenon
<1>8. /\ queued' \in Seq(JobRows) /\ Len(queued') = Len(queued)
      /\ \A i \in 1 .. Len(queued) : queued'[i].stage = queued[i].stage
      /\ StageClaimable' = IF state = "failed" /\ queued[j].tries < MaxTries
                           THEN StageClaimable \cup {j} ELSE StageClaimable \ {j}
      /\ EarlyJobs' = IF state = "failed" /\ queued[j].tries < MaxTries /\ s # "draft"
                      THEN EarlyJobs \cup {j} ELSE EarlyJobs \ {j}
  <2>1. state \in {"done", "failed"}
    OBVIOUS
  <2> HIDE DEF state
  <2> QED BY <1>2, <1>3, <1>5, <1>7, <2>1, RowUpdated
<1>9. h = "retry" /\ ~ last => queued[j].tries < MaxTries
  BY <1>5, StageConstants
<1>10. last => j \notin StageClaimable
  BY StageConstants DEF StageClaimable
<1> HIDE DEF s, last
<1>11. /\ h = "ack" /\ ~ undid => StageClaimable' = StageClaimable /\ EarlyJobs' = EarlyJobs
       /\ last => StageClaimable' = StageClaimable /\ EarlyJobs' = EarlyJobs
       /\ h = "retry" /\ ~ last => /\ StageClaimable \subseteq StageClaimable' /\ j \in StageClaimable'
                                   /\ EarlyJobs' = IF s # "draft" THEN EarlyJobs \cup {j} ELSE EarlyJobs \ {j}
       /\ h = "ack" => EarlyJobs' \subseteq EarlyJobs
  <2>1. EarlyJobs \subseteq StageClaimable
    BY DEF EarlyJobs
  <2>2. CASE h = "ack"
    <3>1. StageClaimable' = StageClaimable \ {j} /\ EarlyJobs' = EarlyJobs \ {j} /\ ~ last
      BY <1>8, <2>2 DEF last
    <3> QED BY <2>1, <2>2, <3>1
  <2>3. CASE h = "retry" /\ last
    <3>1. ~ (queued[j].tries < MaxTries) /\ state = "failed"
      BY <1>5, <2>3, StageConstants DEF last
    <3>2. StageClaimable' = StageClaimable \ {j} /\ EarlyJobs' = EarlyJobs \ {j}
      BY <1>8, <3>1
    <3> QED BY <1>10, <2>1, <2>3, <3>2
  <2>4. CASE h = "retry" /\ ~ last
    <3>1. queued[j].tries < MaxTries /\ state = "failed"
      BY <1>9, <2>4
    <3> QED BY <1>8, <2>4, <3>1
  <2> QED BY <1>1, <2>2, <2>3, <2>4
<1>12. /\ ~ OnDuty(w)' /\ run' = [run EXCEPT ![w] = run'[w]]
  BY <1>1, <1>2 DEF OnDuty
<1>13. ~ PastMatch(w) /\ ~ PastMatch(w)'
  BY <1>6, <1>12, SingleHeads DEF PastMatch
<1>14. missed \subseteq missed'
  BY <1>1
<1>15. /\ RunsOK' /\ PlansFit' /\ Suggesting' = Suggesting
       /\ \A q \in StageWorkers \ {w} : Owes(q)' = Owes(q) /\ Stores(q)' = Stores(q)
       /\ Counting' \ {w} = Counting \ {w} /\ IsFiniteSet(Counting')
  <2>1. Len(queued') \in Nat /\ Len(queued) <= Len(queued')
    BY <1>2, <1>8
  <2> QED BY <1>1, <1>8, <1>12, <1>13, <1>14, <2>1, OneWorker
<1>16. StagesTypeOK' /\ DeskOK' /\ Blank' /\ Grounds'
  <2>1. paper.kind # "none"
    BY <1>1 DEF StagesInv, Blank
  <2> QED BY <1>1, <1>2, <1>8, <1>14, <2>1 DEF StagesInv, StagesTypeOK, DeskOK, Blank, Grounds
<1>17. Carried'
  <2>1. Told => Told'
    BY <1>1, <1>14 DEF Told, Judged
  <2>2. undid => Told'
    BY <1>1 DEF Told
  <2>3. last /\ run[w].silent => Told'
    BY <1>1 DEF Told
  <2>4. CASE h = "ack" /\ ~ undid
    <3>1. ~ Owes(w)
      BY <1>6, <2>4 DEF Owes
    <3> QED BY <1>1, <1>11, <1>15, <2>1, <2>4, <3>1 DEF StagesInv, Carried, AsksJob
  <2>5. CASE last /\ ~ run[w].silent
    <3>1. ~ Owes(w)
      BY <1>6, <2>5, SingleHeads DEF Owes, last
    <3> QED BY <1>1, <1>11, <1>15, <2>1, <2>5, <3>1 DEF StagesInv, Carried, AsksJob
  <2>6. CASE h = "retry" /\ ~ last
    BY <1>11, <2>6 DEF Carried
  <2> QED BY <1>1, <2>2, <2>3, <2>4, <2>5, <2>6 DEF Carried
<1>18. RowsCarried'
  <2>1. SUFFICES ASSUME Lacking', Suggesting'
                 PROVE  EarlyJobs' # {} \/ \E q \in StageWorkers : Stores(q)'
    BY DEF RowsCarried
  <2>2. Lacking
    BY <1>1, <1>14, <2>1 DEF Lacking
  <2>3. ~ last /\ ~ undid
    BY <1>1, <2>1 DEF Lacking, Rows
  <2>4. CASE h = "ack"
    <3>1. ToAck \notin Storing /\ ToAck # ToPass
      BY PlanKinds, SingleHeads DEF Plans
    <3>2. ~ Stores(w)
      BY <1>6, <2>4, <3>1 DEF Stores
    <3> QED BY <1>11, <1>15, <2>1, <2>2, <2>3, <2>4, <3>2 DEF StagesInv, RowsCarried
  <2>5. CASE h = "retry"
    <3>1. CASE s = "draft"
      <4>1. ~ Stores(w)
        BY <1>3, <3>1 DEF Stores
      <4>2. j \notin EarlyJobs
        BY <3>1 DEF EarlyJobs, s
      <4> QED BY <1>11, <1>15, <2>1, <2>2, <2>3, <2>5, <3>1, <4>1, <4>2 DEF StagesInv, RowsCarried
    <3>2. CASE s # "draft"
      BY <1>11, <2>3, <2>5, <3>2
    <3> QED BY <3>1, <3>2
  <2> QED BY <1>1, <2>4, <2>5
<1>19. TextNoticed'
  <2>1. TextToCome' = TextToCome
    BY <1>1 DEF TextToCome
  <2> QED BY <1>1, <1>14, <1>15, <2>1 DEF StagesInv, TextNoticed
<1>20. AskedFor'
  <2>1. w \notin Counting'
    BY <1>12 DEF Counting
  <2>3. /\ Cardinality(Counting) \in Nat /\ Cardinality(Counting') \in Nat
        /\ Cardinality(Counting') = Cardinality(Counting) - (IF w \in Counting THEN 1 ELSE 0)
    BY <1>15, <2>1, Tallied, CountingMoves
  <2>4. IsFiniteSet(EarlyJobs) /\ Cardinality(EarlyJobs) \in Nat
    BY Tallied
  <2>5. /\ Cardinality(EarlyJobs') \in Nat
        /\ Cardinality(EarlyJobs') + Cardinality(Counting') <= Cardinality(EarlyJobs) + Cardinality(Counting)
    <3>1. CASE EarlyJobs' \subseteq EarlyJobs
      <4>1. Cardinality(EarlyJobs') \in Nat /\ Cardinality(EarlyJobs') <= Cardinality(EarlyJobs)
        BY <2>4, <3>1, FS_Subset, FS_CardinalityType
      <4> QED BY <2>3, <2>4, <4>1
    <3>2. CASE h = "retry" /\ s # "draft" /\ EarlyJobs' = EarlyJobs \cup {j}
      <4>1. w \in Counting
        BY <1>1, <1>3, <1>6, <3>2, SingleHeads DEF Counting
      <4>2. /\ IsFiniteSet(EarlyJobs')
            /\ \/ Cardinality(EarlyJobs') = Cardinality(EarlyJobs)
               \/ Cardinality(EarlyJobs') = Cardinality(EarlyJobs) + 1
        BY <2>4, <3>2, FS_AddElement
      <4> QED BY <2>3, <2>4, <4>1, <4>2
    <3> QED BY <1>1, <1>11, <3>1, <3>2
  <2> QED BY <1>1, <1>15, <2>3, <2>5, OwedStays
<1> QED BY <1>15, <1>16, <1>17, <1>18, <1>19, <1>20 DEF StagesInv

-----------------------------------------------------------------------------
(* The specification.                                                      *)

(* No document, no job, nobody at work.                                    *)
LEMMA StagesStart ==
  ASSUME StagesInit PROVE StagesInv
<1>1. \A w \in StageWorkers : ~ OnDuty(w)
  BY DEF StagesInit, OnDuty
<1>2. queued = <<>> /\ Len(queued) = 0 /\ desk = AtRest
  BY DEF StagesInit
<1>3. paper \in PaperRows /\ ~ paper.suggested /\ paper.kind = "none" /\ paper.status = "none"
  BY DEF StagesInit, NoPaper, PaperRows
<1>4. StagesTypeOK
  <2>1. queued \in Seq(JobRows)
    BY <1>2, EmptySeq
  <2> QED BY <1>2, <1>3, <2>1, StageConstants DEF StagesInit, StagesTypeOK
<1>5. DeskOK /\ Blank /\ Grounds /\ Carried
  BY <1>1, <1>2, <1>3 DEF DeskOK, Blank, Grounds, Carried
<1>6. RunsOK /\ PlansFit
  BY <1>1 DEF StagesInit, RunsOK, PlansFit
<1>7. ~ Suggesting /\ ~ AsksJob /\ ~ TextToCome
  BY <1>1, <1>2, <1>3, DeskHeads DEF Suggesting, PastMatch, AsksJob, TextToCome
<1>8. EarlyJobs = {} /\ Counting = {}
  BY <1>1, <1>2 DEF EarlyJobs, StageClaimable, Counting
<1>9. AskedFor
  BY <1>7, <1>8, FS_EmptySet DEF StagesInit, AskedFor, Owed
<1> QED BY <1>4, <1>5, <1>6, <1>7, <1>9 DEF StagesInv, RowsCarried, TextNoticed

(* Every step keeps the invariant.                                         *)
LEMMA StagesStep ==
  ASSUME StagesInv, [StagesNext]_stageVars PROVE StagesInv'
<1>1. CASE handleReceiptUpload
  BY <1>1, ReceiptUploadKeeps
<1>2. CASE handleReceiptRequeue
  BY <1>2, RequeueKeeps
<1>3. CASE \E k \in Kinds : handleImportUpload(k)
  BY <1>3, ImportUploadKeeps
<1>4. CASE \E s \in Stages : rerunStage(s)
  BY <1>4, RerunKeeps
<1>5. CASE EnqueueFirst
  BY <1>5, EnqueueKeeps
<1>6. CASE StoreText
  BY <1>6, StoreTextKeeps
<1>7. CASE DeskFails
  BY <1>7, DeskFailsKeeps
<1>8. CASE BatchSettles
  BY <1>8, BatchSettlesKeeps
<1>9. ASSUME NEW w \in StageWorkers,
             \/ StepFails(w) \/ WriteLost(w) \/ MarkProcessing(w) \/ Transcribe(w)
             \/ EnsureDraft(w) \/ FillDraft(w) \/ MarkReady(w) \/ RecordReason(w)
             \/ MarkAttention(w) \/ MatchRules(w) \/ CreateSuggestion(w)
             \/ runPipeline(w) \/ CountVendor(w) \/ runDraft(w) \/ HandOver(w)
      PROVE  StagesInv'
  <2>1. Writes(w)
    BY <1>9, StepFailsWrites, WriteLostWrites, MarkProcessingWrites, TranscribeWrites, EnsureDraftWrites,
       FillDraftWrites, MarkReadyWrites, RecordReasonWrites, MarkAttentionWrites, MatchRulesWrites,
       CreateSuggestionWrites, RunPipelineWrites, CountVendorWrites, RunDraftWrites, HandOverWrites
  <2> QED BY <2>1, WritesKeep
<1>10. ASSUME NEW w \in StageWorkers, StartJob(w) \/ PassOn(w) \/ SettleJob(w) PROVE StagesInv'
  BY <1>10, StartJobKeeps, PassOnKeeps, SettleJobKeeps
<1>11. CASE UNCHANGED stageVars
  BY <1>11 DEF stageVars, StagesInv, StagesTypeOK, DeskOK, RunsOK, Blank, PlansFit, Fits, StageOf, OnDuty,
     Grounds, Carried, Told, Judged, AsksJob, StageClaimable, Owes, RowsCarried, Lacking, Suggesting,
     PastMatch, EarlyJobs, Stores, TextNoticed, TextToCome, AskedFor, Owed, Counting
<1> QED BY <1>1, <1>2, <1>3, <1>4, <1>5, <1>6, <1>7, <1>8, <1>9, <1>10, <1>11 DEF StagesNext

(* What the invariant promises of a document at rest.                      *)
LEMMA InvSettles ==
  ASSUME StagesInv PROVE ReceiptsSettle
<1>1. Quiet => /\ StageClaimable = {} /\ ~ AsksJob /\ ~ TextToCome
               /\ \A w \in StageWorkers : ~ OnDuty(w)
  BY DeskHeads DEF Quiet, AsksJob, TextToCome, OnDuty
<1>2. Quiet /\ paper.kind # "none" => Told
  BY <1>1 DEF StagesInv, Carried, Owes
<1>3. Quiet /\ paper.suggested => ~ Lacking
  <2>1. Quiet => EarlyJobs = {}
    BY <1>1 DEF EarlyJobs
  <2>2. paper.suggested => Suggesting
    BY DEF Suggesting
  <2> QED BY <1>1, <2>1, <2>2 DEF StagesInv, RowsCarried, Stores
<1>4. memoized <= asked
  <2>1. AsksJob \in BOOLEAN => (IF AsksJob THEN 1 ELSE 0) \in Nat
    OBVIOUS
  <2> QED BY Tallied DEF Owed
<1> QED BY <1>2, <1>3, <1>4 DEF ReceiptsSettle, StagesInv, Grounds, Told, Lacking

(* The invariant of the stages.                                            *)
THEOREM StagesInvariant == StagesSpec => []StagesInv
<1>1. StagesInit => StagesInv
  BY StagesStart
<1>2. StagesInv /\ [StagesNext]_stageVars => StagesInv'
  BY StagesStep
<1> QED BY <1>1, <1>2, PTL DEF StagesSpec

(* The state of a document's stages is of its type.                        *)
THEOREM StagesTypesHold == StagesSpec => []StagesTypeOK
<1>1. StagesInv => StagesTypeOK
  BY DEF StagesInv
<1> QED BY <1>1, StagesInvariant, PTL

(* No document is left in silence, for any number of workers, jobs, tries, *)
(* requests and faults.                                                    *)
THEOREM ReceiptsSettleHolds == StagesSpec => []ReceiptsSettle
<1>1. StagesInv => ReceiptsSettle
  BY InvSettles
<1> QED BY <1>1, StagesInvariant, PTL

(***************************************************************************)
(* Vendors and their documents.                                            *)
(***************************************************************************)

(* A row has a name and an account.                                        *)
IsRow(r) == r = [name |-> r.name, account |-> r.account]

RowShapes ==
    /\ issued \in Nat
    /\ vendors = [v \in VendorIds |-> vendors[v]]
    /\ human = [v \in VendorIds |-> human[v]]
    /\ \A v \in Existing : IsRow(vendors[v])

(* An id that was never given out has neither row nor choice.              *)
FreshIds == \A v \in VendorIds : v > issued => vendors[v] = Gone /\ human[v] = Unset

VendorInv == RowShapes /\ FreshIds /\ HumanAccountStands

(* There is no vendor.                                                     *)
LEMMA VendorInvInit == VendorInit => VendorInv
BY VendorConstants DEF VendorInit, VendorInv, RowShapes, FreshIds, HumanAccountStands,
     Existing,
   VendorIds

(* Statements that write neither the table nor a choice.                   *)
LEMMA RowsUntouched ==
  ASSUME VendorInv, UNCHANGED <<vendors, issued, human>> PROVE VendorInv'
BY DEF VendorInv, RowShapes, FreshIds, HumanAccountStands, Existing, IsRow

(* The upsert wrote the row of v: a fresh one, or one without an account.  *)
Filled(v, a) ==
    /\ vendors' = [vendors EXCEPT ![v] = vendors'[v]]
    /\ IsRow(vendors'[v])
    /\ \/ v \in Existing /\ issued' = issued /\ v <= issued
       \/ v > issued /\ issued' = v /\ vendors'[v].account = a
    /\ v \in Existing =>
          vendors'[v] = vendors[v] \/ (vendors[v].account = Unset /\ vendors'[v].account = a)

(* The upsert gives out a fresh id, or fills in an account that is unset.  *)
LEMMA CreateFillsIn ==
  ASSUME VendorInv, NEW p, NEW x, NEW n, NEW a, Create(p, x, [name |-> n, account |-> a])
  PROVE  \E v \in VendorIds : Filled(v, a)
<1> USE VendorConstants
<1> DEFINE new == [name |-> n, account |-> a]
<1>0. IsRow(new) /\ new.account = a
  BY DEF IsRow
<1>1. CASE Named(n) = {}
  <2>1. /\ issued + 1 \in VendorIds /\ issued' = issued + 1
        /\ vendors' = [vendors EXCEPT ![issued + 1] = new]
    BY <1>1 DEF Create
  <2>2. vendors'[issued + 1] = new
    BY <2>1 DEF VendorInv, RowShapes
  <2>3. issued + 1 \notin Existing /\ issued + 1 > issued
    BY <2>1 DEF VendorInv, RowShapes, FreshIds, Existing
  <2> HIDE DEF new
  <2>4. Filled(issued + 1, a)
    BY <1>0, <2>1, <2>2, <2>3 DEF Filled
  <2> QED BY <2>1, <2>4
<1>2. CASE Named(n) # {}
  <2> DEFINE v == CHOOSE w \in Named(n) : TRUE
  <2>1. v \in Named(n) /\ v \in Existing /\ v \in VendorIds
    BY <1>2 DEF Named, Existing
  <2>2. /\ issued' = issued
        /\ vendors' = [vendors EXCEPT ![v] = Merged(vendors[v], new)]
    BY <1>2 DEF Create
  <2>3. v <= issued
    BY <2>1 DEF VendorInv, RowShapes, FreshIds, Existing, VendorIds
  <2>4. vendors'[v] = Merged(vendors[v], new)
    BY <2>1, <2>2 DEF VendorInv, RowShapes
  <2>5. IsRow(vendors[v])
    BY <2>1 DEF VendorInv, RowShapes
  <2>6. /\ IsRow(Merged(vendors[v], new))
        /\ vendors[v].account # Unset => Merged(vendors[v], new) = vendors[v]
        /\ vendors[v].account = Unset => Merged(vendors[v], new).account = a
    BY <1>0, <2>5 DEF Merged, IsRow
  <2> HIDE DEF v, new
  <2>7. Filled(v, a)
    BY <2>1, <2>2, <2>3, <2>4, <2>6 DEF Filled
  <2> QED BY <2>1, <2>7
<1> QED BY <1>1, <1>2

(* A row that was filled in keeps the shapes, and the ids fresh, if the    *)
(* choices of the others stay.                                             *)
LEMMA FilledKeeps ==
  ASSUME VendorInv, NEW v \in VendorIds, NEW a, Filled(v, a)
  PROVE  /\ issued' \in Nat /\ issued <= issued' /\ v <= issued'
         /\ vendors' = [w \in VendorIds |-> vendors'[w]]
         /\ \A w \in VendorIds : w # v => vendors'[w] = vendors[w]
         /\ \A w \in Existing' : IsRow(vendors'[w])
<1>1. v \in Nat
  BY VendorConstants DEF VendorIds
<1>2. \A w \in VendorIds : w # v => vendors'[w] = vendors[w]
  BY DEF Filled, VendorInv, RowShapes
<1>3. \A w \in Existing' : IsRow(vendors'[w])
  BY <1>2 DEF Filled, VendorInv, RowShapes, Existing, IsRow
<1> QED BY <1>1, <1>2, <1>3 DEF Filled, VendorInv, RowShapes

(* Memoize leaves a chosen account alone: it is not unset.                 *)
LEMMA MemoizeKeepsChoice ==
  ASSUME VendorInv, NEW p \in Hands, Memoize(p) PROVE VendorInv'
<1> DEFINE a == visit[p].account
<1>1. Create(p, Next_(p), [name |-> visit[p].name, account |-> a]) /\ human' = human
  BY DEF Memoize
<1> HIDE DEF a
<1>2. PICK v \in VendorIds : Filled(v, a)
  BY <1>1, CreateFillsIn
<1>f. /\ issued' \in Nat /\ issued <= issued' /\ v <= issued'
      /\ vendors' = [w \in VendorIds |-> vendors'[w]]
      /\ \A w \in VendorIds : w # v => vendors'[w] = vendors[w]
      /\ \A w \in Existing' : IsRow(vendors'[w])
  BY <1>2, FilledKeeps
<1>3. RowShapes'
  BY <1>1, <1>f DEF VendorInv, RowShapes
<1>4. FreshIds'
  BY VendorConstants, <1>1, <1>f DEF VendorInv, RowShapes, FreshIds, VendorIds
<1>5. HumanAccountStands'
  <2> SUFFICES ASSUME NEW w \in Existing', human[w] # Unset
               PROVE  vendors'[w].account = human[w]
    BY <1>1 DEF HumanAccountStands
  <2>1. w \in VendorIds
    BY DEF Existing
  <2>2. CASE w # v
    BY <1>f, <2>1, <2>2 DEF VendorInv, HumanAccountStands, Existing
  <2>3. CASE w = v
    BY <1>2, <2>1, <2>3 DEF Filled, VendorInv, FreshIds, HumanAccountStands, Existing
  <2> QED BY <2>2, <2>3
<1> QED BY <1>3, <1>4, <1>5 DEF VendorInv

(* A person's create chooses the account it writes.                        *)
LEMMA CreateChooses ==
  ASSUME VendorInv, NEW p \in Hands, NEW n, NEW a, handleVendorsCreate(p, n, a)
  PROVE  VendorInv'
<1>1. Create(p, Visit(NoVendor, Gone, n, a, <<"list", "upsert">>), [name |-> n, account |-> a])
      /\ human' = [v \in VendorIds |-> IF vendors'[v] # vendors[v] THEN a ELSE human[v]]
  BY DEF handleVendorsCreate
<1>2. PICK v \in VendorIds : Filled(v, a)
  BY <1>1, CreateFillsIn
<1>f. /\ issued' \in Nat /\ issued <= issued' /\ v <= issued'
      /\ vendors' = [w \in VendorIds |-> vendors'[w]]
      /\ \A w \in VendorIds : w # v => vendors'[w] = vendors[w]
      /\ \A w \in Existing' : IsRow(vendors'[w])
  BY <1>2, FilledKeeps
<1>3. RowShapes'
  BY <1>1, <1>f DEF VendorInv, RowShapes
<1>4. FreshIds'
  BY VendorConstants, <1>1, <1>f DEF VendorInv, RowShapes, FreshIds, VendorIds
<1>5. HumanAccountStands'
  <2> SUFFICES ASSUME NEW w \in Existing', human'[w] # Unset
               PROVE  vendors'[w].account = human'[w]
    BY DEF HumanAccountStands
  <2>1. w \in VendorIds
    BY DEF Existing
  <2>2. CASE w # v
    BY <1>1, <1>f, <2>1, <2>2 DEF VendorInv, HumanAccountStands, Existing
  <2>3. CASE w = v
    BY <1>1, <1>2, <2>1, <2>3 DEF Filled, VendorInv, FreshIds, HumanAccountStands,
         Existing
  <2> QED BY <2>2, <2>3
<1> QED BY <1>3, <1>4, <1>5 DEF VendorInv

(* An edit, and a reviewer's posting, write what they choose.              *)
LEMMA UpdateChooses ==
  ASSUME VendorInv, NEW p \in Hands, NEW v \in VendorIds, NEW n, NEW a,
         handleVendorsUpdate(p, v, n, a)
  PROVE  VendorInv'
<1>1. /\ vendors' = [vendors EXCEPT ![v] = [name |-> n, account |-> a]]
      /\ human' = [human EXCEPT ![v] = a] /\ issued' = issued /\ v \in Existing
  BY DEF handleVendorsUpdate
<1> QED BY <1>1 DEF VendorInv, RowShapes, FreshIds, HumanAccountStands, Existing, IsRow

(* So does what a reviewer's posting teaches (LearnAccount).               *)
LEMMA LearningChooses ==
  ASSUME VendorInv, NEW p \in Hands, CompareDefault(p) \/ SetDefaultAccount(p)
  PROVE  VendorInv'
<1>1. CASE CompareDefault(p)
  BY <1>1 DEF CompareDefault, Keep, rows, VendorInv, RowShapes, FreshIds,
       HumanAccountStands,
     Existing, IsRow
<1>2. CASE SetDefaultAccount(p)
  <2> DEFINE v == visit[p].vendor
             a == visit[p].account
  <2>1. /\ v \in Existing /\ v \in VendorIds /\ issued' = issued
        /\ vendors' = [vendors EXCEPT ![v] = [@ EXCEPT !.account = a]]
        /\ human' = [human EXCEPT ![v] = a]
    BY <1>2 DEF SetDefaultAccount, Existing
  <2>2. IsRow(vendors[v])
    BY <2>1 DEF VendorInv, RowShapes
  <2>3. IsRow([vendors[v] EXCEPT !.account = a]) /\ [vendors[v] EXCEPT !.account = a].account = a
    BY <2>2 DEF IsRow
  <2> HIDE DEF v, a
  <2> QED BY <2>1, <2>3 DEF VendorInv, RowShapes, FreshIds, HumanAccountStands,
       Existing, IsRow
<1> QED BY <1>1, <1>2

(* A deleted vendor, or account, takes the choice with it.                 *)
LEMMA DeletionsForget ==
  ASSUME VendorInv, \/ \E p \in Hands : DeleteVendor(p)
                    \/ \E a \in Expenses : handleDeleteAccount(a)
  PROVE  VendorInv'
<1>1. ASSUME NEW p \in Hands, DeleteVendor(p) PROVE VendorInv'
  BY <1>1 DEF DeleteVendor, VendorInv, RowShapes, FreshIds, HumanAccountStands,
       Existing, IsRow
<1>2. ASSUME NEW a \in Expenses, handleDeleteAccount(a) PROVE VendorInv'
  <2> DEFINE cleared == {v \in Existing : vendors[v].account = a}
  <2>1. /\ vendors' = [v \in VendorIds |->
              IF v \in cleared THEN [vendors[v] EXCEPT !.account = Unset] ELSE vendors[v]]
        /\ human' = [v \in VendorIds |-> IF human[v] = a THEN Unset ELSE human[v]]
        /\ issued' = issued
    BY <1>2 DEF handleDeleteAccount
  <2>2. \A v \in cleared : IsRow([vendors[v] EXCEPT !.account = Unset])
    <3> TAKE v \in cleared
    <3>1. v \in Existing /\ IsRow(vendors[v])
      BY DEF VendorInv, RowShapes
    <3> QED BY <3>1 DEF IsRow
  <2>3. RowShapes'
    BY <2>1, <2>2 DEF VendorInv, RowShapes, Existing, IsRow
  <2>4. FreshIds'
    BY <2>1 DEF VendorInv, RowShapes, FreshIds, Existing
  <2>5. HumanAccountStands'
    BY <2>1 DEF VendorInv, RowShapes, HumanAccountStands, Existing
  <2> QED BY <2>3, <2>4, <2>5 DEF VendorInv
<1> QED BY <1>1, <1>2

(* Every other statement of a visit is about aliases and documents.        *)
LaterStatements(p) ==
    \/ Record(p) \/ ReadVendor(p) \/ ReadMisses(p) \/ ListNormalized(p) \/ UpsertVendor(p)
    \/ IndexFails(p) \/ SetResolvedVendor(p) \/ RecordConfirmed(p) \/ DropDocument(p)
    \/ ForeignKeyRefuses(p)

(* They write neither a row nor a choice.                                  *)
LEMMA OthersLeaveRows ==
  ASSUME NEW p \in Hands, LaterStatements(p) PROVE UNCHANGED <<vendors, issued, human>>
BY DEF LaterStatements, Record, ReadVendor, ReadMisses, ListNormalized, UpsertVendor,
     IndexFails,
   SetResolvedVendor, RecordConfirmed, DropDocument, ForeignKeyRefuses, rows

(* Nor does the beginning of a visit.                                      *)
LEMMA ArrivalsLeaveRows ==
  ASSUME NEW p \in Hands, NEW x, Arrive(p, x) PROVE UNCHANGED <<vendors, issued, human>>
BY DEF Arrive, rows

(* What a handler does before its first statement.                         *)
LEMMA VisitsKeep == ASSUME VendorInv, NEW p \in Hands, Visits(p) PROVE VendorInv'
<1>1. CASE \E raw \in Raws : \/ \E v \in VendorIds : ResolveMatch(p, raw, v)
                             \/ \E n \in VendorNames, a \in Expenses : ResolveProposal(p, raw, n, a)
                             \/ \E a \in Expenses : LearnAccount(p, raw, a)
  BY <1>1, ArrivalsLeaveRows, RowsUntouched DEF ResolveMatch, ResolveProposal,
       LearnAccount
<1>2. CASE \E v \in VendorIds : Reindex(p, v) \/ handleVendorsDelete(p, v)
  BY <1>2, ArrivalsLeaveRows, RowsUntouched DEF Reindex, handleVendorsDelete
<1>3. CASE \E v \in VendorIds, n \in VendorNames, a \in Expenses \cup {Unset} :
              handleVendorsUpdate(p, v, n, a)
  BY <1>3, UpdateChooses
<1>4. CASE \E n \in VendorNames, a \in Expenses \cup {Unset} : handleVendorsCreate(p, n, a)
  BY <1>4, CreateChooses
<1> QED BY <1>1, <1>2, <1>3, <1>4 DEF Visits

(* Every statement of every visit keeps the invariant.                     *)
LEMMA VendorInvStep == VendorInv /\ [VendorNext]_vendorVars => VendorInv'
<1> SUFFICES ASSUME VendorInv, [VendorNext]_vendorVars PROVE VendorInv'
  OBVIOUS
<1>1. CASE \E p \in Hands : Visits(p)
  BY <1>1, VisitsKeep
<1>2. CASE \E p \in Hands : Memoize(p)
  BY <1>2, MemoizeKeepsChoice
<1>3. CASE \E p \in Hands : CompareDefault(p) \/ SetDefaultAccount(p)
  BY <1>3, LearningChooses
<1>4. CASE \/ \E p \in Hands : DeleteVendor(p)
           \/ \E a \in Expenses : handleDeleteAccount(a)
  BY <1>4, DeletionsForget
<1>5. CASE \E p \in Hands : LaterStatements(p)
  BY <1>5, OthersLeaveRows, RowsUntouched
<1>6. CASE \E raw \in Raws, v \in 0 .. MaxVendors : handleReceiptSetVendor(raw, v)
  BY <1>6, RowsUntouched DEF handleReceiptSetVendor
<1>7. CASE UNCHANGED vendorVars
  BY <1>7, RowsUntouched DEF vendorVars, rows
<1> QED BY <1>1, <1>2, <1>3, <1>4, <1>5, <1>6, <1>7 DEF VendorNext, LaterStatements

(* A person's choice of a vendor's account outlives every proposal: the    *)
(* pipeline's upsert (Memoize, VendorStore.Create) only ever fills in an   *)
(* account that is unset, and an id that was deleted is never issued again.*)
THEOREM HumanChoiceStands == VendorSpec => []HumanAccountStands
<1>1. VendorInv => HumanAccountStands
  BY DEF VendorInv
<1> QED BY VendorInvInit, VendorInvStep, <1>1, PTL DEF VendorSpec

-----------------------------------------------------------------------------
(* The documents.                                                          *)

(* What a visit has left, named for what it does next.                     *)
Memoizing == {<<"memoize", "record", "read", "list", "upsert", "resolve">>}
Recording == {<<"record", "read", "list", "upsert", "resolve">>}
Comparing == {<<"compare", "set", "confirm", "read", "list", "upsert">>}
Setting   == {<<"set", "confirm", "read", "list", "upsert">>}
Reading   == {<<"read", "list", "upsert">>, <<"read", "list", "upsert", "resolve">>}
Mending   == {<<"confirm", "read", "list", "upsert">>} \cup Reading
Listing   == {<<"list", "upsert">>, <<"list", "upsert", "resolve">>}
Upserting == {<<"upsert">>, <<"upsert", "resolve">>}
Deleting  == {<<"delete", "drop">>}
Dropping  == {<<"drop">>}
Resolving == {<<"resolve">>}

VisitPlans == Memoizing \cup Recording \cup Comparing \cup Setting \cup Mending \cup Listing
         \cup Upserting \cup Deleting \cup Dropping \cup Resolving

IsVisit(x) == x = [todo |-> x.todo, vendor |-> x.vendor, raw |-> x.raw, name |-> x.name,
                   account |-> x.account, row |-> x.row, aliases |-> x.aliases, late |-> x.late]

(* A visit that has read its vendor holds the present row, and later the   *)
(* present aliases, or knows that it is late.                              *)
IsSound(p) ==
    LET x == visit[p] IN
    /\ IsVisit(x) /\ x.todo \in VisitPlans /\ x.late \in BOOLEAN
    /\ x.vendor \in VendorIds \/ x.todo \in Memoizing
    /\ x.todo \in Listing \cup Upserting => x.row # Gone
    /\ x.row # Gone => x.todo \in Recording \cup Reading \cup Listing \cup Upserting \cup Resolving
    /\ x.row # Gone /\ ~ x.late => x.vendor \in VendorIds /\ vendors[x.vendor] = x.row
    /\ x.todo \in Upserting /\ ~ x.late => x.aliases = Aliases(x.vendor)

(* The visit will write the document of v again, or remove it.             *)
Due(p, v) ==
    /\ AtDesk(p) /\ visit[p].vendor = v
    /\ \/ visit[p].todo \in Mending \cup Listing \cup Upserting /\ v \in Existing
       \/ visit[p].todo \in Dropping

DocStands(v) ==
    \/ v \in excused \/ mirror[v] = Gone
    \/ v \in Existing /\ mirror[v] = Document(vendors[v], Aliases(v))
    \/ \E p \in Hands : Due(p, v)

DocShapes ==
    /\ mirror = [v \in VendorIds |-> mirror[v]]
    /\ visit = [p \in Hands |-> visit[p]]
    /\ alias \in [Raws -> VendorIds \cup {NoVendor}]
    /\ resolved \in [Raws -> VendorIds \cup {NoVendor}]

VisitsSound == \A p \in Hands : AtDesk(p) => IsSound(p)

DocInv == VendorInv /\ DocShapes /\ VisitsSound /\ \A v \in VendorIds : DocStands(v)

(* The first statement of a visit, and the rest.                           *)
LEMMA VisitTails ==
  /\ \A a : Head(<<a>>) = a /\ Len(<<a>>) = 1
  /\ \A a, b : Head(<<a, b>>) = a /\ Tail(<<a, b>>) = <<b>> /\ Len(<<a, b>>) = 2
  /\ \A a, b, c : Head(<<a, b, c>>) = a /\ Tail(<<a, b, c>>) = <<b, c>> /\ Len(<<a, b, c>>) = 3
  /\ \A a, b, c, d : /\ Head(<<a, b, c, d>>) = a /\ Tail(<<a, b, c, d>>) = <<b, c, d>>
                     /\ Len(<<a, b, c, d>>) = 4
  /\ \A a, b, c, d, e : /\ Head(<<a, b, c, d, e>>) = a /\ Tail(<<a, b, c, d, e>>) = <<b, c, d, e>>
                        /\ Len(<<a, b, c, d, e>>) = 5
  /\ \A a, b, c, d, e, f :
        /\ Head(<<a, b, c, d, e, f>>) = a /\ Tail(<<a, b, c, d, e, f>>) = <<b, c, d, e, f>>
        /\ Len(<<a, b, c, d, e, f>>) = 6
OBVIOUS

(* What comes first in each group of plans, and what is left behind it.    *)
LEMMA EarlyHeads ==
  /\ \A t \in Memoizing : Head(t) = "memoize" /\ Len(t) # 1 /\ Tail(t) \in Recording
  /\ \A t \in Recording : Head(t) = "record" /\ Len(t) # 1 /\ Tail(t) \in Reading
  /\ \A t \in Comparing : Head(t) = "compare" /\ Len(t) # 1 /\ Tail(t) \in Setting
  /\ \A t \in Setting : Head(t) = "set" /\ Len(t) # 1 /\ Tail(t) \in Mending
  /\ \A t \in Deleting : Head(t) = "delete" /\ Len(t) # 1 /\ Tail(t) \in Dropping
  /\ \A t \in Dropping : Head(t) = "drop" /\ Len(t) = 1
  /\ \A t \in Resolving : Head(t) = "resolve" /\ Len(t) = 1
BY VisitTails DEF Memoizing, Recording, Comparing, Setting, Mending, Reading, Deleting, Dropping,
   Resolving

(* The refresh of a document.                                              *)
LEMMA RefreshHeads ==
  /\ \A t \in Reading : Head(t) = "read" /\ Len(t) # 1 /\ Tail(t) \in Listing
  /\ \A t \in Mending \ Reading : Head(t) = "confirm" /\ Len(t) # 1 /\ Tail(t) \in Reading
  /\ \A t \in Listing : Head(t) = "list" /\ Len(t) # 1 /\ Tail(t) \in Upserting
  /\ \A t \in Upserting : Head(t) = "upsert" /\ (Len(t) # 1 => Tail(t) \in Resolving)
<1>1. \A t \in Upserting : Head(t) = "upsert" /\ (Len(t) # 1 => Tail(t) \in Resolving)
  BY VisitTails DEF Upserting, Resolving
<1>2. ASSUME NEW t \in Listing PROVE Head(t) = "list" /\ Len(t) # 1 /\ Tail(t) \in Upserting
  <2>1. CASE t = <<"list", "upsert">>
    BY <2>1, VisitTails DEF Upserting
  <2>2. CASE t = <<"list", "upsert", "resolve">>
    BY <2>2, VisitTails DEF Upserting
  <2> QED BY <2>1, <2>2 DEF Listing
<1>3. ASSUME NEW t \in Reading PROVE Head(t) = "read" /\ Len(t) # 1 /\ Tail(t) \in Listing
  <2>1. CASE t = <<"read", "list", "upsert">>
    BY <2>1, VisitTails DEF Listing
  <2>2. CASE t = <<"read", "list", "upsert", "resolve">>
    BY <2>2, VisitTails DEF Listing
  <2> QED BY <2>1, <2>2 DEF Reading
<1>4. ASSUME NEW t \in Mending \ Reading
      PROVE  Head(t) = "confirm" /\ Len(t) # 1 /\ Tail(t) \in Reading
  <2>1. t = <<"confirm", "read", "list", "upsert">>
    BY DEF Mending
  <2> QED BY <2>1, VisitTails DEF Reading
<1> QED BY <1>1, <1>2, <1>3, <1>4

(* The next statement tells the group.                                     *)
LEMMA PlanOfHead ==
  ASSUME NEW t \in VisitPlans
  PROVE  /\ Head(t) = "memoize" <=> t \in Memoizing
         /\ Head(t) = "record"  <=> t \in Recording
         /\ Head(t) = "compare" <=> t \in Comparing
         /\ Head(t) = "set"     <=> t \in Setting
         /\ Head(t) = "delete"  <=> t \in Deleting
         /\ Head(t) = "drop"    <=> t \in Dropping
         /\ Head(t) = "resolve" <=> t \in Resolving
         /\ Head(t) = "confirm" <=> t \in Mending \ Reading
         /\ Head(t) = "read"    <=> t \in Reading
         /\ Head(t) = "list"    <=> t \in Listing
         /\ Head(t) = "upsert"  <=> t \in Upserting
         /\ t \in Mending \cup Listing \cup Upserting
               <=> Head(t) \in {"confirm", "read", "list", "upsert"}
<1>1. Reading \subseteq Mending
  BY DEF Mending
<1> QED BY <1>1, EarlyHeads, RefreshHeads DEF VisitPlans

(* A visit that goes on keeps all but its first statement.                 *)
LEMMA LaterVisit ==
  ASSUME NEW x, IsVisit(x)
  PROVE  /\ Len(x.todo) = 1 => Later(x) = Resting_
         /\ Len(x.todo) # 1 =>
               Later(x) = [todo |-> Tail(x.todo), vendor |-> x.vendor, raw |-> x.raw,
                           name |-> x.name, account |-> x.account, row |-> x.row,
                           aliases |-> x.aliases, late |-> x.late]
BY DEF IsVisit, Later

(* A visit with a statement left does not rest.                            *)
LEMMA NotResting == ASSUME NEW x, x.todo # <<>> PROVE x # Resting_
BY DEF Resting_

(* A visit at a desk has a statement left.                                 *)
LEMMA PlanNotEmpty == <<>> \notin VisitPlans
BY
   DEF VisitPlans, Memoizing, Recording, Comparing, Setting, Mending, Reading, Listing, Upserting,
   Deleting, Dropping, Resolving

(* The upsert's data are a row.                                            *)
LEMMA RowIsThere == \A n, a : [name |-> n, account |-> a] # Gone
BY DEF Gone

(* Somebody else's write marks a visit that has read its vendor.           *)
Bystander(q, vs) ==
    \/ visit'[q] = visit[q] /\ (AtDesk(q) /\ visit[q].vendor \in vs => visit[q].row = Gone)
    \/ AtDesk(q) /\ visit'[q] = [visit[q] EXCEPT !.late = TRUE]

(* Being marked late changes nothing else of a visit.                      *)
LEMMA LateVisit ==
  ASSUME NEW x, IsVisit(x), NEW y, y = [x EXCEPT !.late = TRUE]
  PROVE  /\ y.todo = x.todo /\ y.vendor = x.vendor /\ y.row = x.row /\ y.aliases = x.aliases
         /\ y.late = TRUE /\ IsVisit(y)
BY DEF IsVisit

(* Whoever watches a write stays sound, and owes what it owed.             *)
LEMMA BystanderSound ==
  ASSUME NEW q \in Hands, NEW vs, AtDesk(q) => IsSound(q), Bystander(q, vs),
         \A v \in VendorIds \ vs : vendors'[v] = vendors[v] /\ Aliases(v)' = Aliases(v)
  PROVE  /\ AtDesk(q)' => IsSound(q)'
         /\ \A v \in VendorIds : Due(q, v) /\ (v \in Existing => v \in Existing') => Due(q, v)'
<1>1. CASE AtDesk(q) /\ visit'[q] = [visit[q] EXCEPT !.late = TRUE]
  <2> DEFINE x == visit[q]
             y == visit'[q]
  <2>1. IsSound(q) /\ IsVisit(x)
    BY <1>1 DEF IsSound
  <2>2. /\ y.todo = x.todo /\ y.vendor = x.vendor /\ y.row = x.row /\ y.aliases = x.aliases
        /\ y.late = TRUE /\ IsVisit(y)
    BY <1>1, <2>1, LateVisit
  <2>3. x.todo # <<>>
    BY <2>1, PlanNotEmpty DEF IsSound
  <2>4. AtDesk(q)'
    BY <2>2, <2>3, NotResting DEF AtDesk
  <2>5. IsSound(q)'
    BY <2>1, <2>2 DEF IsSound
  <2> QED BY <2>2, <2>4, <2>5 DEF Due
<1>2. CASE visit'[q] = visit[q] /\ (AtDesk(q) /\ visit[q].vendor \in vs => visit[q].row = Gone)
  <2>1. AtDesk(q)' <=> AtDesk(q)
    BY <1>2 DEF AtDesk
  <2>2. AtDesk(q) => IsSound(q)'
    <3> SUFFICES ASSUME AtDesk(q) PROVE IsSound(q)'
      OBVIOUS
    <3>1. IsSound(q)
      OBVIOUS
    <3>2. visit[q].row # Gone => visit[q].vendor \notin vs
      BY <1>2
    <3>3. visit[q].todo \in Upserting => visit[q].row # Gone
      BY <3>1 DEF IsSound
    <3>4. visit[q].row # Gone /\ ~ visit[q].late => visit[q].vendor \in VendorIds \ vs
      BY <3>1, <3>2 DEF IsSound
    <3> QED BY <1>2, <3>1, <3>2, <3>3, <3>4 DEF IsSound
  <2> QED BY <1>2, <2>1, <2>2 DEF Due
<1> QED BY <1>1, <1>2 DEF Bystander

(* A step of p that leaves the documents alone, and whatever it writes     *)
(* elsewhere: each vendor is excused, or due to p, or as it was.           *)
LEMMA WriteKeeps ==
  ASSUME DocInv, VendorInv', DocShapes', NEW p, NEW vs,
         \A q \in Hands \ {p} : Bystander(q, vs),
         \A v \in VendorIds \ vs : vendors'[v] = vendors[v] /\ Aliases(v)' = Aliases(v),
         mirror' = mirror, p \in Hands => (AtDesk(p)' => IsSound(p)'),
         \A v \in VendorIds :
            \/ v \in excused'
            \/ p \in Hands /\ Due(p, v)'
            \/ /\ vendors'[v] = vendors[v] /\ Aliases(v)' = Aliases(v)
               /\ v \notin excused /\ (p \in Hands => ~ Due(p, v))
  PROVE  DocInv'
<1>1. \A q \in Hands \ {p} :
         /\ AtDesk(q)' => IsSound(q)'
         /\ \A v \in VendorIds : Due(q, v) /\ (v \in Existing => v \in Existing') => Due(q, v)'
  BY BystanderSound DEF DocInv, VisitsSound
<1>2. VisitsSound'
  BY <1>1 DEF VisitsSound
<1>3. ASSUME NEW v \in VendorIds PROVE DocStands(v)'
  <2>1. CASE v \in excused' \/ (p \in Hands /\ Due(p, v)')
    BY <2>1 DEF DocStands
  <2>2. CASE /\ vendors'[v] = vendors[v] /\ Aliases(v)' = Aliases(v)
             /\ v \notin excused /\ (p \in Hands => ~ Due(p, v))
    <3>1. DocStands(v) /\ (v \in Existing' <=> v \in Existing)
      BY <2>2 DEF DocInv, Existing
    <3>2. (\E q \in Hands : Due(q, v)) => \E q \in Hands : Due(q, v)'
      BY <1>1, <2>2, <3>1
    <3> QED BY <2>2, <3>1, <3>2 DEF DocStands, Document
  <2> QED BY <2>1, <2>2
<1> QED BY <1>2, <1>3 DEF DocInv

(* A step of p that writes neither vendors nor aliases nor documents.      *)
LEMMA StepKeeps ==
  ASSUME DocInv, VendorInv', NEW p \in Hands, UNCHANGED <<vendors, alias, mirror>>,
         resolved' \in [Raws -> VendorIds \cup {NoVendor}],
         visit' = [visit EXCEPT ![p] = visit'[p]], AtDesk(p)' => IsSound(p)',
         excused \subseteq excused',
         \A v \in VendorIds : Due(p, v) => v \in excused' \/ Due(p, v)'
  PROVE  DocInv'
<1>1. DocShapes' /\ \A q \in Hands \ {p} : visit'[q] = visit[q]
  BY DEF DocInv, DocShapes
<1>2. \A q \in Hands \ {p} : Bystander(q, {})
  BY <1>1 DEF Bystander
<1>3. \A v \in VendorIds : vendors'[v] = vendors[v] /\ Aliases(v)' = Aliases(v)
  BY DEF Aliases
<1> QED BY <1>1, <1>2, <1>3, WriteKeeps

(* What p, who is at a statement, has left.                                *)
LEMMA AtStatement ==
  ASSUME DocInv, NEW p \in Hands, AtDesk(p)
  PROVE  /\ IsSound(p) /\ IsVisit(visit[p]) /\ visit[p].todo \in VisitPlans
         /\ \A v : Due(p, v) <=>
               /\ visit[p].vendor = v
               /\ \/ Head(visit[p].todo) \in {"confirm", "read", "list", "upsert"} /\ v \in Existing
                  \/ Head(visit[p].todo) = "drop"
<1>1. IsSound(p)
  BY DEF DocInv, VisitsSound
<1>2. visit[p].todo \in VisitPlans
  BY <1>1 DEF IsSound
<1> QED BY <1>1, <1>2, PlanOfHead DEF IsSound, Due

(* A request begins its visit.                                             *)
LEMMA ArriveKeeps ==
  ASSUME DocInv, VendorInv', NEW p \in Hands, NEW x, Arrive(p, x),
         IsVisit(x), x.todo \in VisitPlans \ (Listing \cup Upserting), x.row = Gone, x.late = FALSE,
         x.vendor \in VendorIds \/ x.todo \in Memoizing
  PROVE  DocInv'
<1>1. /\ ~ AtDesk(p) /\ visit' = [visit EXCEPT ![p] = x]
      /\ UNCHANGED <<vendors, alias, resolved, mirror, excused>>
  BY DEF Arrive, rows
<1>2. visit'[p] = x /\ resolved \in [Raws -> VendorIds \cup {NoVendor}]
  BY <1>1 DEF DocInv, DocShapes
<1>3. IsSound(p)'
  BY <1>2 DEF IsSound
<1>4. \A v : ~ Due(p, v)
  BY <1>1 DEF Due
<1> QED BY <1>1, <1>2, <1>3, <1>4, StepKeeps

(* Statements joined.                                                      *)
LEMMA Joined ==
  /\ \A a, b, c, d, e : <<a>> \o <<b, c, d>> \o <<e>> = <<a, b, c, d, e>>
  /\ \A a, b, c, d, e, f : <<a, b>> \o <<c, d, e>> \o <<f>> = <<a, b, c, d, e, f>>
  /\ \A a, b, c, d, e, f : <<a, b, c>> \o <<d, e, f>> = <<a, b, c, d, e, f>>
  /\ \A a, b, c, d : <<a, b, c>> \o <<d>> = <<a, b, c, d>>
<1>1. ASSUME NEW a, NEW b, NEW c, NEW d, NEW e
      PROVE  <<a>> \o <<b, c, d>> \o <<e>> = <<a, b, c, d, e>>
  <2> DEFINE S == {a, b, c, d, e}
             y == <<a>> \o <<b, c, d>> \o <<e>>
             z == <<a, b, c, d, e>>
  <2>1. y \in Seq(S) /\ Len(y) = 5 /\ z \in Seq(S) /\ Len(z) = 5
    OBVIOUS
  <2>2. /\ y[1] = a /\ y[2] = b /\ y[3] = c /\ y[4] = d /\ y[5] = e
        /\ z[1] = a /\ z[2] = b /\ z[3] = c /\ z[4] = d /\ z[5] = e
    OBVIOUS
  <2> HIDE DEF S, y, z
  <2>3. \A i \in 1 .. Len(y) : y[i] = z[i]
    BY <2>1, <2>2
  <2>4. y = z
    BY <2>1, <2>3, SeqEqual
  <2> QED BY <2>4 DEF y, z
<1>2. ASSUME NEW a, NEW b, NEW c, NEW d, NEW e, NEW f
      PROVE  <<a, b>> \o <<c, d, e>> \o <<f>> = <<a, b, c, d, e, f>>
  <2> DEFINE S == {a, b, c, d, e, f}
             y == <<a, b>> \o <<c, d, e>> \o <<f>>
             z == <<a, b, c, d, e, f>>
  <2>1. y \in Seq(S) /\ Len(y) = 6 /\ z \in Seq(S) /\ Len(z) = 6
    OBVIOUS
  <2>2. /\ y[1] = a /\ y[2] = b /\ y[3] = c /\ y[4] = d /\ y[5] = e /\ y[6] = f
        /\ z[1] = a /\ z[2] = b /\ z[3] = c /\ z[4] = d /\ z[5] = e /\ z[6] = f
    OBVIOUS
  <2> HIDE DEF S, y, z
  <2>3. \A i \in 1 .. Len(y) : y[i] = z[i]
    BY <2>1, <2>2
  <2>4. y = z
    BY <2>1, <2>3, SeqEqual
  <2> QED BY <2>4 DEF y, z
<1>3. ASSUME NEW a, NEW b, NEW c, NEW d, NEW e, NEW f
      PROVE  <<a, b, c>> \o <<d, e, f>> = <<a, b, c, d, e, f>>
  <2> DEFINE S == {a, b, c, d, e, f}
             y == <<a, b, c>> \o <<d, e, f>>
             z == <<a, b, c, d, e, f>>
  <2>1. y \in Seq(S) /\ Len(y) = 6 /\ z \in Seq(S) /\ Len(z) = 6
    OBVIOUS
  <2>2. /\ y[1] = a /\ y[2] = b /\ y[3] = c /\ y[4] = d /\ y[5] = e /\ y[6] = f
        /\ z[1] = a /\ z[2] = b /\ z[3] = c /\ z[4] = d /\ z[5] = e /\ z[6] = f
    OBVIOUS
  <2> HIDE DEF S, y, z
  <2>3. \A i \in 1 .. Len(y) : y[i] = z[i]
    BY <2>1, <2>2
  <2>4. y = z
    BY <2>1, <2>3, SeqEqual
  <2> QED BY <2>4 DEF y, z
<1>4. ASSUME NEW a, NEW b, NEW c, NEW d
      PROVE  <<a, b, c>> \o <<d>> = <<a, b, c, d>>
  <2> DEFINE S == {a, b, c, d}
             y == <<a, b, c>> \o <<d>>
             z == <<a, b, c, d>>
  <2>1. y \in Seq(S) /\ Len(y) = 4 /\ z \in Seq(S) /\ Len(z) = 4
    OBVIOUS
  <2>2. /\ y[1] = a /\ y[2] = b /\ y[3] = c /\ y[4] = d
        /\ z[1] = a /\ z[2] = b /\ z[3] = c /\ z[4] = d
    OBVIOUS
  <2> HIDE DEF S, y, z
  <2>3. \A i \in 1 .. Len(y) : y[i] = z[i]
    BY <2>1, <2>2
  <2>4. y = z
    BY <2>1, <2>3, SeqEqual
  <2> QED BY <2>4 DEF y, z
<1> QED BY <1>1, <1>2, <1>3, <1>4

(* What each request begins with.                                          *)
LEMMA FirstPlans ==
  /\ <<"record">> \o Refresh \o <<"resolve">> \in Recording
  /\ <<"memoize", "record">> \o Refresh \o <<"resolve">> \in Memoizing
  /\ <<"compare", "set", "confirm">> \o Refresh \in Comparing
  /\ Refresh \in Reading /\ Refresh \o <<"resolve">> \in Reading
  /\ <<"delete", "drop">> \in Deleting /\ <<"list", "upsert">> \in Listing
BY Joined DEF Refresh, Recording, Memoizing, Comparing, Reading, Deleting, Listing

(* A visit that begins has read nothing.                                   *)
LEMMA FreshVisit ==
  ASSUME NEW v, NEW raw, NEW name, NEW account, NEW todo
  PROVE  LET x == Visit(v, raw, name, account, todo) IN
         IsVisit(x) /\ x.todo = todo /\ x.vendor = v /\ x.row = Gone /\ x.late = FALSE
BY DEF Visit, IsVisit

(* A visit that begins touches no document.                                *)
LEMMA ArrivalsKeep ==
  ASSUME DocInv, VendorInv', NEW p \in Hands,
         \/ \E raw \in Raws : \/ \E v \in VendorIds : ResolveMatch(p, raw, v)
                              \/ \E n \in VendorNames, a \in Expenses : ResolveProposal(p, raw, n, a)
                              \/ \E a \in Expenses : LearnAccount(p, raw, a)
         \/ \E v \in VendorIds : Reindex(p, v) \/ handleVendorsDelete(p, v)
  PROVE  DocInv'
<1>0. /\ VisitPlans \ (Listing \cup Upserting) = 
         Memoizing \cup Recording \cup Comparing \cup Setting \cup Mending \cup Deleting \cup Dropping
           \cup Resolving
      /\ Reading \subseteq Mending
  BY PlanOfHead, EarlyHeads, RefreshHeads DEF VisitPlans, Mending
<1>1. ASSUME NEW raw \in Raws, NEW v \in VendorIds, ResolveMatch(p, raw, v) PROVE DocInv'
  BY <1>0, <1>1, FirstPlans, FreshVisit, ArriveKeeps DEF ResolveMatch
<1>2. ASSUME NEW raw \in Raws, NEW n \in VendorNames, NEW a \in Expenses, ResolveProposal(p, raw, n, a)
      PROVE  DocInv'
  BY <1>0, <1>2, FirstPlans, FreshVisit, ArriveKeeps DEF ResolveProposal
<1>3. ASSUME NEW raw \in Raws, NEW a \in Expenses, LearnAccount(p, raw, a) PROVE DocInv'
  <2>1. resolved[raw] \in VendorIds
    BY <1>3 DEF LearnAccount, DocInv, DocShapes
  <2> QED BY <1>0, <1>3, <2>1, FirstPlans, FreshVisit, ArriveKeeps DEF LearnAccount
<1>4. ASSUME NEW v \in VendorIds, Reindex(p, v) \/ handleVendorsDelete(p, v) PROVE DocInv'
  BY <1>0, <1>4, FirstPlans, FreshVisit, ArriveKeeps DEF Reindex, handleVendorsDelete
<1> QED BY <1>1, <1>2, <1>3, <1>4

(* Locals that a statement writes.                                         *)
Edited(x, v, r, b) == [x EXCEPT !.vendor = v, !.row = r, !.late = b]
Reread(x, r, b)    == [x EXCEPT !.row = r, !.late = b]

(* They change these and nothing else.                                     *)
LEMMA RereadVisit ==
  ASSUME NEW x, IsVisit(x), NEW r, NEW b
  PROVE  LET z == Reread(x, r, b) IN
         /\ IsVisit(z) /\ z.todo = x.todo /\ z.vendor = x.vendor /\ z.row = r /\ z.late = b
         /\ z.raw = x.raw /\ z.name = x.name /\ z.aliases = x.aliases
<1> DEFINE Of(s, l) == [todo |-> x.todo, vendor |-> x.vendor, raw |-> x.raw, name |-> x.name,
                        account |-> x.account, row |-> s, aliases |-> x.aliases, late |-> l]
<1>1. [x EXCEPT !.row = r] = Of(r, x.late)
  BY DEF IsVisit
<1>2. [Of(r, x.late) EXCEPT !.late = b] = Of(r, b)
  OBVIOUS
<1>3. Reread(x, r, b) = Of(r, b)
  BY <1>1, <1>2, Zenon DEF Reread
<1> QED BY <1>3 DEF IsVisit

(* So does a visit that finds the vendor it was looking for.               *)
LEMMA EditedVisit ==
  ASSUME NEW x, IsVisit(x), NEW v, NEW r, NEW b
  PROVE  LET y == Edited(x, v, r, b) IN
         /\ IsVisit(y) /\ y.todo = x.todo /\ y.vendor = v /\ y.row = r /\ y.late = b
         /\ y.raw = x.raw /\ y.name = x.name /\ y.aliases = x.aliases
<1> DEFINE z == [x EXCEPT !.vendor = v]
<1>1. /\ IsVisit(z) /\ z.todo = x.todo /\ z.vendor = v
      /\ z.raw = x.raw /\ z.name = x.name /\ z.aliases = x.aliases
  BY DEF IsVisit
<1>2. Edited(x, v, r, b) = Reread(z, r, b)
  BY Zenon DEF Edited, Reread
<1> HIDE DEF z
<1> QED BY <1>1, <1>2, RereadVisit

(* A write marks whoever has read the vendor.                              *)
LEMMA TouchedVisits ==
  ASSUME NEW p \in Hands, NEW vs, NEW x, Touched(vs, p, x)
  PROVE  /\ visit' = [q \in Hands |-> visit'[q]] /\ visit'[p] = x
         /\ \A q \in Hands \ {p} : Bystander(q, vs)
<1>1. \A q \in Hands \ {p} :
         visit'[q] = IF AtDesk(q) /\ visit[q].vendor \in vs /\ visit[q].row # Gone
                     THEN [visit[q] EXCEPT !.late = TRUE] ELSE visit[q]
  BY DEF Touched
<1>2. visit' = [q \in Hands |-> visit'[q]] /\ visit'[p] = x
  BY DEF Touched
<1> QED BY <1>1, <1>2 DEF Bystander

(* The upsert wrote the row of one vendor, which the caller goes on with.  *)
LEMMA CreateWrites ==
  ASSUME DocInv, NEW p \in Hands, NEW x, IsVisit(x), NEW n, NEW a,
         Create(p, x, [name |-> n, account |-> a])
  PROVE  \E v \in VendorIds :
           /\ \A w \in VendorIds \ {v} : vendors'[w] = vendors[w]
           /\ visit' = [q \in Hands |-> visit'[q]]
           /\ \A q \in Hands \ {p} : Bystander(q, {v})
           /\ IsVisit(visit'[p]) /\ visit'[p].vendor = v /\ visit'[p].todo = x.todo
           /\ visit'[p].row # Gone /\ visit'[p].late \in BOOLEAN
           /\ ~ visit'[p].late => vendors'[v] = visit'[p].row
<1> DEFINE new == [name |-> n, account |-> a]
           hit == Named(new.name)
           v   == IF hit = {} THEN issued + 1 ELSE CHOOSE w \in hit : TRUE
           row == IF hit = {} THEN new ELSE Merged(vendors[v], new)
           b   == row # new
           y   == [x EXCEPT !.vendor = v, !.row = new, !.late = b]
<1>1. v \in VendorIds /\ vendors' = [vendors EXCEPT ![v] = row] /\ Touched({v}, p, y)
  BY DEF Create
<1>2. new # Gone
  BY RowIsThere
<1>8. b \in BOOLEAN /\ (~ b => row = new)
  OBVIOUS
<1> HIDE DEF new, hit, v, row, b
<1>3. y = Edited(x, v, new, b)
  BY DEF Edited
<1> HIDE DEF y
<1>4. /\ IsVisit(y) /\ y.vendor = v /\ y.todo = x.todo /\ y.row = new /\ y.late = b
  BY <1>3, EditedVisit
<1>5. vendors'[v] = row /\ \A w \in VendorIds \ {v} : vendors'[w] = vendors[w]
  BY <1>1 DEF DocInv, VendorInv, RowShapes
<1>6. /\ visit' = [q \in Hands |-> visit'[q]] /\ visit'[p] = y
      /\ \A q \in Hands \ {p} : Bystander(q, {v})
  BY <1>1, TouchedVisits
<1>7. y.late \in BOOLEAN /\ (~ y.late => vendors'[v] = y.row)
  BY <1>4, <1>5, <1>8
<1> QED BY <1>1, <1>2, <1>4, <1>5, <1>6, <1>7

(* After an upsert the vendor is as it was, or excused.                    *)
LEMMA CreateKeeps ==
  ASSUME DocInv, VendorInv', NEW p \in Hands, NEW x, IsVisit(x), NEW n, NEW a,
         Create(p, x, [name |-> n, account |-> a]), mirror' = mirror,
         x.todo \in Recording \cup Listing, AtDesk(p) => visit[p].todo \in Memoizing,
         excused' = excused \cup {v \in VendorIds : vendors'[v] # vendors[v]}
  PROVE  DocInv'
<1>1. PICK v \in VendorIds :
           /\ \A w \in VendorIds \ {v} : vendors'[w] = vendors[w]
           /\ visit' = [q \in Hands |-> visit'[q]]
           /\ \A q \in Hands \ {p} : Bystander(q, {v})
           /\ IsVisit(visit'[p]) /\ visit'[p].vendor = v /\ visit'[p].todo = x.todo
           /\ visit'[p].row # Gone /\ visit'[p].late \in BOOLEAN
           /\ ~ visit'[p].late => vendors'[v] = visit'[p].row
  BY CreateWrites
<1>2. UNCHANGED <<alias, resolved>>
  BY DEF Create
<1>3. DocShapes' /\ \A w : Aliases(w)' = Aliases(w)
  BY <1>1, <1>2 DEF DocInv, DocShapes, Aliases
<1>4. x.todo \in VisitPlans /\ x.todo \notin Upserting
  <2>1. x.todo \in VisitPlans
    BY DEF VisitPlans
  <2> QED BY <2>1, PlanOfHead, EarlyHeads, RefreshHeads
<1>5. IsSound(p)'
  BY <1>1, <1>4 DEF IsSound
<1>6. \A w : ~ Due(p, w)
  <2>1. AtDesk(p) => visit[p].todo \in VisitPlans
    BY DEF VisitPlans
  <2>2. AtDesk(p) => Head(visit[p].todo) = "memoize"
    BY EarlyHeads
  <2> QED BY <2>1, <2>2, PlanOfHead DEF Due
<1> QED BY <1>1, <1>3, <1>5, <1>6, WriteKeeps

(* A visit that goes on keeps all but its first statement.                 *)
LEMMA VisitGoesOn ==
  ASSUME NEW x, IsVisit(x), Len(x.todo) # 1
  PROVE  LET y == Later(x) IN
         /\ IsVisit(y) /\ y.todo = Tail(x.todo)
         /\ y.vendor = x.vendor /\ y.row = x.row /\ y.aliases = x.aliases /\ y.late = x.late
BY LaterVisit DEF IsVisit

(* A visit in the middle of its plan is at a desk.                         *)
LEMMA StillThere ==
  ASSUME NEW p, visit'[p].todo \in VisitPlans PROVE AtDesk(p)'
BY NotResting, PlanNotEmpty DEF AtDesk

(* Only p's visit changes.                                                 *)
OnlyVisit(p) ==
    /\ visit' = [visit EXCEPT ![p] = visit'[p]]
    /\ UNCHANGED <<vendors, alias, mirror>>
    /\ resolved' \in [Raws -> VendorIds \cup {NoVendor}]

(* Where one visit was written the others are as they were.                *)
LEMMA OneVisit ==
  ASSUME DocInv, NEW p \in Hands, NEW x, visit' = [visit EXCEPT ![p] = x], UNCHANGED <<rows, mirror>>
  PROVE  /\ OnlyVisit(p) /\ visit'[p] = x
         /\ Existing' = Existing /\ \A v : Aliases(v)' = Aliases(v)
<1>1. Existing' = Existing /\ \A v : Aliases(v)' = Aliases(v)
  BY DEF Existing, Aliases, rows
<1> QED BY <1>1 DEF DocInv, DocShapes, OnlyVisit, rows

(* The vendor is read: the copy is the present row.                        *)
LEMMA ReadVendorKeeps ==
  ASSUME DocInv, VendorInv', NEW p \in Hands, ReadVendor(p) PROVE DocInv'
<1> DEFINE x == visit[p]
           no == FALSE
           z == Later(x)
           y == Reread(z, vendors[x.vendor], no)
<1>1. /\ AtDesk(p) /\ Head(x.todo) = "read" /\ x.vendor \in Existing
      /\ visit' = [visit EXCEPT ![p] = y] /\ UNCHANGED <<rows, mirror, excused>>
  BY DEF ReadVendor, On, Next_, Reread
<1>2. /\ IsSound(p) /\ IsVisit(x) /\ x.todo \in Reading
      /\ Len(x.todo) # 1 /\ Tail(x.todo) \in Listing
  BY <1>1, AtStatement, PlanOfHead, RefreshHeads
<1>3. /\ OnlyVisit(p) /\ visit'[p] = y
      /\ Existing' = Existing /\ \A v : Aliases(v)' = Aliases(v)
  BY <1>1, OneVisit
<1>4. /\ IsVisit(y) /\ y.todo = Tail(x.todo) /\ y.vendor = x.vendor
      /\ y.row = vendors[x.vendor] /\ y.late = FALSE
  <2>1. IsVisit(z) /\ z.todo = Tail(x.todo) /\ z.vendor = x.vendor
    BY <1>2, VisitGoesOn
  <2>2. no = FALSE
    OBVIOUS
  <2> HIDE DEF no, z
  <2> QED BY <2>1, <2>2, RereadVisit
<1> HIDE DEF y
<1>5. y.todo \in VisitPlans /\ y.todo \notin Upserting
  BY <1>2, <1>4, RefreshHeads DEF VisitPlans
<1>6. IsSound(p)'
  BY <1>1, <1>2, <1>3, <1>4, <1>5 DEF IsSound, OnlyVisit, Existing
<1>7. AtDesk(p)'
  BY <1>3, <1>5, StillThere
<1>8. \A v \in VendorIds : Due(p, v) => Due(p, v)'
  <2>1. \A v : Due(p, v) => x.vendor = v /\ v \in Existing
    BY <1>1, AtStatement
  <2> QED BY <1>2, <1>3, <1>4, <1>7, <2>1 DEF Due
<1> QED BY <1>1, <1>3, <1>6, <1>8, StepKeeps DEF OnlyVisit

(* The vendor was deleted: the pipeline passes over the refresh.           *)
LEMMA ReadMissesKeeps ==
  ASSUME DocInv, VendorInv', NEW p \in Hands, ReadMisses(p) PROVE DocInv'
<1> DEFINE x == visit[p]
           y == [x EXCEPT !.todo = <<"resolve">>]
<1>1. /\ AtDesk(p) /\ Head(x.todo) = "read" /\ x.vendor \notin Existing
      /\ visit' = [visit EXCEPT ![p] = y] /\ UNCHANGED <<rows, mirror, excused>>
  BY DEF ReadMisses, On
<1>2. IsSound(p) /\ IsVisit(x) /\ x.todo \in Reading /\ \A v : ~ Due(p, v)
  BY <1>1, AtStatement, PlanOfHead
<1>3. /\ OnlyVisit(p) /\ visit'[p] = y
      /\ Existing' = Existing /\ \A v : Aliases(v)' = Aliases(v)
  BY <1>1, OneVisit
<1>4. /\ IsVisit(y) /\ y.todo = <<"resolve">> /\ y.vendor = x.vendor
      /\ y.row = x.row /\ y.late = x.late
  BY <1>2 DEF IsVisit
<1> HIDE DEF y
<1>5. y.todo \in Resolving /\ y.todo \in VisitPlans
  BY <1>4 DEF VisitPlans, Resolving
<1>6. y.todo \notin Listing \cup Upserting /\ x.todo \notin Memoizing
  BY <1>2, <1>5, EarlyHeads, RefreshHeads
<1>7. IsSound(p)'
  BY <1>2, <1>3, <1>4, <1>5, <1>6 DEF IsSound, OnlyVisit
<1> QED BY <1>1, <1>2, <1>3, <1>7, StepKeeps DEF OnlyVisit

(* The aliases are listed: a visit that is not late has the present ones.  *)
LEMMA ListNormalizedKeeps ==
  ASSUME DocInv, VendorInv', NEW p \in Hands, ListNormalized(p) PROVE DocInv'
<1> DEFINE x == visit[p]
           z == Later(x)
           y == [z EXCEPT !.aliases = Aliases(x.vendor)]
<1>1. /\ AtDesk(p) /\ Head(x.todo) = "list"
      /\ visit' = [visit EXCEPT ![p] = y] /\ UNCHANGED <<rows, mirror, excused>>
  BY DEF ListNormalized, On, Next_
<1>2. /\ IsSound(p) /\ IsVisit(x) /\ x.todo \in Listing
      /\ Len(x.todo) # 1 /\ Tail(x.todo) \in Upserting
  BY <1>1, AtStatement, PlanOfHead, RefreshHeads
<1>3. /\ OnlyVisit(p) /\ visit'[p] = y
      /\ Existing' = Existing /\ \A v : Aliases(v)' = Aliases(v)
  BY <1>1, OneVisit
<1>4. /\ IsVisit(z) /\ z.todo = Tail(x.todo) /\ z.vendor = x.vendor
      /\ z.row = x.row /\ z.late = x.late
  BY <1>2, VisitGoesOn
<1> HIDE DEF z
<1>5. /\ IsVisit(y) /\ y.todo = Tail(x.todo) /\ y.vendor = x.vendor
      /\ y.row = x.row /\ y.late = x.late /\ y.aliases = Aliases(x.vendor)
  BY <1>4 DEF IsVisit
<1> HIDE DEF y
<1>6. y.todo \in VisitPlans /\ x.todo \notin Memoizing
  BY <1>2, <1>5, EarlyHeads, RefreshHeads DEF VisitPlans
<1>8. IsSound(p)'
  BY <1>2, <1>3, <1>5, <1>6 DEF IsSound, OnlyVisit
<1>9. AtDesk(p)'
  BY <1>3, <1>5, <1>6, StillThere
<1>10. \A v \in VendorIds : Due(p, v) => Due(p, v)'
  <2>1. \A v : Due(p, v) => x.vendor = v /\ v \in Existing
    BY <1>1, AtStatement
  <2> QED BY <1>2, <1>3, <1>5, <1>9, <2>1 DEF Due
<1> QED BY <1>1, <1>3, <1>8, <1>10, StepKeeps DEF OnlyVisit

(* Statements after which a visit goes on or ends with nothing owed to a   *)
(* document: the search server failed, the resolution was written.         *)
LEMMA EndsKeep ==
  ASSUME DocInv, VendorInv', NEW p \in Hands, IndexFails(p) \/ SetResolvedVendor(p) PROVE DocInv'
<1> DEFINE x == visit[p]
           y == Later(x)
<1>1. /\ AtDesk(p) /\ Head(x.todo) \in {"upsert", "drop", "resolve"}
      /\ visit' = [visit EXCEPT ![p] = y] /\ UNCHANGED <<vendors, alias, mirror>>
      /\ excused \subseteq excused' /\ (Head(x.todo) # "resolve" => x.vendor \in excused')
  BY DEF IndexFails, SetResolvedVendor, On, Next_, rows
<1>2. IsSound(p) /\ IsVisit(x) /\ x.todo \in Upserting \cup Dropping \cup Resolving
  BY <1>1, AtStatement, PlanOfHead
<1>3. resolved' \in [Raws -> VendorIds \cup {NoVendor}]
  BY DEF IndexFails, SetResolvedVendor, rows, DocInv, DocShapes, Existing
<1>4. visit' = [visit EXCEPT ![p] = visit'[p]] /\ visit'[p] = y
  BY <1>1 DEF DocInv, DocShapes
<1>5. AtDesk(p)' => IsSound(p)'
  <2>1. CASE Len(x.todo) = 1
    BY <1>2, <1>4, <2>1, LaterVisit DEF AtDesk
  <2>2. CASE Len(x.todo) # 1
    <3>1. y.todo \in Resolving /\ x.todo \notin Memoizing
      BY <1>2, <2>2, VisitGoesOn, EarlyHeads, RefreshHeads
    <3>2. y.todo \in VisitPlans /\ y.todo \notin Listing \cup Upserting
      BY <3>1, EarlyHeads, RefreshHeads DEF VisitPlans
    <3>3. /\ IsVisit(y) /\ y.vendor = x.vendor /\ y.row = x.row /\ y.late = x.late
      BY <1>2, <2>2, VisitGoesOn
    <3> HIDE DEF y
    <3> QED BY <1>1, <1>2, <1>4, <3>1, <3>2, <3>3 DEF IsSound
  <2> QED BY <2>1, <2>2
<1>6. \A v \in VendorIds : Due(p, v) => v \in excused'
  BY <1>1, AtStatement
<1> QED BY <1>1, <1>3, <1>4, <1>5, <1>6, StepKeeps

(* A visit that is refused owed nothing: its vendor is gone, or it had not *)
(* written it yet.                                                         *)
LEMMA RefusalKeeps ==
  ASSUME DocInv, VendorInv', NEW p \in Hands, ForeignKeyRefuses(p) PROVE DocInv'
<1>1. /\ AtDesk(p)
      /\ \/ Head(visit[p].todo) \in {"memoize", "compare", "set", "delete"}
         \/ Head(visit[p].todo) = "read" /\ visit[p].vendor \notin Existing
      /\ visit' = [visit EXCEPT ![p] = Resting_] /\ UNCHANGED <<rows, mirror, excused>>
  BY DEF ForeignKeyRefuses, On
<1>2. \A v : ~ Due(p, v)
  BY <1>1, AtStatement
<1>3. OnlyVisit(p) /\ visit'[p] = Resting_
  BY <1>1, OneVisit
<1>4. ~ AtDesk(p)'
  BY <1>3 DEF AtDesk
<1> QED BY <1>1, <1>2, <1>3, <1>4, StepKeeps DEF OnlyVisit

(* The pipeline's upsert.                                                  *)
LEMMA MemoizeKeeps ==
  ASSUME DocInv, VendorInv', NEW p \in Hands, Memoize(p) PROVE DocInv'
<1> DEFINE x == visit[p]
           z == Later(x)
<1>1. /\ AtDesk(p) /\ Head(x.todo) = "memoize" /\ mirror' = mirror
      /\ Create(p, z, [name |-> x.name, account |-> x.account])
      /\ excused' = excused \cup {v \in VendorIds : vendors'[v] # vendors[v]}
  BY DEF Memoize, On, Next_
<1>2. IsVisit(x) /\ x.todo \in Memoizing /\ Len(x.todo) # 1 /\ Tail(x.todo) \in Recording
  BY <1>1, AtStatement, PlanOfHead, EarlyHeads
<1>3. IsVisit(z) /\ z.todo \in Recording
  BY <1>2, VisitGoesOn
<1> HIDE DEF z
<1> QED BY <1>1, <1>2, <1>3, CreateKeeps

(* The upsert of the API.                                                  *)
LEMMA VendorsCreateKeeps ==
  ASSUME DocInv, VendorInv', NEW p \in Hands, NEW n, NEW a, handleVendorsCreate(p, n, a)
  PROVE  DocInv'
<1> DEFINE x == Visit(NoVendor, Gone, n, a, <<"list", "upsert">>)
<1>1. /\ ~ AtDesk(p) /\ Create(p, x, [name |-> n, account |-> a]) /\ mirror' = mirror
      /\ excused' = excused \cup {v \in VendorIds : vendors'[v] # vendors[v]}
  BY DEF handleVendorsCreate
<1>2. IsVisit(x) /\ x.todo \in Listing
  BY FirstPlans DEF Visit, IsVisit
<1> HIDE DEF x
<1> QED BY <1>1, <1>2, CreateKeeps

(* The edit of the API: its own visit will write the document.             *)
LEMMA VendorsUpdateKeeps ==
  ASSUME DocInv, VendorInv', NEW p \in Hands, NEW v \in VendorIds, NEW n, NEW a,
         handleVendorsUpdate(p, v, n, a)
  PROVE  DocInv'
<1> DEFINE row == [name |-> n, account |-> a]
           x == Visit(v, Gone, n, a, <<"list", "upsert">>)
           y == [x EXCEPT !.row = row]
<1>1. /\ ~ AtDesk(p) /\ v \in Existing /\ vendors' = [vendors EXCEPT ![v] = row]
      /\ Touched({v}, p, y) /\ UNCHANGED <<alias, resolved, mirror, excused>>
  BY DEF handleVendorsUpdate
<1>2. IsVisit(x) /\ x.todo \in Listing /\ x.vendor = v /\ x.late = FALSE
  BY FirstPlans DEF Visit, IsVisit
<1>3. row # Gone
  BY RowIsThere
<1> HIDE DEF x, row
<1>4. /\ IsVisit(y) /\ y.todo = x.todo /\ y.vendor = v /\ y.late = FALSE /\ y.row = row
  BY <1>2 DEF IsVisit
<1> HIDE DEF y
<1>5. vendors'[v] = row /\ \A w \in VendorIds \ {v} : vendors'[w] = vendors[w]
  BY <1>1 DEF DocInv, VendorInv, RowShapes
<1>6. /\ visit' = [q \in Hands |-> visit'[q]] /\ visit'[p] = y
      /\ \A q \in Hands \ {p} : Bystander(q, {v})
  BY <1>1, TouchedVisits
<1>7. y.todo \in VisitPlans /\ y.todo \notin Upserting
  BY <1>2, <1>4, RefreshHeads DEF VisitPlans
<1>8. IsSound(p)'
  BY <1>2, <1>3, <1>4, <1>5, <1>6, <1>7 DEF IsSound
<1>9. Due(p, v)'
  BY <1>2, <1>3, <1>4, <1>5, <1>6, <1>7, StillThere DEF Due, Existing
<1>10. DocShapes' /\ \A w : Aliases(w)' = Aliases(w) /\ ~ Due(p, w)
  BY <1>1, <1>6 DEF DocInv, DocShapes, Aliases, Due
<1>11. \A w \in VendorIds :
            \/ w \in excused'
            \/ Due(p, w)'
            \/ vendors'[w] = vendors[w] /\ Aliases(w)' = Aliases(w) /\ w \notin excused /\ ~ Due(p, w)
  BY <1>1, <1>5, <1>9, <1>10
<1> QED BY <1>1, <1>5, <1>6, <1>8, <1>10, <1>11, WriteKeeps

(* The account of a posting becomes the vendor's default, which its own    *)
(* visit will write to the document.                                       *)
LEMMA SetDefaultKeeps ==
  ASSUME DocInv, VendorInv', NEW p \in Hands, SetDefaultAccount(p) PROVE DocInv'
<1>0. PICK v : v = visit[p].vendor
  OBVIOUS
<1> DEFINE x == visit[p]
           y == Later(x)
           row == [vendors[v] EXCEPT !.account = x.account]
<1>1. /\ AtDesk(p) /\ Head(x.todo) = "set" /\ v \in Existing /\ v \in VendorIds
      /\ vendors' = [vendors EXCEPT ![v] = row]
      /\ Touched({v}, p, y) /\ UNCHANGED <<alias, resolved, mirror, excused>>
  BY <1>0 DEF SetDefaultAccount, On, Next_, Existing
<1>2. /\ IsSound(p) /\ IsVisit(x) /\ x.todo \in Setting /\ Len(x.todo) # 1 /\ Tail(x.todo) \in Mending
      /\ \A w : ~ Due(p, w)
  BY <1>1, AtStatement, PlanOfHead, EarlyHeads
<1>3. row # Gone
  <2>1. IsRow(vendors[v])
    BY <1>1 DEF DocInv, VendorInv, RowShapes
  <2>2. row = [name |-> vendors[v].name, account |-> x.account]
    BY <2>1 DEF IsRow
  <2> QED BY <2>2, RowIsThere
<1>4. IsVisit(y) /\ y.todo = Tail(x.todo) /\ y.vendor = v /\ y.late = x.late /\ y.row = Gone
  <2>1. x.row = Gone
    BY <1>2, EarlyHeads, RefreshHeads DEF IsSound
  <2> QED BY <1>0, <1>2, <2>1, VisitGoesOn
<1>5. /\ visit' = [q \in Hands |-> visit'[q]] /\ visit'[p] = y
      /\ \A q \in Hands \ {p} : Bystander(q, {v})
  BY <1>1, TouchedVisits
<1>6. y.todo \in VisitPlans /\ y.todo \notin Listing \cup Upserting
  BY <1>2, <1>4, EarlyHeads, RefreshHeads DEF VisitPlans
<1>7. DocShapes' /\ \A w : Aliases(w)' = Aliases(w)
  BY <1>1, <1>5 DEF DocInv, DocShapes, Aliases
<1> HIDE DEF y, row
<1>8. vendors'[v] = row /\ \A w \in VendorIds \ {v} : vendors'[w] = vendors[w]
  BY <1>1 DEF DocInv, VendorInv, RowShapes
<1>9. IsSound(p)'
  BY <1>1, <1>2, <1>4, <1>5, <1>6 DEF IsSound
<1>10. Due(p, v)'
  BY <1>1, <1>2, <1>3, <1>4, <1>5, <1>6, <1>8, StillThere DEF Due, Existing
<1>11. \A w \in VendorIds :
            \/ w \in excused'
            \/ Due(p, w)'
            \/ vendors'[w] = vendors[w] /\ Aliases(w)' = Aliases(w) /\ w \notin excused /\ ~ Due(p, w)
  BY <1>1, <1>2, <1>7, <1>8, <1>10
<1> QED BY <1>1, <1>5, <1>7, <1>8, <1>9, <1>11, WriteKeeps

(* The account is compared: nothing was written yet.                       *)
LEMMA CompareKeeps ==
  ASSUME DocInv, VendorInv', NEW p \in Hands, CompareDefault(p) PROVE DocInv'
<1> DEFINE x == visit[p]
           z == Later(x)
           y == visit'[p]
<1>1. /\ AtDesk(p) /\ Head(x.todo) = "compare" /\ UNCHANGED <<rows, mirror, excused>>
      /\ \/ visit' = [visit EXCEPT ![p] = z] \/ visit' = [visit EXCEPT ![p] = Later(z)]
  BY DEF CompareDefault, On, Next_
<1>2. /\ IsSound(p) /\ IsVisit(x) /\ x.todo \in Comparing /\ Len(x.todo) # 1 /\ Tail(x.todo) \in Setting
      /\ \A w : ~ Due(p, w)
  BY <1>1, AtStatement, PlanOfHead, EarlyHeads
<1>3. x.row = Gone /\ x.todo \notin Memoizing
  BY <1>2, EarlyHeads, RefreshHeads DEF IsSound
<1>4. /\ IsVisit(z) /\ z.todo \in Setting /\ z.vendor = x.vendor /\ z.row = Gone /\ z.late = x.late
  BY <1>2, <1>3, VisitGoesOn
<1> HIDE DEF z
<1>5. /\ IsVisit(Later(z)) /\ Later(z).todo \in Mending /\ Later(z).vendor = x.vendor
      /\ Later(z).row = Gone /\ Later(z).late = x.late
  BY <1>4, VisitGoesOn, EarlyHeads
<1>6. OnlyVisit(p) /\ (y = z \/ y = Later(z))
  BY <1>1, OneVisit
<1>7. /\ IsVisit(y) /\ y.todo \in Setting \cup Mending /\ y.vendor = x.vendor
      /\ y.row = Gone /\ y.late = x.late
  BY <1>4, <1>5, <1>6
<1> HIDE DEF y
<1>8. y.todo \in VisitPlans /\ y.todo \notin Listing \cup Upserting
  BY <1>7, EarlyHeads, RefreshHeads DEF VisitPlans
<1>9. IsSound(p)'
  BY <1>2, <1>3, <1>7, <1>8 DEF IsSound, y
<1> QED BY <1>1, <1>2, <1>6, <1>9, StepKeeps DEF OnlyVisit

(* A new alias excuses the document until the refresh.                     *)
LEMMA RecordKeeps ==
  ASSUME DocInv, VendorInv', NEW p \in Hands, Record(p) PROVE DocInv'
<1>0. PICK v : v = visit[p].vendor
  OBVIOUS
<1> DEFINE x == visit[p]
           z == Later(x)
           no == FALSE
           y == Reread(z, Gone, no)
<1>1. /\ AtDesk(p) /\ Head(x.todo) = "record" /\ UNCHANGED <<vendors, resolved, mirror>>
  BY DEF Record, On
<1>2. /\ IsSound(p) /\ IsVisit(x) /\ x.todo \in Recording /\ Len(x.todo) # 1 /\ Tail(x.todo) \in Reading
      /\ x.todo \notin Memoizing /\ \A w : ~ Due(p, w)
  BY <1>1, AtStatement, PlanOfHead, EarlyHeads
<1>3. /\ IsVisit(z) /\ z.todo = Tail(x.todo) /\ z.vendor = v /\ z.row = x.row /\ z.late = x.late
  BY <1>0, <1>2, VisitGoesOn
<1>4. z.todo \in Reading /\ z.todo \in VisitPlans /\ z.todo \notin Listing \cup Upserting
  BY <1>2, <1>3, RefreshHeads DEF VisitPlans, Mending
<1>5. v \in VendorIds
  BY <1>0, <1>2 DEF IsSound
<1>6. CASE v \notin Existing
  <2>1. visit' = [visit EXCEPT ![p] = z] /\ UNCHANGED <<alias, excused>>
    BY <1>0, <1>6 DEF Record, Next_
  <2>2. visit' = [visit EXCEPT ![p] = visit'[p]] /\ visit'[p] = z
    BY <2>1 DEF DocInv, DocShapes
  <2>3. resolved' \in [Raws -> VendorIds \cup {NoVendor}]
    BY <1>1 DEF DocInv, DocShapes
  <2> HIDE DEF z
  <2>4. IsSound(p)'
    BY <1>0, <1>1, <1>2, <1>3, <1>4, <1>5, <2>1, <2>2 DEF IsSound, Aliases
  <2> QED BY <1>1, <1>2, <2>1, <2>2, <2>3, <2>4, StepKeeps
<1>7. CASE v \in Existing
  <2>1. /\ alias' = [alias EXCEPT ![x.raw] = IF @ = NoVendor THEN v ELSE @]
        /\ excused' = IF alias[x.raw] = NoVendor THEN excused \cup {v} ELSE excused
        /\ Touched({v}, p, y)
    BY <1>0, <1>7 DEF Record, Next_, Reread
  <2>2. no = FALSE
    OBVIOUS
  <2> HIDE DEF z, no
  <2>3. /\ IsVisit(y) /\ y.todo = z.todo /\ y.vendor = v /\ y.row = Gone /\ y.late = FALSE
    BY <1>3, <2>2, RereadVisit
  <2> HIDE DEF y
  <2>4. /\ visit' = [q \in Hands |-> visit'[q]] /\ visit'[p] = y
        /\ \A q \in Hands \ {p} : Bystander(q, {v})
    BY <2>1, TouchedVisits
  <2>5. /\ \A r \in Raws : alias'[r] = alias[r] \/ (alias[r] = NoVendor /\ alias'[r] = v)
        /\ alias' \in [Raws -> VendorIds \cup {NoVendor}]
        /\ alias[x.raw] # NoVendor => alias' = alias
    BY <1>5, <2>1 DEF DocInv, DocShapes
  <2>6. DocShapes'
    BY <1>1, <2>4, <2>5 DEF DocInv, DocShapes
  <2>7. \A w \in VendorIds \ {v} : Aliases(w)' = Aliases(w)
    BY <2>5, VendorConstants DEF Aliases, VendorIds, NoVendor
  <2>8. v \in excused' \/ (Aliases(v)' = Aliases(v) /\ excused' = excused)
    <3>1. alias[x.raw] # NoVendor => \A w : Aliases(w)' = Aliases(w)
      BY <2>5 DEF Aliases
    <3> QED BY <2>1, <3>1
  <2>9. IsSound(p)'
    BY <1>1, <1>4, <1>5, <2>3, <2>4 DEF IsSound
  <2>10. excused \subseteq excused' /\ excused' \subseteq excused \cup {v}
    BY <2>1
  <2>11. \A w \in VendorIds :
            \/ w \in excused'
            \/ Due(p, w)'
            \/ vendors'[w] = vendors[w] /\ Aliases(w)' = Aliases(w) /\ w \notin excused /\ ~ Due(p, w)
    BY <1>1, <1>2, <2>7, <2>8, <2>10
  <2> QED BY <1>1, <2>4, <2>6, <2>7, <2>9, <2>11, WriteKeeps
<1> QED BY <1>6, <1>7

(* A reviewer's alias: the old owner is excused, the new one refreshed.    *)
LEMMA ConfirmKeeps ==
  ASSUME DocInv, VendorInv', NEW p \in Hands, RecordConfirmed(p) PROVE DocInv'
<1>0. PICK v : v = visit[p].vendor
  OBVIOUS
<1> DEFINE x == visit[p]
           z == Later(x)
<1>1. /\ AtDesk(p) /\ Head(x.todo) = "confirm" /\ UNCHANGED <<vendors, resolved, mirror>>
  BY DEF RecordConfirmed, On
<1>2. /\ IsSound(p) /\ IsVisit(x) /\ x.todo \in Mending \ Reading
      /\ Len(x.todo) # 1 /\ Tail(x.todo) \in Reading
      /\ x.todo \notin Memoizing /\ \A w : Due(p, w) => w = v /\ v \in Existing
  BY <1>0, <1>1, AtStatement, PlanOfHead, EarlyHeads, RefreshHeads
<1>3. /\ IsVisit(z) /\ z.todo = Tail(x.todo) /\ z.vendor = v /\ z.row = x.row /\ z.late = x.late
  BY <1>0, <1>2, VisitGoesOn
<1>4. z.todo \in Reading /\ z.todo \in VisitPlans /\ z.todo \notin Listing \cup Upserting
  BY <1>2, <1>3, RefreshHeads DEF VisitPlans, Mending
<1>5. v \in VendorIds
  BY <1>0, <1>2 DEF IsSound
<1>6. CASE v \notin Existing
  <2>1. visit' = [visit EXCEPT ![p] = z] /\ UNCHANGED <<alias, excused>>
    BY <1>0, <1>6 DEF RecordConfirmed, Next_
  <2>2. visit' = [visit EXCEPT ![p] = visit'[p]] /\ visit'[p] = z
    BY <2>1 DEF DocInv, DocShapes
  <2>3. resolved' \in [Raws -> VendorIds \cup {NoVendor}]
    BY <1>1 DEF DocInv, DocShapes
  <2> HIDE DEF z
  <2>4. IsSound(p)'
    BY <1>0, <1>1, <1>2, <1>3, <1>4, <1>5, <2>1, <2>2 DEF IsSound
  <2>5. \A w : ~ Due(p, w)
    BY <1>2, <1>6
  <2> QED BY <1>1, <2>1, <2>2, <2>3, <2>4, <2>5, StepKeeps
<1>7. CASE v \in Existing
  <2>0. PICK old : old = alias[x.raw]
    OBVIOUS
  <2>1. /\ alias' = [alias EXCEPT ![x.raw] = v]
        /\ excused' = excused \cup ({old} \ {NoVendor, v})
        /\ Touched({v, old}, p, z)
    BY <1>0, <1>7, <2>0 DEF RecordConfirmed, Next_
  <2> HIDE DEF z
  <2>4. /\ visit' = [q \in Hands |-> visit'[q]] /\ visit'[p] = z
        /\ \A q \in Hands \ {p} : Bystander(q, {v, old})
    BY <2>1, TouchedVisits
  <2>5. /\ \A r \in Raws : alias'[r] = alias[r] \/ (alias[r] = old /\ alias'[r] = v)
        /\ alias' \in [Raws -> VendorIds \cup {NoVendor}]
    BY <1>5, <2>0, <2>1 DEF DocInv, DocShapes
  <2>6. DocShapes'
    BY <1>1, <2>4, <2>5 DEF DocInv, DocShapes
  <2>7. \A w \in VendorIds \ {v, old} : Aliases(w)' = Aliases(w)
    BY <2>5 DEF Aliases
  <2>8. \A w \in VendorIds : w = old /\ w # v => w \in excused'
    BY <2>1, VendorConstants DEF VendorIds, NoVendor
  <2>9. IsSound(p)'
    BY <1>0, <1>1, <1>2, <1>3, <1>4, <1>5, <2>4 DEF IsSound
  <2>10. excused \subseteq excused' /\ \A w \in excused' : w \in excused \/ w = old
    BY <2>1
  <2>11. Due(p, v)'
    BY <1>1, <1>3, <1>4, <1>7, <2>4, StillThere DEF Due, Mending, Existing
  <2>12. \A w \in VendorIds :
            \/ w \in excused'
            \/ Due(p, w)'
            \/ vendors'[w] = vendors[w] /\ Aliases(w)' = Aliases(w) /\ w \notin excused /\ ~ Due(p, w)
    BY <1>1, <1>2, <2>7, <2>8, <2>10, <2>11
  <2> QED BY <1>1, <2>4, <2>6, <2>7, <2>9, <2>12, WriteKeeps
<1> QED BY <1>6, <1>7

(* The row goes, and its own visit will remove the document.               *)
LEMMA DeleteKeeps ==
  ASSUME DocInv, VendorInv', NEW p \in Hands, DeleteVendor(p) PROVE DocInv'
<1>0. PICK v : v = visit[p].vendor
  OBVIOUS
<1> DEFINE x == visit[p]
           z == Later(x)
<1>1. /\ AtDesk(p) /\ Head(x.todo) = "delete" /\ v \in Existing /\ v \in VendorIds
      /\ vendors' = [vendors EXCEPT ![v] = Gone]
      /\ alias' = [r \in Raws |-> IF alias[r] = v THEN NoVendor ELSE alias[r]]
      /\ resolved' = [r \in Raws |-> IF resolved[r] = v THEN NoVendor ELSE resolved[r]]
      /\ Touched({v}, p, z) /\ UNCHANGED <<mirror, excused>>
  BY <1>0 DEF DeleteVendor, On, Next_, Existing
<1>2. /\ IsSound(p) /\ IsVisit(x) /\ x.todo \in Deleting
      /\ Len(x.todo) # 1 /\ Tail(x.todo) \in Dropping
      /\ x.todo \notin Memoizing /\ \A w : ~ Due(p, w)
  BY <1>1, AtStatement, PlanOfHead, EarlyHeads
<1>3. x.row = Gone
  BY <1>2, EarlyHeads, RefreshHeads DEF IsSound
<1>4. IsVisit(z) /\ z.todo \in Dropping /\ z.vendor = v /\ z.row = Gone /\ z.late = x.late
  BY <1>0, <1>2, <1>3, VisitGoesOn
<1>5. z.todo \in VisitPlans /\ z.todo \notin Listing \cup Upserting
  BY <1>4, EarlyHeads, RefreshHeads DEF VisitPlans
<1> HIDE DEF z
<1>6. /\ visit' = [q \in Hands |-> visit'[q]] /\ visit'[p] = z
      /\ \A q \in Hands \ {p} : Bystander(q, {v})
  BY <1>1, TouchedVisits
<1>7. \A w \in VendorIds \ {v} : vendors'[w] = vendors[w] /\ Aliases(w)' = Aliases(w)
  BY <1>1, VendorConstants DEF DocInv, VendorInv, RowShapes, Aliases, VendorIds, NoVendor
<1>8. DocShapes'
  BY <1>1, <1>6 DEF DocInv, DocShapes
<1>9. IsSound(p)'
  BY <1>1, <1>2, <1>4, <1>5, <1>6 DEF IsSound
<1>10. Due(p, v)'
  BY <1>4, <1>5, <1>6, StillThere DEF Due
<1>11. \A w \in VendorIds :
            \/ w \in excused'
            \/ Due(p, w)'
            \/ vendors'[w] = vendors[w] /\ Aliases(w)' = Aliases(w) /\ w \notin excused /\ ~ Due(p, w)
  BY <1>1, <1>2, <1>7, <1>10
<1> QED BY <1>1, <1>6, <1>7, <1>8, <1>9, <1>11, WriteKeeps

(* A deleted account excuses the vendors it was the default of.            *)
LEMMA AccountKeeps ==
  ASSUME DocInv, VendorInv', NEW a \in Expenses, handleDeleteAccount(a) PROVE DocInv'
<1>0. PICK vs : vs = {v \in Existing : vendors[v].account = a}
  OBVIOUS
<1>1. /\ vendors' = [v \in VendorIds |->
                        IF v \in vs THEN [vendors[v] EXCEPT !.account = Unset] ELSE vendors[v]]
      /\ excused' = excused \cup vs /\ UNCHANGED <<alias, resolved, mirror>>
      /\ visit' = [q \in Hands |->
            IF AtDesk(q) /\ visit[q].vendor \in vs THEN [visit[q] EXCEPT !.late = TRUE] ELSE visit[q]]
  BY <1>0 DEF handleDeleteAccount
<1>2. PICK nobody : nobody \notin Hands
  <2> DEFINE h == {q \in Hands : q \notin q}
  <2>1. h \notin Hands
    OBVIOUS
  <2> QED BY <2>1
<1>3. visit' = [q \in Hands |-> visit'[q]] /\ \A q \in Hands \ {nobody} : Bystander(q, vs)
  BY <1>1 DEF Bystander
<1>4. /\ \A v \in VendorIds \ vs : vendors'[v] = vendors[v]
      /\ \A v : Aliases(v)' = Aliases(v)
  BY <1>1 DEF Aliases
<1>5. DocShapes'
  BY <1>1, <1>3 DEF DocInv, DocShapes
<1> QED BY <1>1, <1>2, <1>3, <1>4, <1>5, WriteKeeps

(* A reviewer's correction is about the receipt only.                      *)
LEMMA SetVendorKeeps ==
  ASSUME DocInv, VendorInv', NEW raw \in Raws, NEW v, handleReceiptSetVendor(raw, v) PROVE DocInv'
<1>1. /\ UNCHANGED <<vendors, alias, mirror, visit, excused>>
      /\ resolved' = [resolved EXCEPT ![raw] = v] /\ v \in VendorIds \cup {NoVendor}
  BY DEF handleReceiptSetVendor, Existing
<1>2. DocShapes'
  BY <1>1 DEF DocInv, DocShapes
<1> QED BY <1>1, <1>2 DEF DocInv, VisitsSound, IsSound, AtDesk, Aliases, DocStands, Existing, Due

(* The document is written: as the table has it, unless the visit is late. *)
LEMMA UpsertKeeps ==
  ASSUME DocInv, VendorInv', NEW p \in Hands, UpsertVendor(p) \/ DropDocument(p) PROVE DocInv'
<1>0. PICK v : v = visit[p].vendor
  OBVIOUS
<1> DEFINE x == visit[p]
           z == Later(x)
<1>1. /\ AtDesk(p) /\ Head(x.todo) \in {"upsert", "drop"} /\ UNCHANGED rows
      /\ visit' = [visit EXCEPT ![p] = z]
  BY DEF UpsertVendor, DropDocument, On, Next_
<1>2. /\ IsSound(p) /\ IsVisit(x) /\ x.todo \in Upserting \cup Dropping
      /\ x.todo \notin Memoizing /\ \A w : Due(p, w) => w = v
  BY <1>0, <1>1, AtStatement, PlanOfHead
<1>3. v \in VendorIds
  BY <1>0, <1>2 DEF IsSound
<1>4. /\ \A w \in VendorIds \ {v} : mirror'[w] = mirror[w] /\ (w \in excused => w \in excused')
      /\ mirror' = [w \in VendorIds |-> mirror'[w]]
      /\ v \in excused' \/ mirror'[v] = Gone \/ (v \in Existing /\ mirror'[v] = Document(vendors[v], Aliases(v)))
  <2>1. CASE UpsertVendor(p)
    <3>1. /\ mirror' = [mirror EXCEPT ![v] = Document(x.row, x.aliases)]
          /\ excused' = IF x.late THEN excused \cup {v} ELSE excused \ {v}
      BY <1>0, <2>1 DEF UpsertVendor
    <3>2. x.todo \in Upserting
      BY <2>1, <1>2, PlanOfHead DEF UpsertVendor, On, IsSound
    <3>3. ~ x.late => v \in Existing /\ x.row = vendors[v] /\ x.aliases = Aliases(v)
      BY <1>0, <1>2, <3>2 DEF IsSound, Existing
    <3> QED BY <1>3, <3>1, <3>3 DEF DocInv, DocShapes
  <2>2. CASE DropDocument(p)
    <3>1. mirror' = [mirror EXCEPT ![v] = Gone] /\ excused' = excused \ {v}
      BY <1>0, <2>2 DEF DropDocument
    <3> QED BY <1>3, <3>1 DEF DocInv, DocShapes
  <2> QED BY <2>1, <2>2
<1>5. /\ visit'[p] = z /\ visit' = [q \in Hands |-> visit'[q]]
      /\ \A q \in Hands \ {p} : visit'[q] = visit[q]
  BY <1>1 DEF DocInv, DocShapes
<1>6. /\ Existing' = Existing /\ \A w : Aliases(w)' = Aliases(w)
      /\ UNCHANGED <<vendors, alias, resolved>>
  BY <1>1 DEF rows, Existing, Aliases
<1>7. AtDesk(p)' => IsSound(p)'
  <2>1. CASE Len(x.todo) = 1
    BY <1>2, <1>5, <2>1, LaterVisit DEF AtDesk
  <2>2. CASE Len(x.todo) # 1
    <3>1. z.todo \in Resolving
      BY <1>2, <2>2, VisitGoesOn, EarlyHeads, RefreshHeads
    <3>2. z.todo \in VisitPlans /\ z.todo \notin Listing \cup Upserting
      BY <3>1, EarlyHeads, RefreshHeads DEF VisitPlans
    <3>3. /\ IsVisit(z) /\ z.vendor = x.vendor /\ z.row = x.row /\ z.late = x.late
      BY <1>2, <2>2, VisitGoesOn
    <3> HIDE DEF z
    <3> QED BY <1>2, <1>5, <1>6, <3>1, <3>2, <3>3 DEF IsSound
  <2> QED BY <2>1, <2>2
<1>8. \A q \in Hands \ {p} : Bystander(q, {})
  BY <1>5 DEF Bystander
<1>9. \A q \in Hands \ {p} :
         /\ AtDesk(q)' => IsSound(q)'
         /\ \A w \in VendorIds : Due(q, w) => Due(q, w)'
  BY <1>6, <1>8, BystanderSound DEF DocInv, VisitsSound
<1>10. VisitsSound' /\ DocShapes'
  BY <1>4, <1>5, <1>6, <1>7, <1>9 DEF VisitsSound, DocInv, DocShapes
<1>11. ASSUME NEW w \in VendorIds PROVE DocStands(w)'
  <2>1. CASE w = v
    BY <1>4, <1>6, <2>1 DEF DocStands, Document
  <2>2. CASE w # v
    <3>1. DocStands(w) /\ ~ Due(p, w)
      BY <1>2, <2>2 DEF DocInv
    <3> QED BY <1>4, <1>6, <1>9, <2>2, <3>1 DEF DocStands, Document
  <2> QED BY <2>1, <2>2
<1> QED BY <1>10, <1>11 DEF DocInv

(* Every statement of every visit keeps the documents.                     *)
LEMMA DocInvStep == DocInv /\ [VendorNext]_vendorVars => DocInv'
<1> SUFFICES ASSUME DocInv, [VendorNext]_vendorVars PROVE DocInv'
  OBVIOUS
<1>0. VendorInv'
  BY VendorInvStep DEF DocInv
<1>1. ASSUME NEW p \in Hands, Visits(p) PROVE DocInv'
  <2>1. CASE \E n \in VendorNames, a \in Expenses \cup {Unset} : handleVendorsCreate(p, n, a)
    BY <1>0, <2>1, VendorsCreateKeeps
  <2>2. CASE \E v \in VendorIds, n \in VendorNames, a \in Expenses \cup {Unset} :
                handleVendorsUpdate(p, v, n, a)
    BY <1>0, <2>2, VendorsUpdateKeeps
  <2> QED BY <1>0, <1>1, <2>1, <2>2, ArrivalsKeep DEF Visits
<1>2. ASSUME NEW p \in Hands,
             \/ Memoize(p) \/ Record(p) \/ ReadVendor(p) \/ ReadMisses(p) \/ ListNormalized(p)
             \/ UpsertVendor(p) \/ IndexFails(p) \/ SetResolvedVendor(p) \/ CompareDefault(p)
             \/ SetDefaultAccount(p) \/ RecordConfirmed(p) \/ DeleteVendor(p)
             \/ DropDocument(p) \/ ForeignKeyRefuses(p)
      PROVE  DocInv'
  BY <1>0, <1>2, MemoizeKeeps, RecordKeeps, ReadVendorKeeps, ReadMissesKeeps, ListNormalizedKeeps,
     UpsertKeeps, EndsKeep, CompareKeeps, SetDefaultKeeps, ConfirmKeeps, DeleteKeeps, RefusalKeeps
<1>3. CASE \E raw \in Raws, v \in 0 .. MaxVendors : handleReceiptSetVendor(raw, v)
  BY <1>0, <1>3, SetVendorKeeps
<1>4. CASE \E a \in Expenses : handleDeleteAccount(a)
  BY <1>0, <1>4, AccountKeeps
<1>5. CASE UNCHANGED vendorVars
  <2>1. /\ UNCHANGED <<vendors, alias, resolved, mirror, visit, excused>>
        /\ Existing' = Existing /\ \A v : Aliases(v)' = Aliases(v)
    BY <1>5 DEF vendorVars, rows, Existing, Aliases
  <2> QED BY <1>0, <2>1 DEF DocInv, DocShapes, VisitsSound, IsSound, AtDesk, DocStands, Due
<1> QED BY <1>1, <1>2, <1>3, <1>4, <1>5 DEF VendorNext

(* There is neither a vendor nor a document, and nobody at a desk.         *)
LEMMA DocInvInit == VendorInit => DocInv
<1> SUFFICES ASSUME VendorInit PROVE DocInv
  OBVIOUS
<1>1. VendorInv
  BY VendorInvInit
<1>2. DocShapes /\ VisitsSound /\ \A v \in VendorIds : mirror[v] = Gone
  BY DEF VendorInit, DocShapes, VisitsSound, AtDesk
<1> QED BY <1>1, <1>2 DEF DocInv, DocStands

(* What is offered of a vendor nobody works on is as the table has it.     *)
LEMMA DocInvFollows == DocInv => DocsFollowVendors
<1> SUFFICES ASSUME DocInv PROVE DocsFollowVendors
  OBVIOUS
<1>1. ASSUME NEW v \in VendorIds, v \notin excused, mirror[v] # Gone, ~ Busy(v)
      PROVE  v \in Existing /\ mirror[v] = Document(vendors[v], Aliases(v))
  BY <1>1 DEF DocInv, DocStands, Busy, Due
<1>2. ASSUME NEW n \in VendorNames, NEW r \in Raws, NEW c \in Candidates(n, r),
             ~ Busy(c.vendor), c.vendor \notin excused
      PROVE  c.vendor \in Existing /\ c.account = vendors[c.vendor].account
  <2>1. CASE \E v \in Existing : c = [vendor |-> v, account |-> vendors[v].account]
    BY <2>1
  <2>2. CASE \E v \in Hits(n, r) : c = [vendor |-> v, account |-> mirror[v].account]
    <3>1. PICK v \in Hits(n, r) : c = [vendor |-> v, account |-> mirror[v].account]
      BY <2>2
    <3>2. v \in VendorIds /\ mirror[v] # Gone /\ c.vendor = v /\ c.account = mirror[v].account
      BY <3>1 DEF Hits
    <3>3. v \in Existing /\ mirror[v] = Document(vendors[v], Aliases(v))
      BY <1>1, <1>2, <3>2
    <3> QED BY <3>2, <3>3 DEF Document
  <2> QED BY <2>1, <2>2 DEF Candidates, Named
<1> QED BY <1>1, <1>2 DEF DocsFollowVendors

(* No interleaving of resolutions, postings, edits, deletions and          *)
(* reindexing leaves a document behind its vendor, but for a named cause.  *)
THEOREM DocumentsFollow == VendorSpec => []DocsFollowVendors
BY DocInvInit, DocInvStep, DocInvFollows, PTL DEF VendorSpec

(***************************************************************************)
(* Types of the vendors.                                                   *)
(***************************************************************************)

VendorRows == [name : VendorNames, account : Expenses \cup {Unset}]

(* A visit that will create a vendor has its name, and one that will       *)
(* confirm a string has it; what it has read is a row and strings.         *)
VisitTyped(x) ==
    /\ x.row = Gone \/ x.row \in VendorRows
    /\ x.aliases \subseteq Raws
    /\ x.todo \in Memoizing => x.name \in VendorNames
    /\ x.todo \in Comparing \cup Setting \cup (Mending \ Reading) => x.raw \in Raws

VisitsTyped == \A q \in Hands : AtDesk(q) => VisitTyped(visit[q])

VendorTypes == VendorTypeOK /\ VisitsTyped

(* At first there is no vendor and no visit.                               *)
LEMMA VendorTypesInit == VendorInit => VendorTypes
<1> SUFFICES ASSUME VendorInit PROVE VendorTypes
  OBVIOUS
<1>1. 0 \in 0 .. MaxVendors /\ 0 \in 0 .. MaxVisits /\ 0 \in 0 .. MaxVendorFaults
  BY VendorConstants
<1>2. VisitsTyped
  BY DEF VendorInit, VisitsTyped, AtDesk
<1>3. VendorTypeOK
  BY <1>1 DEF VendorInit, VendorTypeOK, NoVendor
<1> QED BY <1>2, <1>3 DEF VendorTypes

(* One visit changes; the others are at most marked late.                  *)
LEMMA OneVisitTyped ==
  ASSUME DocInv, VisitsTyped, NEW p, p \in Hands => (AtDesk(p)' => VisitTyped(visit'[p])),
         \A q \in Hands \ {p} :
            visit'[q] = visit[q] \/ (AtDesk(q) /\ visit'[q] = [visit[q] EXCEPT !.late = TRUE])
  PROVE  VisitsTyped'
<1> SUFFICES ASSUME NEW q \in Hands \ {p}, AtDesk(q)' PROVE VisitTyped(visit'[q])
  BY DEF VisitsTyped
<1>1. CASE visit'[q] = visit[q]
  BY <1>1 DEF VisitsTyped, AtDesk
<1>2. CASE AtDesk(q) /\ visit'[q] = [visit[q] EXCEPT !.late = TRUE]
  <2> DEFINE x == visit[q]
             y == visit'[q]
  <2>1. IsVisit(x) /\ VisitTyped(x)
    BY <1>2 DEF DocInv, VisitsSound, IsSound, VisitsTyped
  <2>2. y.todo = x.todo /\ y.row = x.row /\ y.aliases = x.aliases /\ y.name = x.name /\ y.raw = x.raw
    <3>1. y = [x EXCEPT !.late = TRUE]
      BY <1>2
    <3> HIDE DEF x, y
    <3> QED BY <2>1, <3>1 DEF IsVisit
  <2> QED BY <2>1, <2>2 DEF VisitTyped
<1> QED BY <1>1, <1>2

(* What p goes on with.                                                    *)
LEMMA LaterTyped ==
  ASSUME NEW x, IsVisit(x), x.todo \in VisitPlans, VisitTyped(x), Len(x.todo) # 1
  PROVE  /\ IsVisit(Later(x)) /\ Later(x).todo = Tail(x.todo) /\ Later(x).todo \in VisitPlans
         /\ Later(x).todo \notin Memoizing \cup Comparing
         /\ VisitTyped(Later(x))
         /\ Later(x).row = x.row /\ Later(x).aliases = x.aliases /\ Later(x).raw = x.raw
<1> DEFINE y == Later(x)
<1>1. /\ IsVisit(y) /\ y.todo = Tail(x.todo) /\ y.row = x.row /\ y.aliases = x.aliases
      /\ y.raw = x.raw /\ y.name = x.name
  BY LaterVisit DEF IsVisit
<1>2. /\ Tail(x.todo) \in Recording \cup Setting \cup Mending \cup Listing \cup Upserting \cup Dropping
                          \cup Resolving
      /\ Tail(x.todo) \in Setting => x.todo \in Comparing
      /\ Tail(x.todo) \in Mending \ Reading => x.todo \in Setting
  <2>1. Reading \subseteq Mending
    BY DEF Mending
  <2>2. \A t \in Recording \cup Setting \cup Mending \cup Listing \cup Upserting \cup Dropping
                 \cup Resolving : t \in VisitPlans
    BY DEF VisitPlans
  <2>3. x.todo \in Memoizing => Tail(x.todo) \in Recording
    BY EarlyHeads
  <2>4. x.todo \in Recording => Tail(x.todo) \in Reading
    BY EarlyHeads
  <2>5. x.todo \in Comparing => Tail(x.todo) \in Setting
    BY EarlyHeads
  <2>6. x.todo \in Setting => Tail(x.todo) \in Mending
    BY EarlyHeads
  <2>7. x.todo \in Mending \ Reading => Tail(x.todo) \in Reading
    BY RefreshHeads
  <2>8. x.todo \in Reading => Tail(x.todo) \in Listing
    BY RefreshHeads
  <2>9. x.todo \in Listing => Tail(x.todo) \in Upserting
    BY RefreshHeads
  <2>10. x.todo \in Upserting => Tail(x.todo) \in Resolving
    BY RefreshHeads
  <2>11. x.todo \in Deleting => Tail(x.todo) \in Dropping
    BY EarlyHeads
  <2>12. x.todo \notin Dropping /\ x.todo \notin Resolving
    BY EarlyHeads
  <2>13. Tail(x.todo) \in VisitPlans
    BY <2>1, <2>2, <2>3, <2>4, <2>5, <2>6, <2>7, <2>8, <2>9, <2>10, <2>11, <2>12 DEF VisitPlans
  <2>14. /\ Tail(x.todo) \in Setting => Head(Tail(x.todo)) = "set"
         /\ Tail(x.todo) \in Mending \ Reading => Head(Tail(x.todo)) = "confirm"
         /\ Tail(x.todo) \in Recording => Head(Tail(x.todo)) = "record"
         /\ Tail(x.todo) \in Reading => Head(Tail(x.todo)) = "read"
         /\ Tail(x.todo) \in Listing => Head(Tail(x.todo)) = "list"
         /\ Tail(x.todo) \in Upserting => Head(Tail(x.todo)) = "upsert"
         /\ Tail(x.todo) \in Resolving => Head(Tail(x.todo)) = "resolve"
         /\ Tail(x.todo) \in Dropping => Head(Tail(x.todo)) = "drop"
    BY <2>13, PlanOfHead
  <2> QED BY <2>1, <2>3, <2>4, <2>5, <2>6, <2>7, <2>8, <2>9, <2>10, <2>11, <2>12, <2>14 DEF VisitPlans
<1>3. Tail(x.todo) \in VisitPlans
  BY <1>2 DEF VisitPlans
<1>4. Tail(x.todo) \notin Memoizing \cup Comparing
  BY <1>2, <1>3, PlanOfHead
<1> HIDE DEF y
<1>5. VisitTyped(y)
  BY <1>1, <1>2, <1>4 DEF VisitTyped
<1> QED BY <1>1, <1>3, <1>4, <1>5 DEF y

(* The visit that p pays.                                                  *)
LEMMA VisitOf ==
  ASSUME DocInv, VisitsTyped, NEW p \in Hands, AtDesk(p)
  PROVE  /\ IsVisit(visit[p]) /\ visit[p].todo \in VisitPlans /\ VisitTyped(visit[p])
         /\ visit[p].vendor \in VendorIds \/ visit[p].todo \in Memoizing
         /\ visit[p].todo \in Listing \cup Upserting => visit[p].row \in VendorRows
         /\ Len(visit[p].todo) = 1 => Next_(p) = Resting_
         /\ Len(visit[p].todo) # 1 => /\ IsVisit(Next_(p)) /\ VisitTyped(Next_(p))
                                      /\ Next_(p).todo = Tail(visit[p].todo)
                                      /\ Next_(p).todo \in VisitPlans
                                      /\ Next_(p).todo \notin Memoizing \cup Comparing
                                      /\ Next_(p).raw = visit[p].raw
<1>1. /\ IsVisit(visit[p]) /\ visit[p].todo \in VisitPlans /\ VisitTyped(visit[p])
      /\ visit[p].vendor \in VendorIds \/ visit[p].todo \in Memoizing
      /\ visit[p].todo \in Listing \cup Upserting => visit[p].row # Gone
  BY DEF DocInv, VisitsSound, IsSound, VisitsTyped
<1>2. CASE Len(visit[p].todo) = 1
  BY <1>1, <1>2, LaterVisit DEF Next_, VisitTyped
<1>3. CASE Len(visit[p].todo) # 1
  BY <1>1, <1>3, LaterTyped DEF Next_, VisitTyped
<1> QED BY <1>1, <1>2, <1>3

(* A visit of p goes on or ends, and p may have written itself a note.     *)
LEMMA EndsTyped ==
  ASSUME DocInv, VisitsTyped, NEW p \in Hands, AtDesk(p),
         visit' = [visit EXCEPT ![p] = Next_(p)] \/ visit' = [visit EXCEPT ![p] = Resting_]
  PROVE  VisitsTyped'
<1>1. \A q \in Hands \ {p} : visit'[q] = visit[q]
  BY DEF DocInv, DocShapes
<1>2. visit'[p] = Next_(p) \/ visit'[p] = Resting_
  BY DEF DocInv, DocShapes
<1>3. AtDesk(p)' => VisitTyped(visit'[p])
  BY <1>2, VisitOf DEF AtDesk
<1> QED BY <1>1, <1>3, OneVisitTyped

(* The bounds of counters that stay.                                       *)
LEMMA BoundsOfVendors == MaxVendors \in Nat /\ MaxVisits \in Nat /\ MaxVendorFaults \in Nat
BY VendorConstants

(* The document is written from the row as it was read.                    *)
LEMMA MirrorTyped ==
  ASSUME VendorTypes, DocInv, NEW p \in Hands, UpsertVendor(p) \/ DropDocument(p) PROVE VendorTypes'
<1> DEFINE x == visit[p]
<1>1. AtDesk(p) /\ UNCHANGED <<vendors, issued, alias, resolved, chart, human, visits, vendorFaults>>
      /\ visit' = [visit EXCEPT ![p] = Next_(p)]
  BY DEF UpsertVendor, DropDocument, On, Keep, rows
<1>2. /\ IsVisit(x) /\ x.todo \in VisitPlans /\ VisitTyped(x)
      /\ x.vendor \in VendorIds \/ x.todo \in Memoizing
      /\ x.todo \in Listing \cup Upserting => x.row \in VendorRows
  BY <1>1, VisitOf DEF VendorTypes
<1>3. Head(x.todo) \in {"upsert", "drop"}
  BY DEF UpsertVendor, DropDocument, On
<1>4. x.vendor \in VendorIds
  BY <1>2, <1>3, PlanOfHead, EarlyHeads
<1>5. VisitsTyped'
  BY <1>1, EndsTyped DEF VendorTypes
<1>6. excused' \subseteq VendorIds
  BY <1>4 DEF UpsertVendor, DropDocument, VendorTypes, VendorTypeOK
<1>7. \A v \in VendorIds : mirror'[v] = Gone \/
          mirror'[v] \in [name : VendorNames, account : Expenses \cup {Unset}, aliases : SUBSET Raws]
  <2>1. CASE UpsertVendor(p)
    <3>1. x.todo \in Upserting
      BY <1>2, <2>1, PlanOfHead DEF UpsertVendor, On
    <3>2. Document(x.row, x.aliases)
            \in [name : VendorNames, account : Expenses \cup {Unset}, aliases : SUBSET Raws]
      BY <1>2, <3>1 DEF VisitTyped, VendorRows, Document
    <3>3. mirror' = [mirror EXCEPT ![x.vendor] = Document(x.row, x.aliases)]
      BY <2>1 DEF UpsertVendor
    <3> QED BY <3>2, <3>3 DEF VendorTypes, VendorTypeOK, DocInv, DocShapes
  <2>2. CASE DropDocument(p)
    BY <2>2 DEF DropDocument, VendorTypes, VendorTypeOK, DocInv, DocShapes
  <2> QED BY <2>1, <2>2
<1> QED BY <1>1, <1>5, <1>6, <1>7 DEF VendorTypes, VendorTypeOK

(* What a failed read, write or constraint leaves behind.                  *)
LEMMA FaultsTyped ==
  ASSUME VendorTypes, DocInv, NEW p \in Hands,
         IndexFails(p) \/ SetResolvedVendor(p) \/ ForeignKeyRefuses(p)
  PROVE  VendorTypes'
<1> DEFINE x == visit[p]
<1>1. AtDesk(p) /\ UNCHANGED <<vendors, issued, alias, chart, mirror, human, visits>>
      /\ (visit' = [visit EXCEPT ![p] = Next_(p)] \/ visit' = [visit EXCEPT ![p] = Resting_])
  BY DEF IndexFails, SetResolvedVendor, ForeignKeyRefuses, On, Keep, rows
<1>2. VisitsTyped'
  BY <1>1, EndsTyped DEF VendorTypes
<1>3. resolved' \in [Raws -> 0 .. MaxVendors]
  BY BoundsOfVendors DEF IndexFails, SetResolvedVendor, ForeignKeyRefuses, rows, VendorTypes, VendorTypeOK,
     Existing, VendorIds
<1>4. excused' \subseteq VendorIds /\ vendorFaults' \in 0 .. MaxVendorFaults
  <2>1. CASE IndexFails(p)
    <3>1. x.todo \in VisitPlans /\ (x.vendor \in VendorIds \/ x.todo \in Memoizing)
      BY <1>1, VisitOf DEF VendorTypes
    <3>2. x.vendor \in VendorIds
      BY <2>1, <3>1, PlanOfHead, EarlyHeads DEF IndexFails, On
    <3> QED BY <2>1, <3>2, BoundsOfVendors DEF IndexFails, VendorTypes, VendorTypeOK
  <2>2. CASE SetResolvedVendor(p) \/ ForeignKeyRefuses(p)
    BY <2>2 DEF SetResolvedVendor, ForeignKeyRefuses, Keep, VendorTypes, VendorTypeOK
  <2> QED BY <2>1, <2>2
<1> QED BY <1>1, <1>2, <1>3, <1>4 DEF VendorTypes, VendorTypeOK

(* What is read of a vendor is its row, its aliases, or that it is gone.   *)
LEMMA ReadsTyped ==
  ASSUME VendorTypes, DocInv, NEW p \in Hands,
         ReadVendor(p) \/ ReadMisses(p) \/ ListNormalized(p)
  PROVE  VendorTypes'
<1> DEFINE x == visit[p]
           y == visit'[p]
           z == Next_(p)
<1>1. AtDesk(p) /\ UNCHANGED <<vendors, issued, alias, resolved, chart, mirror, human, excused, visits, vendorFaults>>
  BY DEF ReadVendor, ReadMisses, ListNormalized, On, Keep, rows
<1>2. \A q \in Hands \ {p} : visit'[q] = visit[q]
  BY DEF ReadVendor, ReadMisses, ListNormalized, DocInv, DocShapes
<1>3. /\ IsVisit(x) /\ x.todo \in VisitPlans /\ VisitTyped(x)
      /\ Len(x.todo) # 1 => /\ IsVisit(z) /\ VisitTyped(z) /\ z.todo = Tail(x.todo)
                            /\ z.todo \in VisitPlans /\ z.todo \notin Memoizing \cup Comparing
  BY <1>1, VisitOf DEF VendorTypes
<1>4. VisitTyped(y)
  <2>1. CASE ReadVendor(p)
    <3>1. x.todo \in Reading /\ x.vendor \in Existing
      BY <1>3, <2>1, PlanOfHead DEF ReadVendor, On
    <3>2. IsVisit(z) /\ VisitTyped(z) /\ z.todo \in Listing
      BY <1>3, <3>1, RefreshHeads
    <3>3. vendors[x.vendor] \in VendorRows
      BY <3>1 DEF Existing, VendorTypes, VendorTypeOK, VendorRows
    <3> DEFINE r  == vendors[x.vendor]
               no == FALSE
    <3>4. y = Reread(z, r, no)
      BY <2>1 DEF ReadVendor, Reread, DocInv, DocShapes
    <3> HIDE DEF y, z, r, no
    <3>5. y.todo = z.todo /\ y.row = r /\ y.aliases = z.aliases
      BY <3>2, <3>4, RereadVisit
    <3>6. z.todo \notin Memoizing \cup Comparing \cup Setting \cup (Mending \ Reading)
      BY <3>2, EarlyHeads, RefreshHeads
    <3> QED BY <3>2, <3>3, <3>5, <3>6 DEF VisitTyped, r
  <2>2. CASE ReadMisses(p)
    <3>1. y = [x EXCEPT !.todo = <<"resolve">>]
      BY <2>2 DEF ReadMisses, DocInv, DocShapes
    <3> HIDE DEF x, y
    <3>2. y.todo = <<"resolve">> /\ y.row = x.row /\ y.aliases = x.aliases
      BY <1>3, <3>1 DEF IsVisit
    <3>3. y.todo \in Resolving
      BY <3>2 DEF Resolving
    <3>4. y.todo \notin Memoizing \cup Comparing \cup Setting \cup (Mending \ Reading)
      BY <3>3, EarlyHeads, RefreshHeads
    <3> QED BY <1>3, <3>2, <3>4 DEF VisitTyped
  <2>3. CASE ListNormalized(p)
    <3>1. x.todo \in Listing
      BY <1>3, <2>3, PlanOfHead DEF ListNormalized, On
    <3>2. IsVisit(z) /\ VisitTyped(z)
      BY <1>3, <3>1, RefreshHeads
    <3>3. y = [z EXCEPT !.aliases = Aliases(x.vendor)]
      BY <2>3 DEF ListNormalized, DocInv, DocShapes
    <3>4. Aliases(x.vendor) \subseteq Raws
      BY DEF Aliases
    <3> HIDE DEF x, y, z
    <3>5. y.todo = z.todo /\ y.row = z.row /\ y.aliases = Aliases(x.vendor) /\ y.name = z.name /\ y.raw = z.raw
      BY <3>2, <3>3 DEF IsVisit
    <3> QED BY <3>2, <3>4, <3>5 DEF VisitTyped
  <2> QED BY <2>1, <2>2, <2>3
<1>5. VisitsTyped'
  BY <1>2, <1>4, OneVisitTyped DEF VendorTypes
<1> QED BY <1>1, <1>5 DEF VendorTypes, VendorTypeOK

(* A write marks the others at most, and p goes on.                        *)
LEMMA TouchedTyped ==
  ASSUME VendorTypes, DocInv, NEW p \in Hands, NEW vs, NEW x, Touched(vs, p, x),
         x = Resting_ \/ VisitTyped(x)
  PROVE  VisitsTyped'
<1>1. visit'[p] = x /\ \A q \in Hands \ {p} : Bystander(q, vs)
  BY TouchedVisits
<1>2. AtDesk(p)' => VisitTyped(visit'[p])
  BY <1>1 DEF AtDesk
<1>3. \A q \in Hands \ {p} :
         visit'[q] = visit[q] \/ (AtDesk(q) /\ visit'[q] = [visit[q] EXCEPT !.late = TRUE])
  BY <1>1 DEF Bystander
<1> QED BY <1>2, <1>3, OneVisitTyped DEF VendorTypes

(* The upsert writes a row, and the caller goes on with one.               *)
LEMMA CreateTyped ==
  ASSUME VendorTypes, DocInv, NEW p \in Hands, NEW x, IsVisit(x), VisitTyped(x),
         NEW n \in VendorNames, NEW a \in Expenses \cup {Unset}, Create(p, x, [name |-> n, account |-> a])
  PROVE  /\ \A v \in VendorIds : vendors'[v] = Gone \/ vendors'[v] \in VendorRows
         /\ issued' \in 0 .. MaxVendors /\ VisitsTyped'
<1> DEFINE new == [name |-> n, account |-> a]
           hit == Named(new.name)
           v   == IF hit = {} THEN issued + 1 ELSE CHOOSE w \in hit : TRUE
           row == IF hit = {} THEN new ELSE Merged(vendors[v], new)
           b   == row # new
           y   == [x EXCEPT !.vendor = v, !.row = new, !.late = b]
<1>1. /\ v \in VendorIds /\ vendors' = [vendors EXCEPT ![v] = row] /\ Touched({v}, p, y)
      /\ issued' = IF hit = {} THEN v ELSE issued
  BY DEF Create
<1>2. new \in VendorRows
  BY DEF VendorRows
<1>3. row \in VendorRows
  <2>1. CASE hit = {}
    BY <1>2, <2>1
  <2>2. CASE hit # {}
    <3>1. v \in Existing
      BY <2>2 DEF Named
    <3>2. vendors[v] \in VendorRows
      BY <3>1 DEF Existing, VendorTypes, VendorTypeOK, VendorRows
    <3>3. row = Merged(vendors[v], new)
      BY <2>2
    <3> HIDE DEF v, row, new
    <3> QED BY <1>2, <3>2, <3>3 DEF Merged, VendorRows
  <2> QED BY <2>1, <2>2
<1> HIDE DEF new, hit, v, row, b
<1>4. y = Edited(x, v, new, b)
  BY DEF Edited
<1> HIDE DEF y
<1>5. y.todo = x.todo /\ y.row = new /\ y.raw = x.raw /\ y.name = x.name /\ y.aliases = x.aliases
  BY <1>4, EditedVisit
<1>6. VisitsTyped'
  <2>1. VisitTyped(y)
    BY <1>2, <1>5 DEF VisitTyped
  <2> QED BY <1>1, <2>1, TouchedTyped
<1>7. \A w \in VendorIds : vendors'[w] = Gone \/ vendors'[w] \in VendorRows
  <2>1. vendors = [w \in VendorIds |-> vendors[w]]
    BY DEF DocInv, VendorInv, RowShapes
  <2> QED BY <1>1, <1>3, <2>1 DEF VendorTypes, VendorTypeOK, VendorRows
<1>8. issued' \in 0 .. MaxVendors
  BY <1>1, BoundsOfVendors DEF VendorIds, VendorTypes, VendorTypeOK
<1> QED BY <1>6, <1>7, <1>8

(* A visit is counted.                                                     *)
LEMMA VisitedTyped == ASSUME VendorTypeOK, Visited PROVE visits' \in 0 .. MaxVisits
BY BoundsOfVendors DEF Visited, VendorTypeOK

(* A vendor is created, or found by its name.                              *)
LEMMA CreatesTyped ==
  ASSUME VendorTypes, DocInv, NEW p \in Hands,
         \/ Memoize(p)
         \/ \E n \in VendorNames, a \in Expenses \cup {Unset} : handleVendorsCreate(p, n, a)
  PROVE  VendorTypes'
<1>a. \A n, a, todo : IsVisit(Visit(NoVendor, Gone, n, a, todo))
                      /\ Visit(NoVendor, Gone, n, a, todo).todo = todo
                      /\ Visit(NoVendor, Gone, n, a, todo).row = Gone
                      /\ Visit(NoVendor, Gone, n, a, todo).aliases = {}
  BY DEF Visit, IsVisit
<1>1. CASE Memoize(p)
  <2> DEFINE n == visit[p].name
             a == visit[p].account
             x == Next_(p)
  <2>1. /\ AtDesk(p) /\ Head(visit[p].todo) = "memoize" /\ a \in chart /\ Create(p, x, [name |-> n, account |-> a])
        /\ excused' = excused \cup {v \in VendorIds : vendors'[v] # vendors[v]}
        /\ UNCHANGED <<visits, vendorFaults, mirror, human>>
    BY <1>1 DEF Memoize, On, Keep
  <2>2. /\ visit[p].todo \in Memoizing /\ n \in VendorNames /\ IsVisit(x) /\ VisitTyped(x)
    <3>1. visit[p].todo \in Memoizing
      BY <2>1, VisitOf, PlanOfHead DEF VendorTypes
    <3>2. Len(visit[p].todo) # 1
      BY <3>1, EarlyHeads
    <3> QED BY <2>1, <3>1, <3>2, VisitOf DEF VendorTypes, VisitTyped
  <2>3. a \in Expenses \cup {Unset}
    BY <2>1 DEF VendorTypes, VendorTypeOK
  <2>4. UNCHANGED <<alias, resolved, chart>>
    BY <2>1 DEF Create
  <2> HIDE DEF n, a, x
  <2>5. /\ \A v \in VendorIds : vendors'[v] = Gone \/ vendors'[v] \in VendorRows
        /\ issued' \in 0 .. MaxVendors /\ VisitsTyped'
    BY <2>1, <2>2, <2>3, CreateTyped
  <2> QED BY <2>1, <2>4, <2>5 DEF VendorTypes, VendorTypeOK, VendorRows
<1>2. ASSUME NEW n \in VendorNames, NEW a \in Expenses \cup {Unset}, handleVendorsCreate(p, n, a)
      PROVE  VendorTypes'
  <2> DEFINE x == Visit(NoVendor, Gone, n, a, <<"list", "upsert">>)
  <2>1. /\ Visited /\ Create(p, x, [name |-> n, account |-> a])
        /\ human' = [v \in VendorIds |-> IF vendors'[v] # vendors[v] THEN a ELSE human[v]]
        /\ excused' = excused \cup {v \in VendorIds : vendors'[v] # vendors[v]}
        /\ UNCHANGED <<mirror, vendorFaults>>
    BY <1>2 DEF handleVendorsCreate
  <2>2. IsVisit(x) /\ VisitTyped(x)
    <3>1. x.todo \in Listing
      BY <1>a, FirstPlans
    <3>2. x.todo \notin Memoizing \cup Comparing \cup Setting \cup (Mending \ Reading)
      BY <3>1, EarlyHeads, RefreshHeads
    <3> QED BY <1>a, <3>2 DEF VisitTyped
  <2>3. UNCHANGED <<alias, resolved, chart>>
    BY <2>1 DEF Create
  <2> HIDE DEF x
  <2>4. /\ \A v \in VendorIds : vendors'[v] = Gone \/ vendors'[v] \in VendorRows
        /\ issued' \in 0 .. MaxVendors /\ VisitsTyped'
    BY <2>1, <2>2, CreateTyped
  <2>5. human' \in [VendorIds -> Expenses \cup {Unset}]
    BY <2>1 DEF VendorTypes, VendorTypeOK
  <2> QED BY <2>1, <2>3, <2>4, <2>5, VisitedTyped DEF VendorTypes, VendorTypeOK, VendorRows
<1> QED BY <1>1, <1>2

(* A vendor is renamed, or given an account, by a person.                  *)
LEMMA UpdateTyped ==
  ASSUME VendorTypes, DocInv, NEW p \in Hands, NEW v \in VendorIds, NEW n \in VendorNames,
         NEW a \in Expenses \cup {Unset}, handleVendorsUpdate(p, v, n, a)
  PROVE  VendorTypes'
<1> DEFINE r == [name |-> n, account |-> a]
           x == Visit(v, Gone, n, a, <<"list", "upsert">>)
           y == [x EXCEPT !.row = r]
<1>1. /\ Visited /\ vendors' = [vendors EXCEPT ![v] = r] /\ Touched({v}, p, y)
      /\ human' = [human EXCEPT ![v] = a]
      /\ UNCHANGED <<issued, alias, resolved, chart, mirror, vendorFaults, excused>>
  BY DEF handleVendorsUpdate
<1>2. r \in VendorRows
  BY DEF VendorRows
<1>3. VisitTyped(y)
  <2>1. IsVisit(x) /\ x.todo \in Listing /\ x.aliases = {}
    BY FirstPlans DEF Visit, IsVisit
  <2> HIDE DEF x, r
  <2>2. y.todo = x.todo /\ y.row = r /\ y.aliases = x.aliases
    BY <2>1 DEF IsVisit
  <2>3. y.todo \notin Memoizing \cup Comparing \cup Setting \cup (Mending \ Reading)
    BY <2>1, <2>2, EarlyHeads, RefreshHeads
  <2> QED BY <1>2, <2>1, <2>2, <2>3 DEF VisitTyped
<1>4. VisitsTyped'
  BY <1>1, <1>3, TouchedTyped
<1> HIDE DEF r
<1>5. \A w \in VendorIds : vendors'[w] = Gone \/ vendors'[w] \in VendorRows
  <2>1. vendors = [w \in VendorIds |-> vendors[w]]
    BY DEF DocInv, VendorInv, RowShapes
  <2> QED BY <1>1, <1>2, <2>1 DEF VendorTypes, VendorTypeOK, VendorRows
<1>6. human' \in [VendorIds -> Expenses \cup {Unset}]
  BY <1>1 DEF VendorTypes, VendorTypeOK
<1> QED BY <1>1, <1>4, <1>5, <1>6, VisitedTyped DEF VendorTypes, VendorTypeOK, VendorRows

(* The account of one vendor is set, and a person chose it.                *)
LEMMA DefaultTyped ==
  ASSUME VendorTypes, DocInv, NEW p \in Hands, SetDefaultAccount(p) \/ CompareDefault(p)
  PROVE  VendorTypes'
<1> DEFINE x == visit[p]
           z == Next_(p)
<1>1. /\ AtDesk(p) /\ x.vendor \in Existing /\ Head(x.todo) \in {"set", "compare"}
      /\ UNCHANGED <<issued, alias, resolved, chart, mirror, excused, visits, vendorFaults>>
  BY DEF SetDefaultAccount, CompareDefault, On, Keep, rows
<1>2. /\ x.todo \in VisitPlans /\ (Head(x.todo) = "set" => x.todo \in Setting)
      /\ (Head(x.todo) = "compare" => x.todo \in Comparing)
  BY <1>1, VisitOf, PlanOfHead DEF VendorTypes
<1>3. Len(x.todo) # 1 /\ IsVisit(z) /\ VisitTyped(z) /\ z.todo = Tail(x.todo)
      /\ z.todo \in VisitPlans
  BY <1>1, <1>2, EarlyHeads, VisitOf DEF VendorTypes
<1>4. vendors[x.vendor] \in VendorRows /\ x.vendor \in VendorIds
      /\ vendors = [w \in VendorIds |-> vendors[w]]
  BY <1>1 DEF Existing, VendorTypes, VendorTypeOK, VendorRows, DocInv, VendorInv, RowShapes
<1>5. CASE SetDefaultAccount(p)
  <2>1. /\ x.account \in chart /\ vendors' = [vendors EXCEPT ![x.vendor].account = x.account]
        /\ human' = [human EXCEPT ![x.vendor] = x.account] /\ Touched({x.vendor}, p, z)
    BY <1>5 DEF SetDefaultAccount
  <2>2. x.account \in Expenses \cup {Unset}
    BY <2>1 DEF VendorTypes, VendorTypeOK
  <2> DEFINE v == x.vendor
             a == x.account
             r == [vendors[v] EXCEPT !.account = a]
  <2>3. vendors' = [vendors EXCEPT ![v] = r] /\ human' = [human EXCEPT ![v] = a]
        /\ Touched({v}, p, z)
    BY <2>1
  <2>4. r \in VendorRows
    BY <1>4, <2>2 DEF VendorRows
  <2>5. VisitsTyped'
    BY <1>3, <2>3, TouchedTyped
  <2>6. v \in VendorIds /\ a \in Expenses \cup {Unset}
    BY <1>4, <2>2
  <2> HIDE DEF v, r, a, x, z
  <2>7. \A w \in VendorIds : vendors'[w] = Gone \/ vendors'[w] \in VendorRows
    BY <1>4, <2>3, <2>4 DEF VendorTypes, VendorTypeOK, VendorRows
  <2>8. human' \in [VendorIds -> Expenses \cup {Unset}]
    BY <2>3, <2>6 DEF VendorTypes, VendorTypeOK
  <2> QED BY <1>1, <2>5, <2>7, <2>8 DEF VendorTypes, VendorTypeOK, VendorRows
<1>6. CASE CompareDefault(p)
  <2> DEFINE same == vendors[x.vendor].account = x.account
  <2>1. /\ visit' = [visit EXCEPT ![p] = IF same THEN Later(z) ELSE z]
        /\ human' = IF same THEN [human EXCEPT ![x.vendor] = x.account] ELSE human
        /\ vendors' = vendors /\ Head(x.todo) = "compare"
    BY <1>6 DEF CompareDefault, On, rows
  <2>2. \A q \in Hands \ {p} : visit'[q] = visit[q]
    BY <2>1 DEF DocInv, DocShapes
  <2>3. visit'[p] = IF same THEN Later(z) ELSE z
    BY <2>1 DEF DocInv, DocShapes
  <2>4. VisitTyped(Later(z))
    <3>1. z.todo \in Setting
      BY <1>2, <1>3, <2>1, EarlyHeads
    <3>2. Len(z.todo) # 1
      BY <3>1, EarlyHeads
    <3> QED BY <1>3, <3>2, LaterTyped
  <2>5. VisitsTyped'
    BY <1>3, <2>2, <2>3, <2>4, OneVisitTyped DEF VendorTypes
  <2>6. human' \in [VendorIds -> Expenses \cup {Unset}]
    <3>1. same => x.account \in Expenses \cup {Unset}
      BY <1>4 DEF VendorRows
    <3> HIDE DEF same, x
    <3> QED BY <2>1, <3>1 DEF VendorTypes, VendorTypeOK
  <2> QED BY <1>1, <2>1, <2>5, <2>6 DEF VendorTypes, VendorTypeOK
<1> QED BY <1>5, <1>6

(* A string is recorded for a vendor, or taken from another.               *)
LEMMA AliasTyped ==
  ASSUME VendorTypes, DocInv, NEW p \in Hands, Record(p) \/ RecordConfirmed(p)
  PROVE  VendorTypes'
<1> DEFINE x == visit[p]
           z == Next_(p)
<1>1. /\ AtDesk(p) /\ Head(x.todo) \in {"record", "confirm"}
      /\ UNCHANGED <<vendors, issued, resolved, chart, mirror, human, visits, vendorFaults>>
  BY DEF Record, RecordConfirmed, On, Keep
<1>2. /\ x.todo \in VisitPlans /\ (Head(x.todo) = "record" => x.todo \in Recording)
      /\ (Head(x.todo) = "confirm" => x.todo \in Mending \ Reading) /\ VisitTyped(x)
      /\ x.vendor \in VendorIds
  BY <1>1, VisitOf, PlanOfHead, EarlyHeads DEF VendorTypes
<1>3. Len(x.todo) # 1 /\ IsVisit(z) /\ VisitTyped(z) /\ z.todo = Tail(x.todo) /\ z.todo \in VisitPlans
  BY <1>1, <1>2, EarlyHeads, RefreshHeads, VisitOf DEF VendorTypes
<1>v. x.vendor \in 0 .. MaxVendors
  BY <1>2, BoundsOfVendors DEF VendorIds
<1>4. alias' \in [Raws -> 0 .. MaxVendors]
  <2>1. alias' = alias \/ (\E v \in {x.vendor, alias[x.raw]} : x.vendor \in 0 .. MaxVendors
                              /\ alias' = [alias EXCEPT ![x.raw] = v]
                              /\ (v = alias[x.raw] => v = x.vendor \/ alias' = alias))
    BY <1>v DEF Record, RecordConfirmed, VendorTypes, VendorTypeOK
  <2>2. CASE alias' = [alias EXCEPT ![x.raw] = x.vendor]
    BY <1>v, <2>2 DEF VendorTypes, VendorTypeOK
  <2> QED BY <2>1, <2>2 DEF VendorTypes, VendorTypeOK
<1>5. excused' \subseteq VendorIds
  <2>1. CASE Record(p)
    BY <1>2, <2>1 DEF Record, VendorTypes, VendorTypeOK
  <2>2. CASE RecordConfirmed(p)
    <3>1. x.raw \in Raws
      BY <1>2, <2>2 DEF RecordConfirmed, On, VisitTyped
    <3>2. alias[x.raw] = NoVendor \/ alias[x.raw] \in VendorIds
      BY <3>1, BoundsOfVendors DEF VendorTypes, VendorTypeOK, NoVendor, VendorIds
    <3>3. excused' = excused \/ excused' = excused \cup ({alias[x.raw]} \ {NoVendor, x.vendor})
      BY <2>2 DEF RecordConfirmed
    <3> QED BY <3>2, <3>3 DEF VendorTypes, VendorTypeOK
  <2> QED BY <2>1, <2>2
<1>6. VisitsTyped'
  <2>1. CASE visit' = [visit EXCEPT ![p] = z]
    BY <1>1, <2>1, EndsTyped DEF VendorTypes
  <2>2. CASE Record(p) /\ x.vendor \in Existing
    <3> DEFINE no == FALSE
               y  == Reread(z, Gone, no)
    <3>1. Touched({x.vendor}, p, y)
      BY <2>2 DEF Record, Reread
    <3> HIDE DEF no, z
    <3>2. y.todo = z.todo /\ y.row = Gone /\ y.raw = z.raw /\ y.name = z.name /\ y.aliases = z.aliases
      BY <1>3, RereadVisit
    <3> HIDE DEF y
    <3>3. VisitTyped(y)
      BY <1>3, <3>2 DEF VisitTyped
    <3> QED BY <3>1, <3>3, TouchedTyped
  <2>3. CASE RecordConfirmed(p) /\ x.vendor \in Existing
    <3>1. Touched({x.vendor, alias[x.raw]}, p, z)
      BY <2>3 DEF RecordConfirmed
    <3> QED BY <1>3, <3>1, TouchedTyped
  <2> QED BY <2>1, <2>2, <2>3 DEF Record, RecordConfirmed
<1> QED BY <1>1, <1>4, <1>5, <1>6 DEF VendorTypes, VendorTypeOK

(* A vendor is deleted, an account is, a receipt's vendor is corrected.    *)
LEMMA DeleteTyped ==
  ASSUME VendorTypes, DocInv, NEW p \in Hands, DeleteVendor(p) PROVE VendorTypes'
<1> DEFINE x == visit[p]
           z == Next_(p)
           v == x.vendor
<1>1. /\ AtDesk(p) /\ Head(x.todo) = "delete" /\ v \in Existing
      /\ vendors' = [vendors EXCEPT ![v] = Gone]
      /\ alias' = [r \in Raws |-> IF alias[r] = v THEN NoVendor ELSE alias[r]]
      /\ resolved' = [r \in Raws |-> IF resolved[r] = v THEN NoVendor ELSE resolved[r]]
      /\ human' = [human EXCEPT ![v] = Unset]
      /\ Touched({v}, p, z)
      /\ UNCHANGED <<issued, chart, mirror, excused, visits, vendorFaults>>
  BY DEF DeleteVendor, On, Keep
<1>2. x.todo \in Deleting /\ Len(x.todo) # 1
  BY <1>1, VisitOf, PlanOfHead, EarlyHeads DEF VendorTypes
<1>3. VisitTyped(z)
  BY <1>1, <1>2, VisitOf DEF VendorTypes
<1> HIDE DEF x, z, v
<1>4. VisitsTyped'
  BY <1>1, <1>3, TouchedTyped
<1>5. \A w \in VendorIds : vendors'[w] = Gone \/ vendors'[w] \in VendorRows
  <2>1. vendors = [w \in VendorIds |-> vendors[w]]
    BY DEF DocInv, VendorInv, RowShapes
  <2> QED BY <1>1, <2>1 DEF VendorTypes, VendorTypeOK, VendorRows
<1>6. alias' \in [Raws -> 0 .. MaxVendors] /\ resolved' \in [Raws -> 0 .. MaxVendors]
  BY <1>1, BoundsOfVendors DEF VendorTypes, VendorTypeOK, NoVendor
<1>7. human' \in [VendorIds -> Expenses \cup {Unset}]
  BY <1>1 DEF VendorTypes, VendorTypeOK
<1> QED BY <1>1, <1>4, <1>5, <1>6, <1>7 DEF VendorTypes, VendorTypeOK, VendorRows

(* An account is deleted, and the vendors lose it.                         *)
LEMMA AccountTyped ==
  ASSUME VendorTypes, DocInv, NEW a \in Expenses, handleDeleteAccount(a) PROVE VendorTypes'
<1> DEFINE cleared == {v \in Existing : vendors[v].account = a}
<1>1. /\ Visited /\ chart' = chart \ {a}
      /\ vendors' = [v \in VendorIds |->
                       IF v \in cleared THEN [vendors[v] EXCEPT !.account = Unset] ELSE vendors[v]]
      /\ human' = [v \in VendorIds |-> IF human[v] = a THEN Unset ELSE human[v]]
      /\ excused' = excused \cup cleared
      /\ visit' = [q \in Hands |->
            IF AtDesk(q) /\ visit[q].vendor \in cleared THEN [visit[q] EXCEPT !.late = TRUE] ELSE visit[q]]
      /\ UNCHANGED <<issued, alias, resolved, mirror, vendorFaults>>
  BY DEF handleDeleteAccount
<1>2. cleared \subseteq Existing /\ Existing \subseteq VendorIds
  BY DEF Existing
<1> HIDE DEF cleared
<1>3. VisitsTyped'
  <2> DEFINE noone == CHOOSE x : x \notin Hands
  <2>1. noone \notin Hands
    BY NoSetContainsEverything
  <2>2. \A q \in Hands \ {noone} :
           visit'[q] = visit[q] \/ (AtDesk(q) /\ visit'[q] = [visit[q] EXCEPT !.late = TRUE])
    BY <1>1
  <2> HIDE DEF noone
  <2> QED BY <2>1, <2>2, OneVisitTyped DEF VendorTypes
<1>4. \A w \in VendorIds : vendors'[w] = Gone \/ vendors'[w] \in VendorRows
  <2> SUFFICES ASSUME NEW w \in VendorIds PROVE vendors'[w] = Gone \/ vendors'[w] \in VendorRows
    OBVIOUS
  <2>1. CASE w \in cleared
    <3>1. vendors[w] \in VendorRows
      BY <1>2, <2>1 DEF Existing, VendorTypes, VendorTypeOK, VendorRows
    <3>2. vendors'[w] = [vendors[w] EXCEPT !.account = Unset]
      BY <1>1, <2>1
    <3> QED BY <3>1, <3>2 DEF VendorRows
  <2>2. CASE w \notin cleared
    BY <1>1, <2>2 DEF VendorTypes, VendorTypeOK, VendorRows
  <2> QED BY <2>1, <2>2
<1>5. human' \in [VendorIds -> Expenses \cup {Unset}]
  BY <1>1 DEF VendorTypes, VendorTypeOK
<1> QED BY <1>1, <1>2, <1>3, <1>4, <1>5, VisitedTyped DEF VendorTypes, VendorTypeOK, VendorRows

(* A receipt is given a vendor by hand.                                    *)
LEMMA SetVendorTyped ==
  ASSUME VendorTypes, NEW raw \in Raws, NEW v \in 0 .. MaxVendors, handleReceiptSetVendor(raw, v)
  PROVE  VendorTypes'
<1>1. resolved' \in [Raws -> 0 .. MaxVendors]
  BY DEF handleReceiptSetVendor, VendorTypes, VendorTypeOK
<1> QED BY <1>1, VisitedTyped
        DEF handleReceiptSetVendor, VendorTypes, VendorTypeOK, VisitsTyped, AtDesk

(* A visit begins with what its request names.                             *)
LEMMA ArrivalTyped ==
  ASSUME VendorTypes, DocInv, NEW p \in Hands, NEW x, Arrive(p, x), VisitTyped(x) PROVE VendorTypes'
<1>1. \A q \in Hands \ {p} : visit'[q] = visit[q]
  BY DEF Arrive, DocInv, DocShapes
<1>2. visit'[p] = x
  BY DEF Arrive, DocInv, DocShapes
<1>3. VisitsTyped'
  BY <1>1, <1>2, OneVisitTyped DEF VendorTypes
<1> QED BY <1>3, VisitedTyped DEF Arrive, rows, VendorTypes, VendorTypeOK

(* The visits that write nothing when they begin.                          *)
LEMMA ArrivalsTyped ==
  ASSUME VendorTypes, DocInv, NEW p \in Hands,
         \/ \E raw \in Raws : \/ \E v \in VendorIds : ResolveMatch(p, raw, v)
                              \/ \E n \in VendorNames, a \in Expenses : ResolveProposal(p, raw, n, a)
                              \/ \E a \in Expenses : LearnAccount(p, raw, a)
         \/ \E v \in VendorIds : Reindex(p, v) \/ handleVendorsDelete(p, v)
  PROVE  VendorTypes'
<1>a. ASSUME NEW v, NEW raw, NEW n, NEW a, NEW todo, Arrive(p, Visit(v, raw, n, a, todo)),
             todo \in Memoizing => n \in VendorNames,
             todo \in Comparing \cup Setting \cup (Mending \ Reading) => raw \in Raws
      PROVE  VendorTypes'
  <2> DEFINE x == Visit(v, raw, n, a, todo)
  <2>1. x.todo = todo /\ x.row = Gone /\ x.aliases = {} /\ x.name = n /\ x.raw = raw
    BY DEF Visit
  <2> HIDE DEF x
  <2>2. VisitTyped(x)
    BY <1>a, <2>1 DEF VisitTyped
  <2> QED BY <1>a, <2>2, ArrivalTyped DEF x
<1>1. ASSUME NEW raw \in Raws, NEW v \in VendorIds, ResolveMatch(p, raw, v) PROVE VendorTypes'
  <2> DEFINE todo == <<"record">> \o Refresh \o <<"resolve">>
  <2>1. Arrive(p, Visit(v, raw, Gone, Unset, todo)) /\ todo \in Recording
    BY <1>1, FirstPlans DEF ResolveMatch
  <2> HIDE DEF todo
  <2>2. todo \notin Memoizing
    BY <2>1, EarlyHeads
  <2> QED BY <1>a, <2>1, <2>2
<1>2. ASSUME NEW raw \in Raws, NEW n \in VendorNames, NEW a \in Expenses, ResolveProposal(p, raw, n, a)
      PROVE  VendorTypes'
  <2> DEFINE todo == <<"memoize", "record">> \o Refresh \o <<"resolve">>
  <2>1. Arrive(p, Visit(NoVendor, raw, n, a, todo))
    BY <1>2 DEF ResolveProposal
  <2> HIDE DEF todo
  <2> QED BY <1>a, <2>1
<1>3. ASSUME NEW raw \in Raws, NEW a \in Expenses, LearnAccount(p, raw, a) PROVE VendorTypes'
  <2> DEFINE todo == <<"compare", "set", "confirm">> \o Refresh
  <2>1. Arrive(p, Visit(resolved[raw], raw, Gone, a, todo)) /\ todo \in Comparing
    BY <1>3, FirstPlans DEF LearnAccount
  <2> HIDE DEF todo
  <2>2. todo \notin Memoizing
    BY <2>1, EarlyHeads
  <2> QED BY <1>a, <2>1, <2>2
<1>4. ASSUME NEW v \in VendorIds, Reindex(p, v) PROVE VendorTypes'
  <2> DEFINE todo == Refresh
  <2>1. Arrive(p, Visit(v, Gone, Gone, Unset, todo)) /\ todo \in Reading
    BY <1>4, FirstPlans DEF Reindex
  <2> HIDE DEF todo
  <2>2. todo \notin Memoizing \cup Comparing \cup Setting \cup (Mending \ Reading)
    BY <2>1, EarlyHeads, RefreshHeads
  <2> QED BY <1>a, <2>1, <2>2
<1>5. ASSUME NEW v \in VendorIds, handleVendorsDelete(p, v) PROVE VendorTypes'
  <2> DEFINE todo == <<"delete", "drop">>
  <2>1. Arrive(p, Visit(v, Gone, Gone, Unset, todo)) /\ todo \in Deleting
    BY <1>5, FirstPlans DEF handleVendorsDelete
  <2> HIDE DEF todo
  <2>2. todo \notin Memoizing \cup Comparing \cup Setting \cup (Mending \ Reading)
    BY <2>1, EarlyHeads, RefreshHeads
  <2> QED BY <1>a, <2>1, <2>2
<1> QED BY <1>1, <1>2, <1>3, <1>4, <1>5

(* Every statement of a visit keeps the types.                             *)
LEMMA VendorTypesStep == VendorTypes /\ DocInv /\ [VendorNext]_vendorVars => VendorTypes'
<1> SUFFICES ASSUME VendorTypes, DocInv, [VendorNext]_vendorVars PROVE VendorTypes'
  OBVIOUS
<1>1. ASSUME NEW p \in Hands, Visits(p) PROVE VendorTypes'
  <2>1. CASE \E n \in VendorNames, a \in Expenses \cup {Unset} : handleVendorsCreate(p, n, a)
    BY <2>1, CreatesTyped
  <2>2. CASE \E v \in VendorIds, n \in VendorNames, a \in Expenses \cup {Unset} :
                handleVendorsUpdate(p, v, n, a)
    BY <2>2, UpdateTyped
  <2> QED BY <1>1, <2>1, <2>2, ArrivalsTyped DEF Visits
<1>2. ASSUME NEW p \in Hands,
             \/ Memoize(p) \/ Record(p) \/ ReadVendor(p) \/ ReadMisses(p) \/ ListNormalized(p)
             \/ UpsertVendor(p) \/ IndexFails(p) \/ SetResolvedVendor(p) \/ CompareDefault(p)
             \/ SetDefaultAccount(p) \/ RecordConfirmed(p) \/ DeleteVendor(p)
             \/ DropDocument(p) \/ ForeignKeyRefuses(p)
      PROVE  VendorTypes'
  BY <1>2, CreatesTyped, AliasTyped, ReadsTyped, MirrorTyped, FaultsTyped, DefaultTyped, DeleteTyped
<1>3. CASE \E raw \in Raws, v \in 0 .. MaxVendors : handleReceiptSetVendor(raw, v)
  BY <1>3, SetVendorTyped
<1>4. CASE \E a \in Expenses : handleDeleteAccount(a)
  BY <1>4, AccountTyped
<1>5. CASE UNCHANGED vendorVars
  BY <1>5 DEF vendorVars, rows, VendorTypes, VendorTypeOK, VisitsTyped, AtDesk
<1> QED BY <1>1, <1>2, <1>3, <1>4, <1>5 DEF VendorNext

(* Vendors, strings and accounts point at what there is, a visit's copy of a *)
(* row is a row, and ids stay within the bounds, whatever visits interleave. *)
THEOREM VendorTypesHold == VendorSpec => []VendorTypeOK
<1>1. VendorTypes => VendorTypeOK
  BY DEF VendorTypes
<1> QED BY VendorTypesInit, VendorTypesStep, DocInvInit, DocInvStep, <1>1, PTL DEF VendorSpec

(***************************************************************************)
(* The documents of the other tables.                                      *)
(***************************************************************************)

(* What the reindexer has still to walk.                                   *)
Walks ==
    {<<"posting", "account", "transaction", "receipt", "statement", "mileage">>, <<"posting">>,
     <<"account", "transaction", "receipt", "statement", "mileage">>,
     <<"transaction", "receipt", "statement", "mileage">>,
     <<"receipt", "statement", "mileage">>, <<"statement", "mileage">>, <<"mileage">>}

(* A document is still to be walked.                                       *)
StillAhead(d) == \E i \in DOMAIN crawl.todo : crawl.todo[i] = d

ShowsNames == {"account", "transaction", "posting"}

AnyDoc == [own : Int, beside : Int]

SearchShapes ==
    /\ table \in [Tables -> Nat \cup {Dropped}] /\ aside \in [{"receipt", "mileage"} -> Int]
    /\ shown = [d \in Docs |-> shown[d]]
    /\ pages \in [Pages -> [at : {"free", "wrote", "note", "post", "show", "forget"}, kind : Tables, held : AnyDoc]]
    /\ crawl \in [at : {"off", "names", "list", "put", "done"}, todo : Walks \cup {<<>>},
                  walked : SUBSET Docs, names : Int, held : AnyDoc, alone : BOOLEAN]
    /\ strayed \subseteq Docs

(* What needs an account has one; what was deleted stays so.               *)
RowsStand ==
    /\ \A k \in {"transaction", "statement"} : Exists(k) => Exists("account")
    /\ \A p \in Pages :
          /\ pages[p].at = "forget" =>
                table[pages[p].kind] = Dropped /\ pages[p].kind \in {"account", "mileage"}
          /\ pages[p].at = "post" => pages[p].kind = "transaction"
          /\ pages[p].at = "note" => pages[p].kind = "mileage"

(* The document that p has a copy of.                                      *)
Copies(p, d) ==
    /\ pages[p].kind = RowOf(d)
    /\ pages[p].at = "post" \/ (pages[p].at = "show" /\ d # "posting")

(* p will write, or remove, the document of d.                             *)
Pending(p, d) ==
    /\ pages[p].kind = RowOf(d)
    /\ Copies(p, d) \/ pages[p].at \in {"note", "forget"} \/ (pages[p].at = "wrote" /\ Exists(RowOf(d)))

(* A request's copy of d agrees with the tables.                           *)
CopyAgrees(p, d) ==
    /\ Copies(p, d) => pages[p].held = Content(d)
    /\ Uploads(p) /\ d = "receipt" => table["receipt"] = 1
    /\ Posts(p) /\ RowOf(d) = "transaction" => Exists("transaction")
    /\ pages[p].at = "note" /\ d = "mileage" => Exists("mileage") /\ pages[p].held.own = table["mileage"]

(* So does the reindexer's copy, but for the context of a mileage row.     *)
ListAgrees(d) ==
    crawl.at = "put" /\ Head(crawl.todo) = d =>
        crawl.held = Content(d) \/ (d = "mileage" /\ aside["mileage"] # 0)

NamesAgree(d) == crawl.names # Unlisted /\ d \in ShowsNames /\ StillAhead(d) => crawl.names = NamesNow

DocFollows(d) ==
    /\ \A p \in Pages : CopyAgrees(p, d)
    /\ ListAgrees(d) /\ NamesAgree(d)
    /\ shown[d] = Content(d) \/ \E p \in Pages : Pending(p, d)

(* A reindexer that nobody disturbs reads the tables as they are.          *)
Mended(d) ==
    Exists(RowOf(d)) => IF d = "mileage" THEN shown[d].own = table[d] ELSE shown[d] = Content(d)

AloneIsFresh ==
    crawl.at # "off" /\ crawl.alone =>
       /\ \A p \in Pages : pages[p].at = "free"
       /\ crawl.names # Unlisted => crawl.names = NamesNow
       /\ crawl.at = "put" =>
             InList(Head(crawl.todo)) /\ crawl.held = Listed(Head(crawl.todo))
       /\ \A d \in crawl.walked : Mended(d)

WalkStands ==
    /\ crawl.at \in {"names", "list", "put"} <=> crawl.todo # <<>>
    /\ crawl.at \in {"list", "put"} => crawl.names # Unlisted

(* Edits go by their number.                                               *)
SpentCounted == spentS \in [edits : Nat, faults : Int, crawls : Int]

SearchInv ==
    /\ SearchShapes /\ RowsStand /\ WalkStands /\ AloneIsFresh
    /\ \A d \in Docs \ strayed : DocFollows(d)

(* At first every table and every collection is empty.                     *)
LEMMA SearchInvInit == SearchInit => SearchInv
<1> SUFFICES ASSUME SearchInit PROVE SearchInv
  OBVIOUS
<1> USE DEF SearchInit, NoDoc, FreePage, NoCrawl, Unborn, Dropped, Unlisted, Exists
<1>1. SearchShapes
  BY DEF SearchShapes, AnyDoc, Tables
<1>2. RowsStand /\ WalkStands /\ AloneIsFresh
  BY DEF RowsStand, Tables, WalkStands, AloneIsFresh
<1>3. ASSUME NEW d \in Docs PROVE DocFollows(d)
  <2>1. RowOf(d) \in Tables
    BY DEF Docs, RowOf, Tables
  <2>2. Content(d) = NoDoc
    BY <2>1 DEF Content
  <2> QED BY <2>2 DEF DocFollows, CopyAgrees, Copies, Uploads, Posts, ListAgrees, NamesAgree
<1> QED BY <1>1, <1>2, <1>3 DEF SearchInv

(* Who is done owes nothing, and a crawl that was alone read the tables.   *)
LEMMA SearchInvFollows == SearchInv => SearchFollowsTable
<1> SUFFICES ASSUME SearchInv PROVE SearchFollowsTable
  OBVIOUS
<1>1. ASSUME \A p \in Pages : pages[p].at = "free", NEW d \in Docs \ strayed
      PROVE  shown[d] = Content(d)
  BY <1>1 DEF SearchInv, DocFollows, Pending, Copies
<1>2. ASSUME crawl.at = "done", crawl.alone, NEW d \in crawl.walked
      PROVE  Mended(d)
  BY <1>2 DEF SearchInv, AloneIsFresh
<1> QED BY <1>1, <1>2 DEF SearchFollowsTable, Mended

(* The row of a document.                                                  *)
LEMMA RowKinds ==
  /\ \A d \in Docs : RowOf(d) \in Tables /\ \A k : d \in DocsOf(k) <=> RowOf(d) = k
  /\ \A k \in Tables : k \in Docs /\ RowOf(k) = k
  /\ \A d \in Docs, k \in Tables : RowOf(d) = k => d = k \/ (d = "posting" /\ k = "transaction")
  /\ \A k : k # "transaction" => \A d \in Docs : RowOf(d) = k => d = k
  /\ "posting" \in Docs /\ RowOf("posting") = "transaction"
  /\ "posting" \notin Tables
BY DEF Docs, Tables, RowOf, DocsOf

(* A walk goes on with what is left of it.                                 *)
LEMMA WalkTails ==
  ASSUME NEW t \in Walks
  PROVE  /\ t # <<>> /\ Head(t) \in Docs /\ Tail(t) \in Walks \cup {<<>>}
         /\ Len(t) = 1 <=> Tail(t) = <<>>
         /\ \A i \in DOMAIN Tail(t) : Tail(t)[i] # Head(t) /\ \E j \in DOMAIN t : t[j] = Tail(t)[i]
         /\ \E j \in DOMAIN t : t[j] = Head(t)
<1> DEFINE Ends(h, r) == /\ t \in Seq(Docs) /\ t # <<>> /\ Head(t) = h /\ Tail(t) = r /\ h \in Docs
                         /\ r \in Walks \cup {<<>>} /\ (Len(t) = 1 <=> r = <<>>)
                         /\ \A i \in DOMAIN r : r[i] # h
           Splits == \E h, r : Ends(h, r)
<1>1. ASSUME t = <<"posting", "account", "transaction", "receipt", "statement", "mileage">> PROVE Splits
  <2>1. Ends("posting", <<"account", "transaction", "receipt", "statement", "mileage">>)
    BY <1>1 DEF Walks, Docs, Tables
  <2> QED BY <2>1
<1>2. ASSUME t = <<"posting">> PROVE Splits
  <2>1. Ends("posting", <<>>)
    BY <1>2 DEF Walks, Docs, Tables
  <2> QED BY <2>1
<1>3. ASSUME t = <<"account", "transaction", "receipt", "statement", "mileage">> PROVE Splits
  <2>1. Ends("account", <<"transaction", "receipt", "statement", "mileage">>)
    BY <1>3 DEF Walks, Docs, Tables
  <2> QED BY <2>1
<1>4. ASSUME t = <<"transaction", "receipt", "statement", "mileage">> PROVE Splits
  <2>1. Ends("transaction", <<"receipt", "statement", "mileage">>)
    BY <1>4 DEF Walks, Docs, Tables
  <2> QED BY <2>1
<1>5. ASSUME t = <<"receipt", "statement", "mileage">> PROVE Splits
  <2>1. Ends("receipt", <<"statement", "mileage">>)
    BY <1>5 DEF Walks, Docs, Tables
  <2> QED BY <2>1
<1>6. ASSUME t = <<"statement", "mileage">> PROVE Splits
  <2>1. Ends("statement", <<"mileage">>)
    BY <1>6 DEF Walks, Docs, Tables
  <2> QED BY <2>1
<1>7. ASSUME t = <<"mileage">> PROVE Splits
  <2>1. Ends("mileage", <<>>)
    BY <1>7 DEF Walks, Docs, Tables
  <2> QED BY <2>1
<1>8. Splits
  BY <1>1, <1>2, <1>3, <1>4, <1>5, <1>6, <1>7 DEF Walks
<1>9. PICK h, r : Ends(h, r)
  BY <1>8
<1>10. t # <<>> /\ Len(t) \in Nat
  BY <1>9
<1>11. \A i \in DOMAIN Tail(t) : \E j \in DOMAIN t : t[j] = Tail(t)[i]
  BY <1>9, <1>10
<1>12. \E j \in DOMAIN t : t[j] = Head(t)
  BY <1>9, <1>10
<1> QED BY <1>9, <1>10, <1>11, <1>12

(* A document agrees with what it did while its row, and the account it    *)
(* names, stay as they are.                                                *)
LEMMA ContentStays ==
  ASSUME NEW d \in Docs, table'[RowOf(d)] = table[RowOf(d)],
         RowOf(d) \in {"transaction", "statement"} /\ Exists(RowOf(d)) =>
             table'["account"] = table["account"],
         d \in {"receipt", "mileage"} => aside'[d] = aside[d]
  PROVE  Content(d)' = Content(d)
BY DEF Content, Exists, AccountDoc, TransactionDoc, ReceiptDoc, StatementDoc, MileageDoc,
       RowOf, Docs, Tables

(* A request disturbs the reindexer, and changes nothing else of it.       *)
LEMMA Disturbed ==
  ASSUME SearchShapes, Disturb
  PROVE  /\ crawl'.at = crawl.at /\ crawl'.todo = crawl.todo /\ crawl'.names = crawl.names
         /\ crawl'.held = crawl.held /\ ~ crawl'.alone
         /\ crawl' \in [at : {"off", "names", "list", "put", "done"}, todo : Walks \cup {<<>>},
                        walked : SUBSET Docs, names : Int, held : AnyDoc, alone : BOOLEAN]
BY DEF SearchShapes, Disturb

(* A disturbed reindexer promises nothing.                                 *)
LEMMA DisturbedKeeps ==
  ASSUME SearchInv, Disturb PROVE WalkStands' /\ AloneIsFresh'
BY Disturbed DEF SearchInv, WalkStands, AloneIsFresh

(* What others hold of d, when nobody does.                                *)
LEMMA NotHeld ==
  ASSUME NEW p, NEW d, ~ HeldElsewhere(p, d)
  PROVE  /\ \A q \in Pages \ {p} : /\ ~ Copies(q, d) /\ (d = "receipt" => ~ Uploads(q))
                                   /\ (RowOf(d) = "transaction" => ~ Posts(q))
                                   /\ ~ (pages[q].at = "note" /\ pages[q].kind = RowOf(d))
         /\ ~ (crawl.at = "put" /\ Head(crawl.todo) = d)
         /\ ~ (crawl.names # Unlisted /\ d \in ShowsNames /\ StillAhead(d))
BY DEF HeldElsewhere, CrawlHolds, PageHolds, Copies, ShowsNames, StillAhead, Uploads, Posts, RowOf

(* What a step of p need not touch: the others' copies stay as good.       *)
LEMMA DocKeeps ==
  ASSUME SearchShapes, Disturb, NEW p, NEW d \in Docs, DocFollows(d),
         \A q \in Pages \ {p} : pages'[q] = pages[q],
         Content(d)' = Content(d), shown'[d] = shown[d],
         Exists(RowOf(d)) => Exists(RowOf(d))',
         d \in {"receipt", "mileage"} => table'[d] = table[d],
         d = "mileage" => aside'["mileage"] = aside["mileage"],
         NamesNow' = NamesNow \/ ~ (crawl.names # Unlisted /\ d \in ShowsNames /\ StillAhead(d)),
         p \in Pages => CopyAgrees(p, d)' /\ (Pending(p, d) => Pending(p, d)')
  PROVE  DocFollows(d)'
<1>1. ASSUME NEW q \in Pages \ {p}
      PROVE  CopyAgrees(q, d)' /\ (Pending(q, d) => Pending(q, d)')
  <2>1. CopyAgrees(q, d)
    BY DEF DocFollows
  <2>2. pages'[q] = pages[q]
    OBVIOUS
  <2>3. RowOf(d) = "transaction" /\ Exists("transaction") => Exists("transaction")'
    OBVIOUS
  <2>4. d = "mileage" => RowOf(d) = d /\ table'["mileage"] = table["mileage"]
    BY DEF RowOf
  <2>5. d = "mileage" /\ Exists("mileage") => Exists("mileage")'
    BY <2>4
  <2>6. Copies(q, d)' = Copies(q, d) /\ Uploads(q)' = Uploads(q) /\ Posts(q)' = Posts(q)
    BY <2>2 DEF Copies, Uploads, Posts
  <2>7. Pending(q, d) => Pending(q, d)'
    BY <2>2, <2>6 DEF Pending
  <2> QED BY <2>1, <2>2, <2>3, <2>4, <2>5, <2>6, <2>7 DEF CopyAgrees
<1>2. \A q \in Pages : CopyAgrees(q, d)' /\ (Pending(q, d) => Pending(q, d)')
  BY <1>1
<1>3. ListAgrees(d)'
  BY Disturbed DEF DocFollows, ListAgrees
<1>4. NamesAgree(d)'
  BY Disturbed DEF DocFollows, NamesAgree, StillAhead
<1>5. shown[d] = Content(d) \/ \E q \in Pages : Pending(q, d)
  BY DEF DocFollows
<1> QED BY <1>2, <1>3, <1>4, <1>5 DEF DocFollows

(* A document nobody else holds, which p has written or will write.        *)
LEMMA DocOwned ==
  ASSUME SearchShapes, RowsStand, Disturb, NEW p \in Pages, NEW d \in Docs, ~ HeldElsewhere(p, d),
         \A q \in Pages \ {p} : pages'[q] = pages[q],
         CopyAgrees(p, d)', shown'[d] = Content(d)' \/ Pending(p, d)'
  PROVE  DocFollows(d)'
<1>1. ASSUME NEW q \in Pages \ {p} PROVE CopyAgrees(q, d)'
  <2>1. /\ pages'[q] = pages[q] /\ ~ Copies(q, d) /\ (d = "receipt" => ~ Uploads(q))
        /\ (RowOf(d) = "transaction" => ~ Posts(q)) /\ ~ (pages[q].at = "note" /\ pages[q].kind = RowOf(d))
    BY NotHeld
  <2>2. d = "mileage" /\ pages[q].at = "note" => pages[q].kind = "mileage"
    BY DEF RowsStand
  <2> QED BY <2>1, <2>2 DEF CopyAgrees, Copies, Uploads, Posts, RowOf
<1>2. ListAgrees(d)'
  BY Disturbed, NotHeld DEF ListAgrees
<1>3. NamesAgree(d)'
  BY Disturbed, NotHeld DEF NamesAgree, StillAhead
<1> QED BY <1>1, <1>2, <1>3 DEF DocFollows

(* A request goes on.                                                      *)
LEMMA OnePage ==
  ASSUME SearchShapes, NEW p \in Pages, NEW x, pages' = [pages EXCEPT ![p] = x]
  PROVE  pages'[p] = x /\ \A q \in Pages \ {p} : pages'[q] = pages[q]
BY DEF SearchShapes

(* Its notes keep their shape.                                             *)
LEMMA PagesShapes ==
  ASSUME SearchShapes, NEW p \in Pages, NEW x, pages' = [pages EXCEPT ![p] = x],
         x \in [at : {"free", "wrote", "note", "post", "show", "forget"}, kind : Tables, held : AnyDoc]
  PROVE  pages' \in [Pages -> [at : {"free", "wrote", "note", "post", "show", "forget"}, kind : Tables, held : AnyDoc]]
BY DEF SearchShapes

(* A free request holds and owes nothing.                                  *)
LEMMA FreeHolds ==
  ASSUME NEW p, NEW d, pages[p].at = "free"
  PROVE  CopyAgrees(p, d) /\ ~ Pending(p, d)
BY DEF CopyAgrees, Copies, Pending, Uploads, Posts

(* What agrees with the tables is a document.                              *)
LEMMA ContentShape == ASSUME SearchShapes, NEW d \in Docs PROVE Content(d) \in AnyDoc
BY
   DEF SearchShapes, Content, AnyDoc, NoDoc, AccountDoc, TransactionDoc, ReceiptDoc, StatementDoc,
   MileageDoc,
       Exists, Dropped, RowOf, Docs, Tables

(* The search server failed: the document strays.                          *)
LEMMA UpsertFailsKeeps ==
  ASSUME SearchInv, NEW p \in Pages, UpsertFails(p) PROVE SearchInv'
<1> DEFINE x == pages[p]
           n == IF x.at = "post" THEN [x EXCEPT !.at = "show"] ELSE FreePage
<1>1. /\ SearchShapes /\ RowsStand /\ p \in DOMAIN pages
      /\ x \in [at : {"free", "wrote", "note", "post", "show", "forget"}, kind : Tables, held : AnyDoc]
  BY DEF SearchInv, SearchShapes
<1>2. Disturb /\ x.at \in {"post", "show"} /\ pages' = [pages EXCEPT ![p] = n]
      /\ UNCHANGED <<table, aside, shown>> /\ strayed' = strayed \cup {DocOf(p)}
  BY <1>1 DEF UpsertFails, Onward
<1>3. n \in [at : {"free", "wrote", "note", "post", "show", "forget"}, kind : Tables, held : AnyDoc]
  BY <1>1 DEF FreePage, NoDoc, AnyDoc, Tables
<1>4. pages'[p] = n /\ \A q \in Pages \ {p} : pages'[q] = pages[q]
  BY <1>1, <1>2, OnePage
<1>5. DocOf(p) \in Docs
  BY <1>1 DEF DocOf, Docs
<1>6. SearchShapes'
  BY <1>1, <1>2, <1>3, <1>5, PagesShapes, Disturbed DEF SearchShapes
<1>7. RowsStand'
  BY <1>1, <1>2, <1>4 DEF RowsStand, Exists, FreePage
<1>8. ASSUME NEW d \in Docs \ strayed' PROVE DocFollows(d)'
  <2>1. DocFollows(d) /\ d \in Docs /\ d # DocOf(p) /\ CopyAgrees(p, d)
    BY <1>2 DEF SearchInv, DocFollows
  <2>2. Content(d)' = Content(d) /\ NamesNow' = NamesNow /\ Exists(RowOf(d))' = Exists(RowOf(d))
    BY <1>2, ContentStays DEF NamesNow, Exists
  <2>3. CopyAgrees(p, d)' /\ (Pending(p, d) => Pending(p, d)')
    BY <1>1, <1>2, <1>4, <2>1, <2>2, RowKinds
       DEF CopyAgrees, Copies, Uploads, Posts, Pending, DocOf, FreePage, RowsStand
  <2> QED BY <1>1, <1>2, <1>4, <2>1, <2>2, <2>3, DocKeeps
<1> QED BY <1>2, <1>6, <1>7, <1>8, DisturbedKeeps DEF SearchInv

IsPage(x) == x \in [at : {"free", "wrote", "note", "post", "show", "forget"}, kind : Tables, held : AnyDoc]

(* The notes of a request.                                                 *)
LEMMA PageShape == ASSUME SearchInv, NEW p \in Pages PROVE IsPage(pages[p])
BY DEF SearchInv, SearchShapes, IsPage

(* A free request has notes too.                                           *)
LEMMA FreeShape == IsPage(FreePage)
BY DEF IsPage, FreePage, NoDoc, AnyDoc, Tables

(* The document is written: with what was read, or left to another.        *)
LEMMA DocUpsertKeeps ==
  ASSUME SearchInv, NEW p \in Pages, UpsertDocument(p) PROVE SearchInv'
<1> DEFINE x == pages[p]
           n == IF x.at = "post" THEN [x EXCEPT !.at = "show"] ELSE FreePage
<1>0. PICK o : o = DocOf(p)
  OBVIOUS
<1>1. SearchShapes /\ RowsStand /\ IsPage(x)
  BY PageShape DEF SearchInv
<1>2. /\ Disturb /\ x.at \in {"post", "show"} /\ pages' = [pages EXCEPT ![p] = n]
      /\ UNCHANGED <<table, aside>> /\ shown' = [shown EXCEPT ![o] = x.held]
      /\ strayed' = IF x.held = Content(o) /\ ~ HeldElsewhere(p, o) THEN strayed \ {o} ELSE strayed
  BY <1>0, <1>1 DEF UpsertDocument, Onward, Written
<1>3. IsPage(n)
  BY <1>1, FreeShape DEF IsPage
<1>4. pages'[p] = n /\ \A q \in Pages \ {p} : pages'[q] = pages[q]
  BY <1>1, <1>2, OnePage
<1>5. o \in Docs /\ Copies(p, o)
  BY <1>0, <1>1, <1>2, RowKinds DEF DocOf, IsPage, Copies, RowsStand
<1>6. SearchShapes'
  BY <1>1, <1>2, <1>3, <1>5, PagesShapes, Disturbed DEF SearchShapes, IsPage
<1>7. RowsStand'
  BY <1>1, <1>2, <1>4 DEF RowsStand, Exists, FreePage
<1>8. \A d \in Docs : Content(d)' = Content(d) /\ NamesNow' = NamesNow /\ Exists(RowOf(d))' = Exists(RowOf(d))
  BY <1>2, ContentStays DEF NamesNow, Exists
<1>9. ~ Copies(p, o)' /\ ~ Uploads(p)' /\ ~ Posts(p)' /\ pages'[p].at # "note"
  BY <1>0, <1>1, <1>2, <1>4, RowKinds DEF Copies, Uploads, Posts, DocOf, FreePage, RowsStand, IsPage
<1>10. shown'[o] = x.held /\ \A d \in Docs \ {o} : shown'[d] = shown[d]
  BY <1>1, <1>2, <1>5 DEF SearchShapes
<1>11. CASE o \notin strayed'
  <2>1. CASE o \in strayed
    <3>1. x.held = Content(o) /\ ~ HeldElsewhere(p, o)
      BY <1>2, <1>11, <2>1
    <3>2. DocFollows(o)'
      BY <1>1, <1>2, <1>4, <1>5, <1>8, <1>9, <1>10, <3>1, DocOwned DEF CopyAgrees
    <3>3. ASSUME NEW d \in Docs \ strayed', d # o PROVE DocFollows(d)'
      <4>1. DocFollows(d) /\ CopyAgrees(p, d)
        BY <1>2, <3>3 DEF SearchInv, DocFollows
      <4>2. CopyAgrees(p, d)' /\ (Pending(p, d) => Pending(p, d)')
        BY <1>0, <1>1, <1>2, <1>4, <1>8, <3>3, <4>1, RowKinds
           DEF CopyAgrees, Copies, Uploads, Posts, Pending, DocOf, FreePage, RowsStand
      <4> QED BY <1>1, <1>2, <1>4, <1>8, <1>10, <3>3, <4>1, <4>2, DocKeeps
    <3> QED BY <1>2, <1>6, <1>7, <3>2, <3>3, DisturbedKeeps DEF SearchInv
  <2>2. CASE o \notin strayed
    <3>1. DocFollows(o) /\ x.held = Content(o)
      BY <1>5, <2>2 DEF SearchInv, DocFollows, CopyAgrees
    <3>2. \A q \in Pages \ {p} : CopyAgrees(q, o)'
      BY <1>2, <1>4, <1>5, <1>8, <3>1 DEF DocFollows, CopyAgrees, Copies, Uploads, Posts, Exists
    <3>3. DocFollows(o)'
      BY <1>1, <1>2, <1>5, <1>8, <1>9, <1>10, <3>1, <3>2, Disturbed
         DEF DocFollows, CopyAgrees, ListAgrees, NamesAgree, StillAhead
    <3>4. ASSUME NEW d \in Docs \ strayed', d # o PROVE DocFollows(d)'
      <4>1. DocFollows(d) /\ CopyAgrees(p, d)
        BY <1>2, <3>4 DEF SearchInv, DocFollows
      <4>2. CopyAgrees(p, d)' /\ (Pending(p, d) => Pending(p, d)')
        BY <1>0, <1>1, <1>2, <1>4, <1>8, <3>4, <4>1, RowKinds
           DEF CopyAgrees, Copies, Uploads, Posts, Pending, DocOf, FreePage, RowsStand
      <4> QED BY <1>1, <1>2, <1>4, <1>8, <1>10, <3>4, <4>1, <4>2, DocKeeps
    <3> QED BY <1>2, <1>6, <1>7, <3>3, <3>4, DisturbedKeeps DEF SearchInv
  <2> QED BY <2>1, <2>2
<1>12. CASE o \in strayed'
  <2>1. ASSUME NEW d \in Docs \ strayed' PROVE DocFollows(d)'
    <3>1. d # o /\ DocFollows(d) /\ CopyAgrees(p, d)
      BY <1>2, <1>12 DEF SearchInv, DocFollows
    <3>2. CopyAgrees(p, d)' /\ (Pending(p, d) => Pending(p, d)')
      BY <1>0, <1>1, <1>2, <1>4, <1>8, <3>1, RowKinds
         DEF CopyAgrees, Copies, Uploads, Posts, Pending, DocOf, FreePage, RowsStand
    <3> QED BY <1>1, <1>2, <1>4, <1>8, <1>10, <3>1, <3>2, DocKeeps
  <2> QED BY <1>2, <1>6, <1>7, <2>1, DisturbedKeeps DEF SearchInv
<1> QED BY <1>11, <1>12

(* The document is removed, or the search server failed.                   *)
LEMMA ForgetKeeps ==
  ASSUME SearchInv, NEW p \in Pages, ForgetDocument(p) PROVE SearchInv'
<1> DEFINE x == pages[p]
<1>0. PICK o : o = x.kind
  OBVIOUS
<1>1. SearchShapes /\ RowsStand /\ IsPage(x)
  BY PageShape DEF SearchInv
<1>2. /\ Disturb /\ x.at = "forget" /\ pages' = [pages EXCEPT ![p] = FreePage]
      /\ UNCHANGED <<table, aside>>
      /\ \/ /\ shown' = [shown EXCEPT ![o] = NoDoc]
            /\ strayed' = IF NoDoc = Content(o) /\ ~ HeldElsewhere(p, o) THEN strayed \ {o} ELSE strayed
         \/ shown' = shown /\ strayed' = strayed \cup {o}
  BY <1>0, <1>1 DEF ForgetDocument, Written
<1>3. o \in {"account", "mileage"} /\ o \in Docs /\ RowOf(o) = o /\ table[o] = Dropped
  BY <1>0, <1>1, <1>2, RowKinds DEF RowsStand, IsPage
<1>4. pages'[p] = FreePage /\ \A q \in Pages \ {p} : pages'[q] = pages[q]
  BY <1>1, <1>2, OnePage
<1>5. Content(o) = NoDoc
  BY <1>3 DEF Content, Exists, Dropped
<1>6. SearchShapes'
  BY <1>1, <1>2, <1>3, FreeShape, PagesShapes, Disturbed DEF SearchShapes, IsPage
<1>7. RowsStand'
  BY <1>1, <1>2, <1>4 DEF RowsStand, Exists, FreePage
<1>8. \A d \in Docs : Content(d)' = Content(d) /\ NamesNow' = NamesNow /\ Exists(RowOf(d))' = Exists(RowOf(d))
  BY <1>2, ContentStays DEF NamesNow, Exists
<1>9. \A d : CopyAgrees(p, d)'
  BY <1>4 DEF CopyAgrees, Copies, Uploads, Posts, FreePage
<1>10. \A d \in Docs \ {o} : shown'[d] = shown[d] /\ ~ Pending(p, d)
  <2>1. \A d \in Docs \ {o} : ~ Pending(p, d)
    BY <1>0, <1>2, <1>3, RowKinds DEF Pending
  <2> QED BY <1>1, <1>2, <1>3, <2>1 DEF SearchShapes
<1>11. ASSUME NEW d \in Docs \ strayed', d # o PROVE DocFollows(d)'
  <2>1. DocFollows(d)
    BY <1>2, <1>11 DEF SearchInv
  <2> QED BY <1>1, <1>2, <1>4, <1>8, <1>9, <1>10, <1>11, <2>1, DocKeeps
<1>12. ASSUME o \notin strayed' PROVE DocFollows(o)'
  <2>1. shown'[o] = NoDoc
    BY <1>1, <1>2, <1>3, <1>12 DEF SearchShapes
  <2>2. CASE o \in strayed
    BY <1>1, <1>2, <1>3, <1>4, <1>5, <1>8, <1>9, <1>12, <2>1, <2>2, DocOwned
  <2>3. CASE o \notin strayed
    <3>1. DocFollows(o)
      BY <1>3, <2>3 DEF SearchInv
    <3>2. \A q \in Pages \ {p} : CopyAgrees(q, o)'
      BY <1>2, <1>3, <1>4, <1>8, <3>1 DEF DocFollows, CopyAgrees, Copies, Uploads, Posts, Exists
    <3> QED BY <1>1, <1>2, <1>3, <1>5, <1>8, <1>9, <2>1, <3>1, <3>2, Disturbed
            DEF DocFollows, CopyAgrees, ListAgrees, NamesAgree, StillAhead
  <2> QED BY <2>2, <2>3
<1> QED BY <1>2, <1>6, <1>7, <1>11, <1>12, DisturbedKeeps DEF SearchInv

(* A page that has read its row goes on to its documents.                  *)
WithRow(x, a, h) == [x EXCEPT !.at = a, !.held = h]

(* Such a page keeps its kind.                                             *)
LEMMA HeldPage ==
  ASSUME NEW x, IsPage(x), NEW a \in {"note", "post", "show"}, NEW h \in AnyDoc,
         NEW y, y = WithRow(x, a, h)
  PROVE  IsPage(y) /\ y.at = a /\ y.kind = x.kind /\ y.held = h
<1>1. y = [at |-> a, kind |-> x.kind, held |-> h]
  <2>1. x = [at |-> x.at, kind |-> x.kind, held |-> x.held]
    BY DEF IsPage
  <2>2. PICK z : z = [x EXCEPT !.at = a]
    OBVIOUS
  <2>5. z = [at |-> a, kind |-> x.kind, held |-> x.held]
    BY <2>1, <2>2
  <2>6. [z EXCEPT !.held = h] = [at |-> a, kind |-> x.kind, held |-> h]
    BY <2>5
  <2>3. [[x EXCEPT !.at = a] EXCEPT !.held = h] = [at |-> a, kind |-> x.kind, held |-> h]
    BY <2>2, <2>6, Zenon
  <2>4. WithRow(x, a, h) = [[x EXCEPT !.at = a] EXCEPT !.held = h]
    BY Zenon DEF WithRow
  <2> QED BY <2>3, <2>4
<1> QED BY <1>1 DEF IsPage

(* The row is read back.                                                   *)
LEMMA ReadBackKeeps ==
  ASSUME SearchInv, NEW p \in Pages, ReadBack(p) PROVE SearchInv'
<1> DEFINE x == pages[p]
<1>0. PICK k, text : k = x.kind /\ text = x.held.beside
  OBVIOUS
<1>00. PICK doc : doc = IF Uploads(p) THEN ReceiptDoc(1)
                        ELSE IF Posts(p) THEN TransactionDoc(NamesNow)
                        ELSE IF k = "mileage" THEN MileageDoc(text)
                        ELSE Content(k)
  OBVIOUS
<1>000. PICK a \in {"note", "post", "show"} :
            a = IF Posts(p) THEN "post" ELSE IF k = "mileage" /\ text # 0 THEN "note" ELSE "show"
  OBVIOUS
<1>0000. PICK goes \in BOOLEAN : goes = (Exists(k) \/ Uploads(p) \/ Posts(p))
  OBVIOUS
<1>1. SearchShapes /\ RowsStand /\ IsPage(x) /\ k \in Tables /\ k \in Docs /\ RowOf(k) = k
  BY <1>0, PageShape, RowKinds DEF SearchInv, IsPage
<1>2. /\ Disturb /\ x.at = "wrote" /\ UNCHANGED <<table, aside, shown>>
      /\ pages' = [pages EXCEPT ![p] = IF goes THEN WithRow(x, a, doc) ELSE FreePage]
      /\ strayed' = IF a = "show" /\ k = "mileage" /\ Exists(k) /\ aside[k] # 0 THEN strayed \cup {k}
                    ELSE strayed
  BY <1>0, <1>00, <1>000, <1>0000, <1>1 DEF ReadBack, SearchShapes, WithRow
<1>3. PICK n : n = IF goes THEN WithRow(x, a, doc) ELSE FreePage
  OBVIOUS
<1>4. doc \in AnyDoc
  <2>1. \A i, j \in Int : [own |-> i, beside |-> j] \in AnyDoc
    BY DEF AnyDoc
  <2>2. /\ text \in Int /\ table["account"] \in Int /\ table["mileage"] \in Int /\ aside["receipt"] \in Int
        /\ NamesNow \in Int
    BY <1>0, <1>1 DEF SearchShapes, IsPage, AnyDoc, Tables, Dropped, NamesNow
  <2> QED BY <1>00, <1>1, <2>1, <2>2, ContentShape DEF ReceiptDoc, TransactionDoc, MileageDoc
<1>5. /\ IsPage(n) /\ (~ goes => n = FreePage)
      /\ goes => n.at = a /\ n.kind = k /\ n.held = doc
  <2>1. CASE goes
    BY <1>0, <1>1, <1>3, <1>4, <2>1, HeldPage
  <2>2. CASE ~ goes
    BY <1>3, <2>2, FreeShape
  <2> QED BY <2>1, <2>2
<1>6. pages' = [pages EXCEPT ![p] = n]
  BY <1>2, <1>3
<1>7. pages'[p] = n /\ \A q \in Pages \ {p} : pages'[q] = pages[q]
  BY <1>1, <1>6, OnePage
<1>8. SearchShapes'
  BY <1>1, <1>2, <1>5, <1>6, PagesShapes, Disturbed DEF SearchShapes, IsPage
<1>a. Uploads(p) <=> k = "receipt" /\ x.held.own = 1
  BY <1>0, <1>2 DEF Uploads
<1>b. Posts(p) <=> k = "transaction"
  BY <1>0, <1>2 DEF Posts
<1>c. FreePage.at = "free"
  BY DEF FreePage
<1>9. RowsStand'
  <2>1. \A j \in Tables : Exists(j)' = Exists(j)
    BY <1>2 DEF Exists
  <2>2. n.at # "forget" /\ (n.at = "post" => n.kind = "transaction") /\ (n.at = "note" => n.kind = "mileage")
    BY <1>000, <1>5, <1>b, <1>c
  <2> QED BY <1>1, <1>2, <1>7, <2>1, <2>2 DEF RowsStand, Exists
<1>10. ASSUME NEW d \in Docs \ strayed' PROVE DocFollows(d)'
  <2>1. DocFollows(d) /\ d \in Docs /\ CopyAgrees(p, d)
    BY <1>2 DEF SearchInv, DocFollows
  <2>2. Content(d)' = Content(d) /\ NamesNow' = NamesNow /\ Exists(RowOf(d))' = Exists(RowOf(d))
    BY <1>2, ContentStays DEF NamesNow, Exists
  <2>a. ~ Uploads(p)' /\ ~ Posts(p)'
    BY <1>000, <1>5, <1>7, <1>c DEF Uploads, Posts
  <2>3. ASSUME ~ goes PROVE CopyAgrees(p, d)' /\ ~ Pending(p, d)
    <3>1. ~ Copies(p, d)' /\ pages'[p].at = "free"
      BY <1>5, <1>7, <1>c, <2>3 DEF Copies
    <3>2. ~ Pending(p, d)
      BY <1>0, <1>0000, <1>2, <2>3 DEF Pending, Copies
    <3> QED BY <2>a, <3>1, <3>2 DEF CopyAgrees
  <2>4. ASSUME goes, RowOf(d) # k PROVE CopyAgrees(p, d)' /\ ~ Pending(p, d)
    <3>1. ~ Copies(p, d)' /\ ~ Pending(p, d)
      BY <1>0, <1>5, <1>7, <2>4 DEF Copies, Pending
    <3>2. d = "mileage" => n.at # "note"
      BY <1>000, <1>5, <2>4 DEF RowOf
    <3> QED BY <1>7, <2>a, <3>1, <3>2 DEF CopyAgrees
  <2>5. ASSUME goes, RowOf(d) = k PROVE CopyAgrees(p, d)' /\ Pending(p, d)'
    <3>1. d = k \/ (d = "posting" /\ k = "transaction")
      BY <1>1, <2>5, RowKinds
    <3>2. Exists(k)
      <4>1. CASE Uploads(p)
        BY <1>a, <2>1, <3>1, <4>1 DEF CopyAgrees, Exists
      <4>2. CASE Posts(p)
        BY <1>b, <2>1, <2>5, <4>2 DEF CopyAgrees
      <4> QED BY <1>0000, <2>5, <4>1, <4>2
    <3>3. a # "note" => doc = Content(d)
      <4>1. CASE Uploads(p)
        <5>1. d = "receipt" /\ table["receipt"] = 1
          BY <1>a, <2>1, <3>1, <4>1 DEF CopyAgrees
        <5> QED BY <1>00, <2>5, <3>2, <4>1, <5>1 DEF Content, RowOf
      <4>2. CASE ~ Uploads(p) /\ Posts(p)
        <5>1. d \in {"transaction", "posting"} /\ NamesNow = table["account"]
          BY <1>1, <1>b, <3>1, <3>2, <4>2 DEF RowsStand, NamesNow
        <5> QED BY <1>00, <2>5, <3>2, <4>2, <5>1 DEF Content
      <4>3. CASE ~ Uploads(p) /\ ~ Posts(p) /\ k = "mileage"
        <5>1. a # "note" => text = 0 /\ aside["mileage"] = 0
          <6>1. a # "note" => text = 0 /\ a = "show"
            BY <1>000, <4>3
          <6>2. a # "note" => ~ (aside[k] # 0)
            BY <1>2, <3>1, <3>2, <4>3, <6>1
          <6> QED BY <1>1, <4>3, <6>1, <6>2 DEF SearchShapes
        <5> QED BY <1>00, <2>5, <3>1, <3>2, <4>3, <5>1 DEF Content, MileageDoc
      <4>4. CASE ~ Uploads(p) /\ ~ Posts(p) /\ k # "mileage"
        BY <1>00, <1>b, <3>1, <4>4
      <4> QED BY <4>1, <4>2, <4>3, <4>4
    <3>4. a = "note" => k = "mileage" /\ doc.own = table["mileage"]
      BY <1>00, <1>000, <1>a, <1>b DEF MileageDoc
    <3>5. a = "post" <=> k = "transaction"
      BY <1>000, <1>b
    <3>6. pages'[p].at = a /\ pages'[p].kind = k /\ pages'[p].held = doc
      BY <1>5, <1>7, <2>5
    <3>7. Copies(p, d)' => a # "note"
      BY <3>6 DEF Copies
    <3>8. CopyAgrees(p, d)'
      BY <1>2, <2>2, <2>5, <2>a, <3>1, <3>2, <3>3, <3>4, <3>6, <3>7 DEF CopyAgrees
    <3>9. Pending(p, d)'
      <4>1. d = "posting" => k = "transaction"
        BY <2>5, RowKinds
      <4>2. CASE a = "note"
        BY <2>5, <3>6, <4>2 DEF Pending
      <4>3. CASE a = "show"
        BY <2>5, <3>5, <3>6, <4>1, <4>3 DEF Pending, Copies
      <4>4. CASE a = "post"
        BY <2>5, <3>6, <4>4 DEF Pending, Copies
      <4> QED BY <4>2, <4>3, <4>4
    <3> QED BY <3>8, <3>9
  <2>6. CopyAgrees(p, d)' /\ (Pending(p, d) => Pending(p, d)')
    BY <2>3, <2>4, <2>5
  <2> QED BY <1>1, <1>2, <1>7, <2>1, <2>2, <2>6, DocKeeps
<1> QED BY <1>2, <1>8, <1>9, <1>10, DisturbedKeeps DEF SearchInv

(* The row could not be read.                                              *)
LEMMA ReadBackFailsKeeps ==
  ASSUME SearchInv, NEW p \in Pages, ReadBackFails(p) PROVE SearchInv'
<1> DEFINE x == pages[p]
<1>0. PICK k : k = x.kind
  OBVIOUS
<1>1. SearchShapes /\ RowsStand /\ IsPage(x) /\ k \in Tables
  BY <1>0, PageShape DEF SearchInv, IsPage
<1>2. /\ Disturb /\ x.at = "wrote" /\ UNCHANGED <<table, aside, shown>>
      /\ pages' = [pages EXCEPT ![p] =
           IF k = "transaction" THEN [x EXCEPT !.at = "post", !.held = TransactionDoc(0)] ELSE FreePage]
      /\ strayed' = strayed \cup DocsOf(k)
  BY <1>0, <1>1 DEF ReadBackFails, SearchShapes
<1>3. PICK n : n = IF k = "transaction" THEN [x EXCEPT !.at = "post", !.held = TransactionDoc(0)] ELSE FreePage
  OBVIOUS
<1>4. TransactionDoc(0) \in AnyDoc
  BY <1>1 DEF TransactionDoc, AnyDoc, SearchShapes, Tables, Dropped
<1>5. /\ IsPage(n) /\ (k # "transaction" => n = FreePage)
      /\ k = "transaction" => n.at = "post" /\ n.kind = k
  <2>1. CASE k = "transaction"
    <3>1. n = WithRow(x, "post", TransactionDoc(0))
      BY <1>3, <2>1, Zenon DEF WithRow
    <3>2. IsPage(n) /\ n.at = "post" /\ n.kind = x.kind
      BY <1>1, <1>4, <3>1, HeldPage
    <3> QED BY <1>0, <2>1, <3>2
  <2>2. CASE k # "transaction"
    <3>1. n = FreePage
      BY <1>3, <2>2, Zenon
    <3> QED BY <2>2, <3>1, FreeShape
  <2> QED BY <2>1, <2>2
<1>6. pages' = [pages EXCEPT ![p] = n]
  BY <1>2, <1>3
<1>7. pages'[p] = n /\ \A q \in Pages \ {p} : pages'[q] = pages[q]
  BY <1>1, <1>6, OnePage
<1>8. SearchShapes'
  BY <1>1, <1>2, <1>5, <1>6, PagesShapes, Disturbed DEF SearchShapes, IsPage, DocsOf
<1>9. RowsStand'
  BY <1>0, <1>1, <1>2, <1>5, <1>7 DEF RowsStand, Exists, FreePage
<1>10. ASSUME NEW d \in Docs \ strayed' PROVE DocFollows(d)'
  <2>1. DocFollows(d) /\ d \in Docs /\ RowOf(d) # k
    BY <1>2, RowKinds DEF SearchInv
  <2>2. Content(d)' = Content(d) /\ NamesNow' = NamesNow /\ Exists(RowOf(d))' = Exists(RowOf(d))
    BY <1>2, ContentStays DEF NamesNow, Exists
  <2>3. CopyAgrees(p, d)' /\ ~ Pending(p, d)
    BY <1>0, <1>2, <1>5, <1>7, <2>1 DEF CopyAgrees, Copies, Uploads, Posts, Pending, FreePage
  <2> QED BY <1>1, <1>2, <1>7, <2>1, <2>2, <2>3, DocKeeps
<1> QED BY <1>2, <1>8, <1>9, <1>10, DisturbedKeeps DEF SearchInv

(* The context is kept, or not.                                            *)
LEMMA KeepContextKeeps ==
  ASSUME SearchInv, NEW p \in Pages, KeepContext(p) PROVE SearchInv'
<1>0. PICK x : x = pages[p]
  OBVIOUS
<1>1. SearchShapes /\ RowsStand /\ IsPage(x)
  BY <1>0, PageShape DEF SearchInv
<1>2. /\ Disturb /\ x.at = "note" /\ x.kind = "mileage" /\ UNCHANGED <<table, shown>>
      /\ pages' = [pages EXCEPT ![p].at = "show"]
      /\ \/ /\ Exists("mileage") /\ aside' = [aside EXCEPT !["mileage"] = x.held.beside]
            /\ strayed' = IF HeldElsewhere(p, "mileage") THEN strayed \cup {"mileage"} ELSE strayed
         \/ aside' = aside /\ strayed' = strayed \cup {"mileage"}
  BY <1>0, <1>1 DEF KeepContext, RowsStand
<1>3. PICK n : n = [x EXCEPT !.at = "show"]
  OBVIOUS
<1>4. IsPage(n) /\ n.at = "show" /\ n.kind = "mileage" /\ n.held = x.held
  BY <1>1, <1>2, <1>3 DEF IsPage
<1>5. pages' = [pages EXCEPT ![p] = n]
  BY <1>0, <1>1, <1>2, <1>3 DEF SearchShapes
<1>6. pages'[p] = n /\ \A q \in Pages \ {p} : pages'[q] = pages[q]
  BY <1>1, <1>5, OnePage
<1>7. aside' \in [{"receipt", "mileage"} -> Int] /\ aside'["receipt"] = aside["receipt"]
  BY <1>1, <1>2 DEF SearchShapes, IsPage, AnyDoc
<1>8. SearchShapes'
  BY <1>1, <1>2, <1>4, <1>5, <1>7, PagesShapes, Disturbed DEF SearchShapes, IsPage, Docs, Tables
<1>9. RowsStand'
  BY <1>0, <1>1, <1>2, <1>4, <1>6 DEF RowsStand, Exists
<1>10. ASSUME NEW d \in Docs \ strayed' PROVE DocFollows(d)'
  <2>1. DocFollows(d) /\ d \in Docs /\ CopyAgrees(p, d)
    BY <1>2 DEF SearchInv, DocFollows
  <2>2. NamesNow' = NamesNow /\ Exists(RowOf(d))' = Exists(RowOf(d))
    BY <1>2 DEF NamesNow, Exists
  <2>3. CASE d # "mileage"
    <3>1. RowOf(d) # "mileage"
      BY <2>3 DEF RowOf, Docs
    <3>2. Content(d)' = Content(d)
      BY <1>2, <1>7, <2>3, ContentStays
    <3>3. CopyAgrees(p, d)' /\ ~ Pending(p, d)
      BY <1>0, <1>2, <1>4, <1>6, <2>3, <3>1 DEF CopyAgrees, Copies, Uploads, Posts, Pending
    <3> QED BY <1>1, <1>2, <1>6, <2>1, <2>2, <2>3, <3>2, <3>3, DocKeeps
  <2>4. CASE d = "mileage"
    <3>1. /\ ~ HeldElsewhere(p, d) /\ Exists("mileage") /\ aside' = [aside EXCEPT !["mileage"] = x.held.beside]
      BY <1>2, <2>1, <2>4
    <3>2. RowOf(d) = "mileage" /\ x.held.own = table["mileage"]
      BY <1>0, <1>2, <2>1, <2>4 DEF CopyAgrees, RowOf
    <3>3. x.held = [own |-> x.held.own, beside |-> x.held.beside]
      BY <1>1 DEF IsPage, AnyDoc
    <3>4. Content(d)' = [own |-> table["mileage"], beside |-> aside'["mileage"]]
      BY <1>2, <2>2, <2>4, <3>1, <3>2 DEF Content, MileageDoc
    <3>5. aside'["mileage"] = x.held.beside
      BY <1>1, <3>1 DEF SearchShapes
    <3>6. x.held = Content(d)'
      BY <3>2, <3>3, <3>4, <3>5
    <3>7. CopyAgrees(p, d)' /\ Pending(p, d)'
      BY <1>4, <1>6, <2>4, <3>2, <3>6 DEF CopyAgrees, Copies, Uploads, Posts, Pending
    <3> QED BY <1>1, <1>2, <1>6, <3>1, <3>7, DocOwned
  <2> QED BY <2>3, <2>4
<1> QED BY <1>2, <1>8, <1>9, <1>10, DisturbedKeeps DEF SearchInv

(* A receipt's move strays it and touches nothing else.                    *)
LEMMA WorkerKeeps ==
  ASSUME SearchInv, UpdateStatus PROVE SearchInv'
<1>1. SearchShapes /\ RowsStand
  BY DEF SearchInv
<1>2. /\ Disturb /\ Exists("receipt") /\ table' = [table EXCEPT !["receipt"] = @ + 1]
      /\ strayed' = strayed \cup {"receipt"} /\ UNCHANGED <<aside, shown, pages>>
  BY DEF UpdateStatus
<1>3. /\ table' \in [Tables -> Nat \cup {Dropped}]
      /\ \A k \in Tables : k # "receipt" => table'[k] = table[k]
  BY <1>1, <1>2 DEF SearchShapes, Exists, Dropped, Tables
<1>4. SearchShapes'
  BY <1>1, <1>2, <1>3, Disturbed DEF SearchShapes, Docs, Tables
<1>5. RowsStand'
  BY <1>1, <1>2, <1>3 DEF RowsStand, Exists, SearchShapes, Tables
<1>6. ASSUME NEW d \in Docs \ strayed' PROVE DocFollows(d)'
  <2>1. DocFollows(d) /\ d \in Docs /\ RowOf(d) # "receipt" /\ RowOf(d) \in Tables
    BY <1>2, RowKinds DEF SearchInv
  <2>2. Content(d)' = Content(d)
    BY <1>2, <1>3, <2>1, ContentStays DEF Tables
  <2>3. NamesNow' = NamesNow /\ Exists(RowOf(d))' = Exists(RowOf(d)) /\ d # "receipt"
    BY <1>3, <2>1, RowKinds DEF NamesNow, Exists, Tables, RowOf
  <2>a. /\ \A j \in {"transaction", "mileage"} : Exists(j)' = Exists(j)
        /\ d = "mileage" => table'[d] = table[d]
    BY <1>3 DEF Exists, Tables
  <2>4. \A q \in Pages : CopyAgrees(q, d)' /\ (Pending(q, d) => Pending(q, d)')
    BY <1>2, <2>1, <2>2, <2>3, <2>a DEF CopyAgrees, Copies, Uploads, Posts, Pending, DocFollows
  <2> QED BY <1>1, <1>2, <2>1, <2>2, <2>3, <2>4, <2>a, DocKeeps
<1> QED BY <1>2, <1>4, <1>5, <1>6, DisturbedKeeps DEF SearchInv

(* A document that does not stray though row k is written is another's, or *)
(* nobody else has a copy of it.                                           *)
LEMMA NotOvertaken ==
  ASSUME NEW p, NEW k, NEW d \in Docs \ Overtaken(p, k)
  PROVE  /\ RowOf(d) = k => ~ HeldElsewhere(p, d)
         /\ k = "account" /\ RowOf(d) \in {"transaction", "statement"} =>
               ~ Exists(RowOf(d)) /\ ~ HeldElsewhere(p, d)
BY RowKinds DEF Overtaken

(* A row is created or changed.                                            *)
LEMMA CommitKeeps ==
  ASSUME SearchInv, SpentCounted, NEW p \in Pages, NEW k \in Tables, CommitRow(p, k) PROVE SearchInv'
<1>1. SearchShapes /\ RowsStand /\ k \in Docs /\ RowOf(k) = k
  BY RowKinds DEF SearchInv
<1>2. /\ Disturb /\ pages[p].at = "free" /\ table[k] # Dropped /\ shown' = shown
      /\ k \in {"transaction", "statement"} => Exists("account")
  BY DEF CommitRow
<1>3. PICK note \in {0, spentS.edits + 1}, moved \in SUBSET {"receipt"} :
        /\ note # 0 => k \in {"receipt", "mileage"}
        /\ moved # {} => k = "transaction" /\ Exists("receipt")
        /\ table' = [t \in Tables |->
               IF t \in moved \/ (t = k /\ ~(k = "receipt" /\ Exists(k))) THEN table[t] + 1 ELSE table[t]]
        /\ aside' = IF k = "receipt" /\ note # 0 THEN [aside EXCEPT ![k] = note] ELSE aside
        /\ pages' = [pages EXCEPT ![p] = [at |-> "wrote", kind |-> k,
                                          held |-> [own |-> IF Exists(k) THEN 0 ELSE 1, beside |-> note]]]
        /\ strayed' = strayed \cup moved \cup Overtaken(p, k)
  BY DEF CommitRow
<1>a. note \in Nat
  BY <1>3 DEF SpentCounted
<1>4. PICK n : n = [at |-> "wrote", kind |-> k, held |-> [own |-> IF Exists(k) THEN 0 ELSE 1, beside |-> note]]
  OBVIOUS
<1>5. IsPage(n) /\ n.at = "wrote" /\ n.kind = k /\ (n.held.own = 1 => ~ Exists(k))
  BY <1>4, <1>a DEF IsPage, AnyDoc
<1>6. pages' = [pages EXCEPT ![p] = n]
  BY <1>3, <1>4
<1>7. pages'[p] = n /\ \A q \in Pages \ {p} : pages'[q] = pages[q]
  BY <1>1, <1>6, OnePage
<1>8. /\ table' \in [Tables -> Nat \cup {Dropped}] /\ table'[k] > 0
      /\ \A j \in Tables \ ({k} \cup moved) : table'[j] = table[j]
      /\ \A j \in Tables : Exists(j) => Exists(j)'
      /\ ~ Exists(k) => table'[k] = 1
  <2>1. \A j \in Tables : table[j] \in Nat \cup {Dropped}
    BY <1>1 DEF SearchShapes
  <2>2. moved # {} => k # "receipt" /\ table["receipt"] > 0
    BY <1>3 DEF Exists
  <2> QED BY <1>2, <1>3, <2>1, <2>2 DEF Exists, Dropped
<1>9. /\ aside' \in [{"receipt", "mileage"} -> Int]
      /\ \A j \in {"receipt", "mileage"} \ {k} : aside'[j] = aside[j]
  BY <1>1, <1>3, <1>a DEF SearchShapes
<1>10. Overtaken(p, k) \subseteq Docs /\ moved \subseteq Docs
  BY DEF Overtaken, DocsOf, Docs, Tables
<1>11. SearchShapes'
  BY <1>1, <1>2, <1>3, <1>5, <1>6, <1>8, <1>9, <1>10, PagesShapes, Disturbed DEF SearchShapes, IsPage
<1>13. RowsStand'
  <2>1. \A j \in {"transaction", "statement"} : Exists(j)' => Exists("account")'
    BY <1>1, <1>2, <1>8 DEF RowsStand, Exists, Tables
  <2>2. ASSUME NEW q \in Pages \ {p}, pages[q].at = "forget"
        PROVE  table'[pages[q].kind] = Dropped /\ pages[q].kind \in {"account", "mileage"}
    BY <1>1, <1>2, <1>8, <2>2 DEF RowsStand, Tables
  <2> QED BY <1>1, <1>5, <1>7, <2>1, <2>2 DEF RowsStand
<1>14. ASSUME NEW d \in Docs \ strayed' PROVE DocFollows(d)'
  <2>1. /\ DocFollows(d) /\ d \in Docs /\ d \notin Overtaken(p, k) /\ RowOf(d) \in Tables
        /\ d \notin moved /\ RowOf(d) \notin moved
    BY <1>3, RowKinds DEF SearchInv
  <2>2. CASE RowOf(d) = k
    <3>1. ~ HeldElsewhere(p, d)
      BY <2>1, <2>2, NotOvertaken
    <3>2. CopyAgrees(p, d)'
      <4>1. ~ Copies(p, d)'
        BY <1>5, <1>7 DEF Copies
      <4>2. Uploads(p)' /\ d = "receipt" => table'["receipt"] = 1
        BY <1>5, <1>7, <1>8, <2>2 DEF Uploads
      <4>3. Posts(p)' => Exists("transaction")'
        BY <1>5, <1>7, <1>8 DEF Posts, Exists
      <4> QED BY <1>5, <1>7, <4>1, <4>2, <4>3 DEF CopyAgrees
    <3>3. Pending(p, d)'
      BY <1>5, <1>7, <1>8, <2>2 DEF Pending, Exists
    <3> QED BY <1>1, <1>2, <1>7, <2>1, <3>1, <3>2, <3>3, DocOwned
  <2>3. CASE RowOf(d) # k
    <3>1. CopyAgrees(p, d)' /\ ~ Pending(p, d)
      BY <1>2, <1>5, <1>7, <2>3, FreeHolds DEF CopyAgrees, Copies, Uploads, Posts, RowOf
    <3>2. d \in {"receipt", "mileage"} => aside'[d] = aside[d] /\ table'[d] = table[d]
      BY <1>8, <1>9, <2>1, <2>3, RowKinds DEF RowOf, Tables
    <3>3. table'[RowOf(d)] = table[RowOf(d)]
      BY <1>8, <2>1, <2>3
    <3>a. k # "account" => table'["account"] = table["account"]
      BY <1>8 DEF Tables
    <3>4. RowOf(d) \in {"transaction", "statement"} /\ Exists(RowOf(d)) => table'["account"] = table["account"]
      BY <2>1, <2>3, <3>a, NotOvertaken
    <3>5. Content(d)' = Content(d)
      BY <3>2, <3>3, <3>4, ContentStays
    <3>6. NamesNow' = NamesNow \/ ~ (crawl.names # Unlisted /\ d \in ShowsNames /\ StillAhead(d))
      <4>1. CASE k = "account"
        BY <2>1, <2>3, <4>1, NotHeld, NotOvertaken DEF ShowsNames, RowOf
      <4>2. CASE k # "account"
        BY <3>a, <4>2 DEF NamesNow, Exists
      <4> QED BY <4>1, <4>2
    <3>7. Exists(RowOf(d)) => Exists(RowOf(d))'
      BY <1>8, <2>1
    <3> QED BY <1>1, <1>2, <1>7, <2>1, <3>1, <3>2, <3>5, <3>6, <3>7, DocKeeps
  <2> QED BY <2>2, <2>3
<1> QED BY <1>2, <1>11, <1>13, <1>14, DisturbedKeeps DEF SearchInv

(* The accounts of a new entity are inserted.                              *)
LEMMA SeedKeeps ==
  ASSUME SearchInv, NEW p \in Pages, SeedEntityAccounts(p) PROVE SearchInv'
<1>1. SearchShapes /\ RowsStand
  BY DEF SearchInv
<1>2. /\ Disturb /\ pages[p].at = "free" /\ table["account"] = Unborn
      /\ table' = [table EXCEPT !["account"] = 1]
      /\ strayed' = strayed \cup {"account"} \cup Overtaken(p, "account")
      /\ UNCHANGED <<aside, shown, pages>>
  BY DEF SeedEntityAccounts
<1>3. /\ table' \in [Tables -> Nat \cup {Dropped}]
      /\ \A j \in Tables : j # "account" => table'[j] = table[j]
      /\ table'["account"] = 1 /\ ~ Exists("account")
  BY <1>1, <1>2 DEF SearchShapes, Exists, Unborn, Tables
<1>4. SearchShapes'
  BY <1>1, <1>2, <1>3, Disturbed DEF SearchShapes, Docs, Tables, Overtaken, DocsOf
<1>5. RowsStand'
  BY <1>1, <1>2, <1>3 DEF RowsStand, Exists, Unborn, Dropped, Tables
<1>6. ASSUME NEW d \in Docs \ strayed' PROVE DocFollows(d)'
  <2>1. /\ DocFollows(d) /\ d \in Docs /\ d # "account" /\ d \notin Overtaken(p, "account")
        /\ RowOf(d) # "account" /\ RowOf(d) \in Tables
    BY <1>2, RowKinds DEF SearchInv, RowOf
  <2>2. RowOf(d) \in {"transaction", "statement"} => ~ Exists(RowOf(d)) /\ ~ HeldElsewhere(p, d)
    BY <2>1, NotOvertaken
  <2>3. Content(d)' = Content(d)
    BY <1>2, <1>3, <2>1, <2>2, ContentStays
  <2>4. \A j \in Tables : j # "account" => Exists(j)' = Exists(j)
    BY <1>3 DEF Exists
  <2>5. d \in ShowsNames => ~ (crawl.names # Unlisted /\ StillAhead(d))
    <3>1. d \in ShowsNames => RowOf(d) = "transaction"
      BY <2>1 DEF ShowsNames, RowOf
    <3> QED BY <2>2, <3>1, NotHeld
  <2>6. CopyAgrees(p, d)' /\ (Pending(p, d) => Pending(p, d)')
    BY <1>2, FreeHolds DEF CopyAgrees, Copies, Uploads, Posts
  <2>7. d \in {"receipt", "mileage"} => table'[d] = table[d]
    BY <1>3 DEF Tables
  <2> QED BY <1>1, <1>2, <2>1, <2>3, <2>4, <2>5, <2>6, <2>7, DocKeeps
<1> QED BY <1>2, <1>4, <1>5, <1>6, DisturbedKeeps DEF SearchInv

(* An entity is deleted: a document that stays has no row and no copy.     *)
LEMMA DeleteEntityKeeps ==
  ASSUME SearchInv, NEW p \in Pages, DeleteEntity(p) PROVE SearchInv'
<1>1. SearchShapes /\ RowsStand
  BY DEF SearchInv
<1>2. /\ Disturb /\ pages[p].at = "free"
      /\ table' = [k \in Tables |-> Dropped] /\ aside' = [k \in {"receipt", "mileage"} |-> 0]
      /\ strayed' = strayed \cup {d \in Docs : Exists(RowOf(d)) \/ HeldElsewhere(p, d)}
      /\ UNCHANGED <<shown, pages>>
  BY DEF DeleteEntity
<1>3. SearchShapes'
  BY <1>1, <1>2, Disturbed DEF SearchShapes
<1>4. \A k \in Tables : table'[k] = Dropped /\ ~ Exists(k)'
  BY <1>2 DEF Exists, Dropped
<1>5. RowsStand'
  BY <1>1, <1>2, <1>4 DEF RowsStand, Tables
<1>6. ASSUME NEW d \in Docs \ strayed' PROVE DocFollows(d)'
  <2>1. DocFollows(d) /\ d \in Docs /\ ~ Exists(RowOf(d)) /\ ~ HeldElsewhere(p, d) /\ RowOf(d) \in Tables
    BY <1>2, RowKinds DEF SearchInv
  <2>2. Content(d) = NoDoc /\ Content(d)' = NoDoc
    BY <1>4, <2>1 DEF Content, NoDoc
  <2>3. \A q \in Pages : /\ ~ Copies(q, d) /\ (d = "receipt" => ~ Uploads(q))
                         /\ (RowOf(d) = "transaction" => ~ Posts(q))
                         /\ ~ (pages[q].at = "note" /\ pages[q].kind = RowOf(d))
    <3>1. /\ ~ Copies(p, d) /\ ~ Uploads(p) /\ ~ Posts(p) /\ pages[p].at # "note"
      BY <1>2 DEF Copies, Uploads, Posts
    <3> QED BY <2>1, <3>1, NotHeld
  <2>4. \A q \in Pages : CopyAgrees(q, d)'
    <3>1. \A q \in Pages : pages[q].at = "note" => pages[q].kind = "mileage"
      BY <1>1 DEF RowsStand
    <3> QED BY <1>2, <2>3, <3>1 DEF CopyAgrees, Copies, Uploads, Posts, RowOf
  <2>5. \A q \in Pages : Pending(q, d) => Pending(q, d)'
    BY <1>2, <2>1, <2>3 DEF Pending, Copies
  <2>6. ListAgrees(d)' /\ NamesAgree(d)'
    BY <1>1, <1>2, <2>1, NotHeld, Disturbed DEF ListAgrees, NamesAgree, StillAhead
  <2> QED BY <1>2, <2>1, <2>2, <2>4, <2>5, <2>6 DEF DocFollows
<1> QED BY <1>2, <1>3, <1>5, <1>6, DisturbedKeeps DEF SearchInv

(* A row is deleted, an account with its statements.                       *)
LEMMA DeleteRowKeeps ==
  ASSUME SearchInv, NEW p \in Pages, NEW k \in Tables, DeleteRow(p, k) PROVE SearchInv'
<1>1. SearchShapes /\ RowsStand /\ k \in Docs /\ RowOf(k) = k
  BY RowKinds DEF SearchInv
<1>2. PICK c : c = IF k = "account" /\ Exists("statement") THEN {"statement"} ELSE {}
  OBVIOUS
<1>3. /\ Disturb /\ pages[p].at = "free" /\ k \in {"account", "mileage"} /\ Exists(k)
      /\ k = "account" => ~ Exists("transaction")
      /\ table' = [t \in Tables |-> IF t \in c \cup {k} THEN Dropped ELSE table[t]]
      /\ strayed' = strayed \cup c \cup Overtaken(p, k)
      /\ pages' = [pages EXCEPT ![p] = [at |-> "forget", kind |-> k, held |-> NoDoc]]
      /\ aside' = aside /\ shown' = shown
  BY <1>2 DEF DeleteRow
<1>4. PICK n : n = [at |-> "forget", kind |-> k, held |-> NoDoc]
  OBVIOUS
<1>5. IsPage(n) /\ n.at = "forget" /\ n.kind = k
  BY <1>4 DEF IsPage, FreePage, AnyDoc, NoDoc
<1>6. pages' = [pages EXCEPT ![p] = n]
  BY <1>3, <1>4
<1>7. pages'[p] = n /\ \A q \in Pages \ {p} : pages'[q] = pages[q]
  BY <1>1, <1>6, OnePage
<1>8. /\ table' \in [Tables -> Nat \cup {Dropped}] /\ table'[k] = Dropped
      /\ \A j \in Tables \ (c \cup {k}) : table'[j] = table[j]
      /\ \A j \in c : table'[j] = Dropped
      /\ c \subseteq {"statement"} /\ (k = "account" /\ Exists("statement") => "statement" \in c)
      /\ k # "account" => c = {}
  BY <1>1, <1>2, <1>3 DEF SearchShapes, Tables
<1>9. Overtaken(p, k) \cup c \subseteq Docs
  BY <1>8 DEF Overtaken, DocsOf, Docs, Tables
<1>10. SearchShapes'
  BY <1>1, <1>3, <1>5, <1>6, <1>8, <1>9, PagesShapes, Disturbed DEF SearchShapes, IsPage
<1>11. RowsStand'
  <2>1. \A j \in {"transaction", "statement"} : Exists(j)' => Exists("account")'
    BY <1>1, <1>3, <1>8 DEF RowsStand, Exists, Tables, Dropped
  <2>2. ASSUME NEW q \in Pages \ {p}, pages[q].at = "forget"
        PROVE  table'[pages[q].kind] = Dropped /\ pages[q].kind \in {"account", "mileage"}
    BY <1>1, <1>3, <1>8, <2>2 DEF RowsStand, Tables
  <2>3. Exists("transaction") => Exists("transaction")'
    BY <1>3, <1>8 DEF Tables, Exists
  <2> QED BY <1>1, <1>3, <1>5, <1>7, <1>8, <2>1, <2>2, <2>3 DEF RowsStand
<1>12. ASSUME NEW d \in Docs \ strayed' PROVE DocFollows(d)'
  <2>1. DocFollows(d) /\ d \in Docs /\ d \notin Overtaken(p, k) /\ d \notin c /\ RowOf(d) \in Tables
    BY <1>3, RowKinds DEF SearchInv
  <2>2. CASE RowOf(d) = k
    <3>1. ~ HeldElsewhere(p, d)
      BY <2>1, <2>2, NotOvertaken
    <3>2. CopyAgrees(p, d)' /\ Pending(p, d)'
      BY <1>5, <1>7, <2>2 DEF CopyAgrees, Copies, Uploads, Posts, Pending
    <3> QED BY <1>1, <1>3, <1>7, <2>1, <3>1, <3>2, DocOwned
  <2>3. CASE RowOf(d) # k
    <3>1. CopyAgrees(p, d)' /\ ~ Pending(p, d)
      BY <1>3, <1>5, <1>7, <2>3, FreeHolds DEF CopyAgrees, Copies, Uploads, Posts
    <3>2. RowOf(d) \notin c
      BY <1>8, <2>1, RowKinds DEF Tables
    <3>3. table'[RowOf(d)] = table[RowOf(d)]
      BY <1>8, <2>1, <2>3, <3>2
    <3>4. RowOf(d) \in {"transaction", "statement"} /\ Exists(RowOf(d)) => table'["account"] = table["account"]
      BY <1>3, <1>8, <2>1, <2>3, NotOvertaken DEF Tables
    <3>5. Content(d)' = Content(d)
      BY <1>3, <3>3, <3>4, ContentStays
    <3>6. NamesNow' = NamesNow \/ ~ (crawl.names # Unlisted /\ d \in ShowsNames /\ StillAhead(d))
      <4>1. CASE k = "account"
        BY <2>1, <2>3, <4>1, NotHeld, NotOvertaken DEF ShowsNames, RowOf
      <4>2. CASE k # "account"
        BY <1>8, <4>2 DEF NamesNow, Exists, Tables
      <4> QED BY <4>1, <4>2
    <3>7. Exists(RowOf(d)) => Exists(RowOf(d))'
      BY <3>3 DEF Exists
    <3>8. d = "receipt" => table'["receipt"] = table["receipt"]
      BY <1>3, <1>8 DEF Tables
    <3>9. d = "mileage" => table'["mileage"] = table["mileage"]
      BY <1>8, <2>3 DEF Tables, RowOf
    <3> QED BY <1>1, <1>3, <1>7, <2>1, <3>1, <3>5, <3>6, <3>7, <3>8, <3>9, DocKeeps
  <2> QED BY <2>2, <2>3
<1> QED BY <1>3, <1>10, <1>11, <1>12, DisturbedKeeps DEF SearchInv

IsCrawl(x) ==
    x \in [at : {"off", "names", "list", "put", "done"}, todo : Walks \cup {<<>>},
           walked : SUBSET Docs, names : Int, held : AnyDoc, alone : BOOLEAN]

(* The reindexer writes nothing but its own notes.                         *)
LEMMA CrawlerKeeps ==
  ASSUME SearchInv, UNCHANGED <<table, aside, shown, pages, strayed>>, IsCrawl(crawl'),
         WalkStands', AloneIsFresh',
         \A d \in Docs \ strayed : ListAgrees(d)' /\ NamesAgree(d)'
  PROVE  SearchInv'
<1>1. SearchShapes'
  BY DEF SearchInv, SearchShapes, IsCrawl
<1>2. RowsStand'
  BY DEF SearchInv, RowsStand, Exists
<1>3. ASSUME NEW d \in Docs \ strayed PROVE DocFollows(d)'
  <2>1. DocFollows(d)
    BY DEF SearchInv
  <2>2. Content(d)' = Content(d)
    BY ContentStays
  <2>3. \A q \in Pages : CopyAgrees(q, d)' /\ (Pending(q, d) => Pending(q, d)')
    BY <2>1, <2>2 DEF DocFollows, CopyAgrees, Copies, Uploads, Posts, Pending, Exists
  <2> QED BY <2>1, <2>2, <2>3 DEF DocFollows
<1> QED BY <1>1, <1>2, <1>3 DEF SearchInv

(* What the reindexer holds.                                               *)
LEMMA CrawlShape ==
  ASSUME SearchInv
  PROVE  /\ IsCrawl(crawl) /\ SearchShapes /\ WalkStands /\ AloneIsFresh
         /\ crawl.at \in {"names", "list", "put"} => crawl.todo \in Walks
BY DEF SearchInv, IsCrawl, SearchShapes, WalkStands

(* The reindexer stops.                                                    *)
LEMMA CrawlStops ==
  ASSUME SearchInv, UNCHANGED <<table, aside, shown, pages, strayed>>, crawl' = NoCrawl
  PROVE  SearchInv'
<1>1. IsCrawl(crawl')
  BY DEF IsCrawl, NoCrawl, NoDoc, AnyDoc, Unlisted
<1>2. WalkStands' /\ AloneIsFresh' /\ \A d \in Docs : ListAgrees(d)' /\ NamesAgree(d)'
  BY DEF WalkStands, AloneIsFresh, ListAgrees, NamesAgree, NoCrawl
<1> QED BY <1>1, <1>2, CrawlerKeeps

(* It starts.                                                              *)
LEMMA StartKeeps ==
  ASSUME SearchInv, StartCrawl PROVE SearchInv'
<1>1. PICK walk \in {<<"posting">>, DocumentWalk, <<"posting">> \o DocumentWalk} :
        crawl' = [at |-> "names", todo |-> walk, walked |-> {}, names |-> Unlisted, held |-> NoDoc,
                  alone |-> \A p \in Pages : pages[p].at = "free"]
  BY DEF StartCrawl
<1>2. <<"posting">> \o DocumentWalk = <<"posting", "account", "transaction", "receipt", "statement", "mileage">>
  <2> DEFINE S == Docs
             y == <<"posting">> \o DocumentWalk
             z == <<"posting", "account", "transaction", "receipt", "statement", "mileage">>
  <2>1. y \in Seq(S) /\ Len(y) = 6 /\ z \in Seq(S) /\ Len(z) = 6
    BY DEF DocumentWalk, Docs, Tables
  <2>2. y[1] = z[1] /\ y[2] = z[2] /\ y[3] = z[3] /\ y[4] = z[4] /\ y[5] = z[5] /\ y[6] = z[6]
    BY DEF DocumentWalk, Docs, Tables
  <2> HIDE DEF y, z
  <2>3. \A i \in 1 .. 6 : y[i] = z[i]
    BY <2>2
  <2>4. y = z
    BY <2>1, <2>3, SeqEqual
  <2> QED BY <2>4 DEF y, z
<1>3. walk \in Walks
  BY <1>1, <1>2 DEF Walks, DocumentWalk
<1>4. walk # <<>>
  BY <1>3, WalkTails
<1>5. IsCrawl(crawl')
  BY <1>1, <1>3 DEF IsCrawl, NoDoc, AnyDoc, Unlisted
<1>6. UNCHANGED <<table, aside, shown, pages, strayed>>
  BY DEF StartCrawl
<1>7. WalkStands' /\ \A d \in Docs : ListAgrees(d)' /\ NamesAgree(d)'
  BY <1>1, <1>4 DEF WalkStands, ListAgrees, NamesAgree
<1>8. AloneIsFresh'
  BY <1>1, <1>6 DEF AloneIsFresh
<1> QED BY <1>5, <1>6, <1>7, <1>8, CrawlerKeeps

(* It lists the accounts.                                                  *)
LEMMA ListAccountsKeeps ==
  ASSUME SearchInv, ListAccounts PROVE SearchInv'
<1>1. SearchShapes /\ IsCrawl(crawl) /\ WalkStands /\ AloneIsFresh /\ crawl.todo \in Walks /\ crawl.at = "names"
  BY CrawlShape DEF ListAccounts
<1>2. PICK n : n = NamesNow
  OBVIOUS
<1>3. n \in Int /\ n # Unlisted
  BY <1>1, <1>2 DEF NamesNow, SearchShapes, Tables, Exists, Unlisted, Dropped
<1>4. PICK c : c = [crawl EXCEPT !.at = "list"]
  OBVIOUS
<1>5. c = [at |-> "list", todo |-> crawl.todo, walked |-> crawl.walked,
           names |-> crawl.names, held |-> crawl.held, alone |-> crawl.alone]
  BY <1>1, <1>4 DEF IsCrawl
<1>6. PICK e : e = [c EXCEPT !.names = n]
  OBVIOUS
<1>7. e = [at |-> "list", todo |-> crawl.todo, walked |-> crawl.walked,
           names |-> n, held |-> crawl.held, alone |-> crawl.alone]
  BY <1>5, <1>6
<1>8. crawl' = e
  BY <1>2, <1>4, <1>6, Zenon DEF ListAccounts, NamesNow
<1>9. UNCHANGED <<table, aside, shown, pages, strayed>>
  BY DEF ListAccounts
<1>10. IsCrawl(crawl')
  BY <1>1, <1>3, <1>7, <1>8 DEF IsCrawl
<1>11. NamesNow' = n
  BY <1>2, <1>9 DEF NamesNow, Exists
<1>12. WalkStands'
  BY <1>1, <1>3, <1>7, <1>8 DEF WalkStands
<1>13. \A d \in Docs : ListAgrees(d)' /\ NamesAgree(d)'
  BY <1>7, <1>8, <1>11 DEF ListAgrees, NamesAgree
<1>14. \A d \in Docs : Mended(d) => Mended(d)'
  BY <1>9, ContentStays DEF Mended, Exists
<1>15. AloneIsFresh'
  BY <1>1, <1>7, <1>8, <1>9, <1>11, <1>14 DEF AloneIsFresh, IsCrawl
<1> QED BY <1>9, <1>10, <1>12, <1>13, <1>15, CrawlerKeeps

(* The reindexer's notes after it went past a document.                    *)
LEMMA Onwards ==
  ASSUME SearchInv, crawl.at \in {"list", "put"}, NEW d, d = Head(crawl.todo), NEW s, s = StepOn
  PROVE  /\ IsCrawl(s) /\ d \in Docs /\ s.at \in {"done", "names", "list"}
         /\ s.at # "done" <=> s.todo # <<>>
         /\ s.at = "list" => s.names # Unlisted
         /\ s.todo = Tail(crawl.todo) /\ s.walked = crawl.walked \cup {d} /\ s.alone = crawl.alone
         /\ s.names \in {Unlisted, crawl.names}
         /\ \A i \in DOMAIN s.todo : s.todo[i] # d /\ \E j \in DOMAIN crawl.todo : crawl.todo[j] = s.todo[i]
         /\ \E j \in DOMAIN crawl.todo : crawl.todo[j] = d
<1>1. IsCrawl(crawl) /\ crawl.todo \in Walks /\ crawl.names # Unlisted
  BY CrawlShape DEF WalkStands
<1>2. PICK t : t = crawl.todo
  OBVIOUS
<1>3. /\ d \in Docs /\ Tail(t) \in Walks \cup {<<>>} /\ (Len(t) = 1 <=> Tail(t) = <<>>)
      /\ \A i \in DOMAIN Tail(t) : Tail(t)[i] # d /\ \E j \in DOMAIN t : t[j] = Tail(t)[i]
      /\ \E j \in DOMAIN t : t[j] = d
  BY <1>1, <1>2, WalkTails
<1>4. /\ s.at = (IF Len(t) = 1 THEN "done" ELSE IF d = "posting" THEN "names" ELSE "list")
      /\ s.todo = Tail(t) /\ s.walked = crawl.walked \cup {d} /\ s.held = NoDoc
      /\ s.names = (IF d = "posting" THEN Unlisted ELSE crawl.names) /\ s.alone = crawl.alone
      /\ s = [at |-> s.at, todo |-> s.todo, walked |-> s.walked,
              names |-> s.names, held |-> s.held, alone |-> s.alone]
  BY <1>2 DEF StepOn
<1>5. NoDoc \in AnyDoc /\ Unlisted \in Int
  BY DEF NoDoc, AnyDoc, Unlisted
<1>6. /\ s.at \in {"done", "names", "list"} /\ s.todo \in Walks \cup {<<>>} /\ s.walked \in SUBSET Docs
      /\ s.held \in AnyDoc /\ s.alone \in BOOLEAN
      /\ s.at # "done" <=> s.todo # <<>>
      /\ s.at = "list" => s.names # Unlisted
      /\ s.names \in {Unlisted, crawl.names} /\ s.names \in Int
  <2>1. crawl.walked \in SUBSET Docs /\ crawl.names \in Int /\ crawl.alone \in BOOLEAN
    BY <1>1 DEF IsCrawl
  <2> QED BY <1>1, <1>3, <1>4, <1>5, <2>1
<1>7. IsCrawl(s)
  <2>1. s = [at |-> s.at, todo |-> s.todo, walked |-> s.walked,
             names |-> s.names, held |-> s.held, alone |-> s.alone]
    BY <1>4
  <2> QED BY <1>6, <2>1 DEF IsCrawl
<1> QED BY <1>2, <1>3, <1>4, <1>6, <1>7

(* What is listed with the present names is as the table has it, but for   *)
(* the context of a mileage row.                                           *)
LEMMA ListedAgrees ==
  ASSUME SearchShapes, RowsStand, NEW d \in Docs, InList(d), d \in ShowsNames => crawl.names = NamesNow
  PROVE  /\ Listed(d) \in AnyDoc
         /\ Listed(d) = Content(d) \/ (d = "mileage" /\ aside["mileage"] # 0)
         /\ d # "mileage" => Listed(d) = Content(d)
         /\ d = "mileage" => Listed(d).own = table[d]
<1>1. CASE d = "account"
  <2>1. Exists("account") /\ crawl.names = table["account"]
    BY <1>1 DEF InList, NamesNow, ShowsNames
  <2>2. Content(d) = [own |-> table["account"], beside |-> 0]
    BY <1>1, <2>1 DEF Content, RowOf, AccountDoc
  <2>3. Listed(d) = [own |-> table["account"], beside |-> 0]
    BY <1>1, <2>1 DEF Listed, AccountDoc
  <2>4. Listed(d) \in AnyDoc
    BY <2>2, <2>3, ContentShape
  <2> QED BY <1>1, <2>2, <2>3, <2>4
<1>2. CASE d \in {"transaction", "posting"}
  <2>1. Exists("transaction") /\ crawl.names = NamesNow
    BY <1>2 DEF InList, RowOf, ShowsNames
  <2>2. crawl.names = table["account"]
    BY <2>1 DEF RowsStand, NamesNow
  <2>3. Content(d) = TransactionDoc(table["account"])
    BY <1>2, <2>1 DEF Content, RowOf
  <2>4. Listed(d) = TransactionDoc(table["account"])
    BY <1>2, <2>2 DEF Listed
  <2> QED BY <1>2, <2>3, <2>4, ContentShape
<1>3. CASE d = "mileage"
  <2>1. Exists("mileage") /\ table["mileage"] \in Int /\ aside["mileage"] \in Int
    BY <1>3 DEF InList, RowOf, SearchShapes, Tables, Dropped
  <2>2. Content(d) = [own |-> table["mileage"], beside |-> aside["mileage"]]
    BY <1>3, <2>1 DEF Content, RowOf, MileageDoc
  <2>3. Listed(d) = [own |-> table["mileage"], beside |-> 0]
    BY <1>3 DEF Listed, MileageDoc
  <2> QED BY <1>3, <2>1, <2>2, <2>3 DEF AnyDoc
<1>4. CASE d \in {"receipt", "statement"}
  BY <1>4, ContentShape DEF Listed
<1> QED BY <1>1, <1>2, <1>3, <1>4 DEF Docs, Tables

(* It lists the rows of one kind, or has none to list.                     *)
LEMMA ListRowsKeeps ==
  ASSUME SearchInv, ListRows PROVE SearchInv'
<1>0. PICK d : d = Head(crawl.todo)
  OBVIOUS
<1>1. /\ SearchShapes /\ RowsStand /\ IsCrawl(crawl) /\ WalkStands /\ AloneIsFresh
      /\ crawl.todo \in Walks /\ crawl.at = "list" /\ crawl.names # Unlisted
      /\ UNCHANGED <<table, aside, shown, pages, strayed>>
  BY CrawlShape DEF ListRows, SearchInv, WalkStands
<1>2. d \in Docs /\ \E j \in DOMAIN crawl.todo : crawl.todo[j] = d
  BY <1>0, <1>1, WalkTails
<1>3. NamesNow' = NamesNow /\ \A e \in Docs : Mended(e) => Mended(e)'
  BY <1>1, ContentStays DEF NamesNow, Mended, Exists
<1>4. \A e \in Docs : Content(e)' = Content(e)
  BY <1>1, ContentStays
<1>5. CASE InList(d)
  <2>1. PICK h : h = Listed(d)
    OBVIOUS
  <2>2. PICK c : c = [crawl EXCEPT !.at = "put"]
    OBVIOUS
  <2>3. c = [at |-> "put", todo |-> crawl.todo, walked |-> crawl.walked,
             names |-> crawl.names, held |-> crawl.held, alone |-> crawl.alone]
    BY <1>1, <2>2 DEF IsCrawl
  <2>4. PICK e : e = [c EXCEPT !.held = h]
    OBVIOUS
  <2>5. e = [at |-> "put", todo |-> crawl.todo, walked |-> crawl.walked,
             names |-> crawl.names, held |-> h, alone |-> crawl.alone]
    BY <2>3, <2>4
  <2>6. crawl' = e
    BY <1>0, <1>5, <2>1, <2>2, <2>4, Zenon DEF ListRows
  <2>7. h \in AnyDoc
    <3>1. ASSUME NEW x \in Int, NEW y \in Int PROVE [own |-> x, beside |-> y] \in AnyDoc
      BY DEF AnyDoc
    <3>2. crawl.names \in Int /\ table["mileage"] \in Int
      BY <1>1 DEF IsCrawl, SearchShapes, Tables, Dropped
    <3>3. CASE d = "account"
      <4>1. Listed(d) = [own |-> crawl.names, beside |-> 0]
        BY <3>3 DEF Listed, AccountDoc
      <4> QED BY <2>1, <3>1, <3>2, <4>1
    <3>4. CASE d \in {"transaction", "posting"}
      <4>1. table["transaction"] \in Int
        BY <1>1 DEF SearchShapes, Tables, Dropped
      <4> QED BY <2>1, <3>1, <3>2, <3>4, <4>1 DEF Listed, TransactionDoc
    <3>5. CASE d = "mileage"
      BY <2>1, <3>1, <3>2, <3>5 DEF Listed, MileageDoc
    <3>6. CASE d \in {"receipt", "statement"}
      BY <1>1, <1>2, <2>1, <3>6, ContentShape DEF Listed
    <3> QED BY <1>2, <3>3, <3>4, <3>5, <3>6 DEF Docs, Tables
  <2>8. IsCrawl(crawl')
    BY <1>1, <2>5, <2>6, <2>7 DEF IsCrawl
  <2>9. WalkStands'
    BY <1>1, <2>5, <2>6 DEF WalkStands
  <2>10. ASSUME NEW f \in Docs \ strayed PROVE ListAgrees(f)' /\ NamesAgree(f)'
    <3>1. NamesAgree(f)
      BY DEF SearchInv, DocFollows
    <3>2. NamesAgree(f)'
      BY <1>3, <2>5, <2>6, <3>1 DEF NamesAgree, StillAhead
    <3>3. CASE f = d
      <4>1. d \in ShowsNames => crawl.names = NamesNow
        BY <1>1, <1>2, <3>1, <3>3 DEF NamesAgree, StillAhead
      <4>2. h = Content(d) \/ (d = "mileage" /\ aside["mileage"] # 0)
        BY <1>1, <1>2, <1>5, <2>1, <4>1, ListedAgrees
      <4>3. ListAgrees(f)'
        BY <1>1, <1>2, <1>4, <2>5, <2>6, <3>3, <4>2 DEF ListAgrees
      <4> QED BY <3>2, <4>3
    <3>4. CASE f # d
      <4>1. ListAgrees(f)'
        BY <1>0, <2>5, <2>6, <3>4 DEF ListAgrees
      <4> QED BY <3>2, <4>1
    <3> QED BY <3>3, <3>4
  <2>11. ASSUME crawl.alone PROVE InList(d)' /\ h = Listed(d)'
    <3>1. InList(d)'
      BY <1>1, <1>5, <2>5, <2>6 DEF InList, Exists
    <3>2. Listed(d)' = Listed(d)
      BY <1>1, <1>2, <1>4, <2>5, <2>6 DEF Listed, AccountDoc, TransactionDoc, MileageDoc
    <3> QED BY <2>1, <3>1, <3>2
  <2>12. AloneIsFresh'
    <3> SUFFICES ASSUME crawl'.at # "off", crawl'.alone PROVE
            /\ \A p \in Pages : pages'[p].at = "free"
            /\ crawl'.names # Unlisted => crawl'.names = NamesNow'
            /\ crawl'.at = "put" => InList(Head(crawl.todo))' /\ crawl'.held = Listed(Head(crawl.todo))'
            /\ \A f \in crawl'.walked : Mended(f)'
      BY DEF AloneIsFresh
    <3>1. /\ crawl.alone /\ crawl'.todo = crawl.todo /\ crawl'.walked = crawl.walked
          /\ crawl'.names = crawl.names /\ crawl'.held = h
      BY <2>5, <2>6
    <3>2. Head(crawl.todo)' = d
      BY <1>0, <3>1
    <3>3. \A f \in crawl.walked : f \in Docs
      BY <1>1 DEF IsCrawl
    <3> QED BY <1>1, <1>3, <2>11, <3>1, <3>2, <3>3 DEF AloneIsFresh
  <2> QED BY <1>1, <2>8, <2>9, <2>10, <2>12, CrawlerKeeps
<1>6. CASE ~ InList(d)
  <2>1. PICK s : s = StepOn
    OBVIOUS
  <2>2. crawl' = s
    BY <1>0, <1>6, <2>1 DEF ListRows
  <2>3. /\ IsCrawl(s) /\ s.at \in {"done", "names", "list"} /\ (s.at # "done" <=> s.todo # <<>>)
        /\ s.at = "list" => s.names # Unlisted
        /\ s.walked = crawl.walked \cup {d} /\ s.alone = crawl.alone
        /\ s.names \in {Unlisted, crawl.names}
        /\ \A i \in DOMAIN s.todo : \E j \in DOMAIN crawl.todo : crawl.todo[j] = s.todo[i]
    BY <1>0, <1>1, <2>1, Onwards
  <2>4. WalkStands'
    BY <2>2, <2>3 DEF WalkStands
  <2>5. ASSUME NEW f \in Docs \ strayed PROVE ListAgrees(f)' /\ NamesAgree(f)'
    <3>1. NamesAgree(f)
      BY DEF SearchInv, DocFollows
    <3> QED BY <1>3, <2>2, <2>3, <3>1 DEF NamesAgree, ListAgrees, StillAhead
  <2>6. crawl.alone => Mended(d)'
    <3>1. crawl.alone => (Exists(RowOf(d)) => InList(d))
      BY <1>1, <1>2 DEF AloneIsFresh, InList, NamesNow, Exists, RowOf
    <3> QED BY <1>1, <1>6, <3>1 DEF Mended, Exists
  <2>7. AloneIsFresh'
    <3>1. \A f \in crawl.walked : f \in Docs
      BY <1>1 DEF IsCrawl
    <3> QED BY <1>1, <1>3, <2>2, <2>3, <2>6, <3>1 DEF AloneIsFresh
  <2> QED BY <1>1, <2>2, <2>3, <2>4, <2>5, <2>7, CrawlerKeeps
<1> QED BY <1>5, <1>6

(* It writes the document it listed.                                       *)
LEMMA PutListedKeeps ==
  ASSUME SearchInv, PutListed PROVE SearchInv'
<1>0. PICK d : d = Head(crawl.todo)
  OBVIOUS
<1>00. PICK s : s = StepOn
  OBVIOUS
<1>1. /\ SearchShapes /\ RowsStand /\ IsCrawl(crawl) /\ WalkStands /\ AloneIsFresh
      /\ crawl.todo \in Walks /\ crawl.at = "put" /\ crawl.names # Unlisted
      /\ UNCHANGED <<table, aside, pages>> /\ crawl' = s /\ shown' = [shown EXCEPT ![d] = crawl.held]
      /\ strayed' = IF crawl.held = Content(d) /\ ~\E p \in Pages : PageHolds(p, d) THEN strayed \ {d}
                    ELSE IF d = "mileage" /\ aside[d] # 0 THEN strayed \cup {d}
                    ELSE strayed
  BY <1>0, <1>00, CrawlShape DEF PutListed, SearchInv, WalkStands
<1>2. /\ IsCrawl(s) /\ s.at \in {"done", "names", "list"} /\ (s.at # "done" <=> s.todo # <<>>)
      /\ s.at = "list" => s.names # Unlisted
      /\ s.walked = crawl.walked \cup {d} /\ s.alone = crawl.alone
      /\ s.names \in {Unlisted, crawl.names} /\ d \in Docs
      /\ \A i \in DOMAIN s.todo : s.todo[i] # d /\ \E j \in DOMAIN crawl.todo : crawl.todo[j] = s.todo[i]
  BY <1>0, <1>00, <1>1, Onwards
<1>3. NamesNow' = NamesNow /\ \A e \in Docs : Content(e)' = Content(e) /\ Exists(RowOf(e))' = Exists(RowOf(e))
  BY <1>1, ContentStays DEF NamesNow, Exists
<1>4. shown'[d] = crawl.held /\ (\A e \in Docs \ {d} : shown'[e] = shown[e]) /\ shown' = [e \in Docs |-> shown'[e]]
  BY <1>1, <1>2 DEF SearchShapes
<1>5. strayed' \subseteq Docs
  BY <1>1, <1>2 DEF SearchShapes
<1>6. SearchShapes'
  BY <1>1, <1>2, <1>4, <1>5 DEF SearchShapes, IsCrawl
<1>7. RowsStand'
  BY <1>1 DEF RowsStand, Exists
<1>8. WalkStands'
  BY <1>1, <1>2 DEF WalkStands
<1>9. AloneIsFresh'
  <2>1. crawl.alone => Mended(d)'
    <3> SUFFICES ASSUME crawl.alone, Exists(RowOf(d))
        PROVE  IF d = "mileage" THEN shown'[d].own = table'[d] ELSE shown'[d] = Content(d)'
      BY <1>2, <1>3 DEF Mended
    <3>1. InList(d) /\ crawl.held = Listed(d) /\ crawl.names = NamesNow
      BY <1>0, <1>1 DEF AloneIsFresh
    <3>2. (d # "mileage" => Listed(d) = Content(d)) /\ (d = "mileage" => Listed(d).own = table[d])
      BY <1>1, <1>2, <3>1, ListedAgrees
    <3> QED BY <1>1, <1>2, <1>3, <1>4, <3>1, <3>2
  <2>2. ASSUME NEW e \in crawl.walked, e # d PROVE Mended(e) => Mended(e)'
    <3>1. e \in Docs
      BY <1>1 DEF IsCrawl
    <3> QED BY <1>1, <1>3, <1>4, <2>2, <3>1 DEF Mended
  <2> QED BY <1>1, <1>2, <1>3, <2>1, <2>2 DEF AloneIsFresh
<1>10. ASSUME NEW e \in Docs \ strayed', e # d PROVE DocFollows(e)'
  <2>1. DocFollows(e) /\ e \in Docs
    BY <1>1, <1>10 DEF SearchInv
  <2>2. \A q \in Pages : CopyAgrees(q, e)' /\ (Pending(q, e) => Pending(q, e)')
    <3>1. Exists("transaction")' = Exists("transaction") /\ Exists("mileage")' = Exists("mileage")
      BY <1>1 DEF Exists
    <3> QED BY <1>1, <1>3, <2>1, <3>1 DEF DocFollows, CopyAgrees, Copies, Uploads, Posts, Pending
  <2>3. ListAgrees(e)'
    BY <1>1, <1>2 DEF ListAgrees
  <2>4. NamesAgree(e)'
    BY <1>1, <1>2, <1>3, <2>1 DEF DocFollows, NamesAgree, StillAhead
  <2> QED BY <1>3, <1>4, <1>10, <2>1, <2>2, <2>3, <2>4 DEF DocFollows
<1>11. ASSUME d \notin strayed' PROVE DocFollows(d)'
  <2>1. ListAgrees(d)' /\ NamesAgree(d)'
    BY <1>1, <1>2 DEF ListAgrees, NamesAgree, StillAhead
  <2>2. crawl.held = Content(d) /\ \A q \in Pages : CopyAgrees(q, d)'
    <3>1. CASE d \in strayed
      <4>1. crawl.held = Content(d) /\ \A q \in Pages : ~ PageHolds(q, d)
        BY <1>1, <1>11, <3>1
      <4> QED BY <1>1, <4>1 DEF CopyAgrees, Copies, Uploads, Posts, PageHolds, RowOf, RowsStand
    <3>2. CASE d \notin strayed
      <4>1. DocFollows(d)
        BY <1>2, <3>2 DEF SearchInv
      <4>2. \A q \in Pages : CopyAgrees(q, d)'
        BY <1>1, <1>2, <1>3, <4>1 DEF DocFollows, CopyAgrees, Copies, Uploads, Posts, Exists
      <4>3. crawl.held = Content(d) \/ (d = "mileage" /\ aside["mileage"] # 0)
        BY <1>0, <1>1, <4>1 DEF DocFollows, ListAgrees
      <4>4. crawl.held = Content(d)
        BY <1>1, <1>11, <4>3
      <4> QED BY <4>2, <4>4
    <3> QED BY <3>1, <3>2
  <2> QED BY <1>2, <1>3, <1>4, <2>1, <2>2 DEF DocFollows
<1> QED BY <1>6, <1>7, <1>8, <1>9, <1>10, <1>11 DEF SearchInv

(* A list fails, or a document that was listed.                            *)
LEMMA CrawlFailsKeeps ==
  ASSUME SearchInv, CrawlFails PROVE SearchInv'
<1>1. /\ UNCHANGED <<table, aside, shown, pages, strayed>>
      /\ crawl' = IF crawl.at = "put" THEN [StepOn EXCEPT !.alone = FALSE] ELSE NoCrawl
  BY DEF CrawlFails
<1>2. CASE crawl.at # "put"
  BY <1>1, <1>2, CrawlStops
<1>3. CASE crawl.at = "put"
  <2>1. PICK s : s = StepOn
    OBVIOUS
  <2>2. PICK d : d = Head(crawl.todo)
    OBVIOUS
  <2>3. /\ IsCrawl(s) /\ s.at \in {"done", "names", "list"} /\ (s.at # "done" <=> s.todo # <<>>)
        /\ s.at = "list" => s.names # Unlisted
        /\ s.names \in {Unlisted, crawl.names}
        /\ \A i \in DOMAIN s.todo : \E j \in DOMAIN crawl.todo : crawl.todo[j] = s.todo[i]
    BY <1>3, <2>1, <2>2, Onwards
  <2>4. crawl' = [s EXCEPT !.alone = FALSE]
    BY <1>1, <1>3, <2>1
  <2>5. IsCrawl(crawl') /\ crawl'.at = s.at /\ crawl'.todo = s.todo /\ crawl'.names = s.names /\ ~ crawl'.alone
    BY <2>3, <2>4 DEF IsCrawl
  <2>6. WalkStands' /\ AloneIsFresh'
    BY <2>3, <2>5 DEF WalkStands, AloneIsFresh
  <2>7. NamesNow' = NamesNow
    BY <1>1 DEF NamesNow, Exists
  <2>8. ASSUME NEW e \in Docs \ strayed PROVE ListAgrees(e)' /\ NamesAgree(e)'
    <3>1. NamesAgree(e)
      BY DEF SearchInv, DocFollows
    <3> QED BY <2>3, <2>5, <2>7, <3>1 DEF ListAgrees, NamesAgree, StillAhead
  <2> QED BY <1>1, <2>5, <2>6, <2>8, CrawlerKeeps
<1> QED BY <1>2, <1>3

(* Every step counts what it spends.                                       *)
LEMMA SpentStep == SpentCounted /\ [SearchNext]_searchVars => SpentCounted'
<1> SUFFICES ASSUME SpentCounted, [SearchNext]_searchVars PROVE SpentCounted'
  OBVIOUS
<1>1. ASSUME spentS' = spentS \/ \E what \in {"edits", "faults", "crawls"} : \E most : SpendS(what, most)
      PROVE  SpentCounted'
  BY <1>1 DEF SpentCounted, SpendS
<1>2. ASSUME NEW p \in Pages, PageStep(p) PROVE SpentCounted'
  BY <1>1, <1>2 DEF PageStep, CommitRow, DeleteRow, SeedEntityAccounts, DeleteEntity, ReadBack, ReadBackFails,
                    KeepContext, UpsertDocument, UpsertFails, ForgetDocument
<1>3. CASE UpdateStatus
  BY <1>1, <1>3 DEF UpdateStatus
<1>4. CASE CrawlStep
  BY <1>1, <1>4 DEF CrawlStep, StartCrawl, ListAccounts, ListRows, PutListed, CrawlFails, FinishCrawl
<1>5. CASE UNCHANGED searchVars
  BY <1>1, <1>5 DEF searchVars
<1> QED BY <1>2, <1>3, <1>4, <1>5 DEF SearchNext

(* Every step of a request, the worker and the reindexer.                  *)
LEMMA SearchInvStep == SearchInv /\ SpentCounted /\ [SearchNext]_searchVars => SearchInv'
<1> SUFFICES ASSUME SearchInv, SpentCounted, [SearchNext]_searchVars PROVE SearchInv'
  OBVIOUS
<1>1. ASSUME NEW p \in Pages, PageStep(p) PROVE SearchInv'
  BY <1>1, CommitKeeps, DeleteRowKeeps, SeedKeeps, DeleteEntityKeeps, KeepContextKeeps, ReadBackKeeps, ReadBackFailsKeeps, DocUpsertKeeps, UpsertFailsKeeps, ForgetKeeps
     DEF PageStep
<1>2. CASE CrawlStep
  <2>1. CASE FinishCrawl
    BY <2>1, CrawlStops DEF FinishCrawl
  <2> QED BY <1>2, <2>1, StartKeeps, ListAccountsKeeps, ListRowsKeeps, PutListedKeeps, CrawlFailsKeeps
             DEF CrawlStep
<1>3. CASE UNCHANGED searchVars
  <2>1. UNCHANGED <<table, aside, shown, pages, strayed>> /\ crawl' = crawl /\ IsCrawl(crawl')
    BY <1>3, CrawlShape DEF searchVars
  <2>2. WalkStands'
    BY <2>1, CrawlShape DEF WalkStands
  <2>3. \A d \in Docs : ListAgrees(d)' = ListAgrees(d) /\ NamesAgree(d)' = NamesAgree(d)
    BY <2>1, ContentStays DEF ListAgrees, NamesAgree, NamesNow, Exists, StillAhead
  <2>4. \A d \in Docs \ strayed : ListAgrees(d)' /\ NamesAgree(d)'
    BY <2>3 DEF SearchInv, DocFollows
  <2>5. AloneIsFresh'
    <3>1. AloneIsFresh /\ NamesNow' = NamesNow /\ \A d \in Docs : Mended(d) = Mended(d)'
      BY <2>1, CrawlShape, ContentStays DEF NamesNow, Exists, Mended
    <3>2. \A d \in crawl.walked : d \in Docs
      BY CrawlShape DEF IsCrawl
    <3>3. ASSUME crawl.at = "put" PROVE LET d == Head(crawl.todo) IN InList(d)' = InList(d) /\ Listed(d)' = Listed(d)
      <4>1. Head(crawl.todo) \in Docs
        BY <3>3, CrawlShape, WalkTails
      <4> QED BY <2>1, <4>1, ContentStays
                 DEF InList, Listed, Exists, AccountDoc, TransactionDoc, MileageDoc
    <3> QED BY <2>1, <3>1, <3>2, <3>3 DEF AloneIsFresh
  <2> QED BY <2>1, <2>2, <2>4, <2>5, CrawlerKeeps
<1> QED BY <1>1, <1>2, <1>3, WorkerKeeps DEF SearchNext

(* No interleaving of requests, the worker and the reindexer leaves a      *)
(* document behind its row, but for a named cause.                         *)
THEOREM SearchFollows == SearchSpec => []SearchFollowsTable
<1>1. SearchInit => SpentCounted
  BY DEF SearchInit, SpentCounted
<1> QED BY <1>1, SpentStep, SearchInvInit, SearchInvStep, SearchInvFollows, PTL DEF SearchSpec

(* Types of the documents: a version is at most the writes so far.         *)
NotesTyped(x) ==
    /\ x.held \in SearchDoc
    /\ x.at \in {"wrote", "note"} => 0 <= x.held.beside /\ 1 <= MaxRowEdits

SearchTypes ==
    /\ spentS \in [edits : 0 .. MaxRowEdits, faults : Int, crawls : Int]
    /\ table \in [Tables -> -1 .. spentS.edits]
    /\ aside \in [{"receipt", "mileage"} -> 0 .. MaxRowEdits]
    /\ shown \in [Docs -> SearchDoc]
    /\ \A p \in Pages : NotesTyped(pages[p])
    /\ crawl.held \in SearchDoc /\ crawl.names \in -1 .. MaxRowEdits

(* The versions fit whatever the tables hold.                              *)
LEMMA VersionsFit ==
  ASSUME SearchTypes
  PROVE  /\ \A k \in Tables : table[k] \in Int /\ -1 <= table[k] /\ table[k] <= MaxRowEdits
         /\ \A k \in {"receipt", "mileage"} : aside[k] \in Int /\ 0 <= aside[k] /\ aside[k] <= MaxRowEdits
         /\ MaxRowEdits \in Nat /\ NoDoc \in SearchDoc
<1>1. MaxRowEdits \in Nat
  BY SearchConstants
<1>2. spentS.edits \in Int /\ 0 <= spentS.edits /\ spentS.edits <= MaxRowEdits
  BY <1>1 DEF SearchTypes
<1>3. \A k \in Tables : table[k] \in -1 .. spentS.edits
  BY DEF SearchTypes
<1>4. \A k \in {"receipt", "mileage"} : aside[k] \in 0 .. MaxRowEdits
  BY DEF SearchTypes
<1> QED BY <1>1, <1>2, <1>3, <1>4 DEF NoDoc, SearchDoc

(* So does what agrees with them.                                          *)
LEMMA ContentTyped ==
  ASSUME SearchTypes, NEW d \in Docs PROVE Content(d) \in SearchDoc
<1>1. \A a, b \in -1 .. MaxRowEdits : [own |-> a, beside |-> b] \in SearchDoc
  BY DEF SearchDoc
<1>2. /\ \A k \in Tables : table[k] \in -1 .. MaxRowEdits
      /\ \A k \in {"receipt", "mileage"} : aside[k] \in -1 .. MaxRowEdits
      /\ 0 \in -1 .. MaxRowEdits /\ NoDoc \in SearchDoc
  BY VersionsFit
<1>3. /\ "account" \in Tables /\ "transaction" \in Tables /\ "receipt" \in Tables
      /\ "statement" \in Tables /\ "mileage" \in Tables
  BY DEF Tables
<1>4. Exists("transaction") => 1 \in -1 .. MaxRowEdits
  BY <1>2, <1>3, VersionsFit DEF Exists
<1>5. d \in {"transaction", "posting"} => RowOf(d) = "transaction"
  BY DEF RowOf
<1>6. CASE d \in {"transaction", "posting"}
  BY <1>1, <1>2, <1>3, <1>4, <1>5, <1>6 DEF Content, TransactionDoc
<1>7. CASE d \notin {"transaction", "posting"}
  BY <1>1, <1>2, <1>3, <1>7 DEF Content, AccountDoc, ReceiptDoc, StatementDoc, MileageDoc
<1> QED BY <1>6, <1>7

(* Writing a document of this shape, and copying one, keeps the types.     *)
LEMMA CopiesTyped ==
  ASSUME SearchTypes, SearchShapes, UNCHANGED table,
         aside' \in [{"receipt", "mileage"} -> 0 .. MaxRowEdits],
         spentS' \in [edits : 0 .. MaxRowEdits, faults : Int, crawls : Int],
         spentS'.edits = spentS.edits,
         shown' = shown \/ \E d \in Docs, doc \in SearchDoc : shown' = [shown EXCEPT ![d] = doc],
         pages' = pages \/ \E p \in Pages : \E x : NotesTyped(x) /\ pages' = [pages EXCEPT ![p] = x],
         crawl'.held \in SearchDoc, crawl'.names \in -1 .. MaxRowEdits
  PROVE  SearchTypes'
<1>1. shown' \in [Docs -> SearchDoc]
  BY DEF SearchTypes
<1>2. \A p \in Pages : NotesTyped(pages'[p])
  BY DEF SearchTypes, SearchShapes
<1>3. \A p \in Pages : NotesTyped(pages[p])'
  BY <1>2 DEF NotesTyped, SearchDoc
<1> QED BY <1>1, <1>3 DEF SearchTypes, SearchDoc

(* A fault is counted, and nothing written.                                *)
LEMMA FaultCounted ==
  ASSUME SearchTypes, NEW what \in {"faults", "crawls"}, NEW most, SpendS(what, most)
  PROVE  /\ spentS' \in [edits : 0 .. MaxRowEdits, faults : Int, crawls : Int]
         /\ spentS'.edits = spentS.edits
BY DEF SearchTypes, SpendS

(* A write is counted, and was not one too many.                           *)
LEMMA EditCounted ==
  ASSUME SearchTypes, SpendS("edits", MaxRowEdits)
  PROVE  /\ spentS' \in [edits : 0 .. MaxRowEdits, faults : Int, crawls : Int]
         /\ spentS.edits \in Int /\ 0 <= spentS.edits /\ spentS'.edits = spentS.edits + 1
         /\ MaxRowEdits \in Nat /\ 1 <= MaxRowEdits
<1>1. MaxRowEdits \in Nat
  BY SearchConstants
<1> QED BY <1>1 DEF SearchTypes, SpendS

(* A disturbed reindexer keeps its notes.                                  *)
LEMMA DisturbedTyped ==
  ASSUME SearchTypes, SearchShapes, Disturb
  PROVE  crawl'.held \in SearchDoc /\ crawl'.names \in -1 .. MaxRowEdits
BY Disturbed DEF SearchTypes

(* A write to the tables is one edit more, and no version passes it.       *)
LEMMA RowWritesTyped ==
  ASSUME SearchTypes, SearchShapes, Disturb, SpendS("edits", MaxRowEdits),
         table' \in [Tables -> Int],
         \A k \in Tables : table'[k] \in {table[k], Dropped} \/ table'[k] = table[k] + 1,
         aside' \in [{"receipt", "mileage"} -> 0 .. MaxRowEdits],
         shown' = shown,
         pages' = pages \/ \E p \in Pages : \E x : NotesTyped(x) /\ pages' = [pages EXCEPT ![p] = x]
  PROVE  SearchTypes'
<1>1. /\ spentS' \in [edits : 0 .. MaxRowEdits, faults : Int, crawls : Int]
      /\ spentS.edits \in Int /\ 0 <= spentS.edits /\ spentS'.edits = spentS.edits + 1
  BY EditCounted
<1>2. PICK e \in Int : e = spentS.edits /\ 0 <= e
  BY <1>1
<1>3. \A k \in Tables : table'[k] \in -1 .. e + 1
  <2> SUFFICES ASSUME NEW k \in Tables PROVE table'[k] \in -1 .. e + 1
    OBVIOUS
  <2>1. table[k] \in -1 .. e
    BY <1>2 DEF SearchTypes
  <2> QED BY <2>1, <1>2 DEF Dropped
<1>4. \A p \in Pages : NotesTyped(pages'[p])
  BY DEF SearchTypes, SearchShapes
<1>5. \A p \in Pages : NotesTyped(pages[p])'
  BY <1>4 DEF NotesTyped, SearchDoc
<1>6. table' \in [Tables -> -1 .. e + 1]
  BY <1>3
<1>7. crawl'.held \in SearchDoc /\ crawl'.names \in -1 .. MaxRowEdits
  BY DisturbedTyped
<1>8. shown' \in [Docs -> SearchDoc]
  BY DEF SearchTypes
<1> QED BY <1>1, <1>2, <1>5, <1>6, <1>7, <1>8 DEF SearchTypes, SearchDoc

(* Requests that write to the tables.                                      *)
LEMMA RowCommitTyped ==
  ASSUME SearchTypes, SearchShapes, NEW p \in Pages, NEW k \in Tables, CommitRow(p, k)
  PROVE  SearchTypes'
<1>1. PICK note \in {0, spentS.edits + 1}, moved \in SUBSET {"receipt"} :
        /\ table' = [t \in Tables |->
               IF t \in moved \/ (t = k /\ ~(k = "receipt" /\ Exists(k))) THEN table[t] + 1 ELSE table[t]]
        /\ aside' = IF k = "receipt" /\ note # 0 THEN [aside EXCEPT ![k] = note] ELSE aside
        /\ pages' = [pages EXCEPT ![p] = [at |-> "wrote", kind |-> k,
                                          held |-> [own |-> IF Exists(k) THEN 0 ELSE 1, beside |-> note]]]
  BY DEF CommitRow
<1>2. Disturb /\ SpendS("edits", MaxRowEdits) /\ shown' = shown
  BY DEF CommitRow
<1>3. note \in 0 .. MaxRowEdits /\ 1 <= MaxRowEdits /\ MaxRowEdits \in Nat
  BY <1>1, <1>2, EditCounted DEF SpendS
<1>4. table' \in [Tables -> Int] /\ \A j \in Tables : table'[j] = table[j] \/ table'[j] = table[j] + 1
  BY <1>1, VersionsFit
<1>5. aside' \in [{"receipt", "mileage"} -> 0 .. MaxRowEdits]
  BY <1>1, <1>3 DEF SearchTypes
<1>6. [own |-> IF Exists(k) THEN 0 ELSE 1, beside |-> note] \in SearchDoc
  BY <1>3 DEF SearchDoc
<1>7. \E q \in Pages : \E x : NotesTyped(x) /\ pages' = [pages EXCEPT ![q] = x]
  <2> DEFINE x == [at |-> "wrote", kind |-> k, held |-> [own |-> IF Exists(k) THEN 0 ELSE 1, beside |-> note]]
  <2>1. x.held \in SearchDoc /\ 0 <= x.held.beside /\ pages' = [pages EXCEPT ![p] = x]
    BY <1>1, <1>3, <1>6
  <2> QED BY <1>3, <2>1 DEF NotesTyped
<1> QED BY <1>2, <1>4, <1>5, <1>7, RowWritesTyped

(* Accounts are seeded, or an entity deleted.                              *)
LEMMA EntityTyped ==
  ASSUME SearchTypes, SearchShapes, NEW p \in Pages, SeedEntityAccounts(p) \/ DeleteEntity(p)
  PROVE  SearchTypes'
<1>1. Disturb /\ SpendS("edits", MaxRowEdits) /\ shown' = shown /\ pages' = pages
  BY DEF SeedEntityAccounts, DeleteEntity
<1>2. table \in [Tables -> Int] /\ 0 \in 0 .. MaxRowEdits
  BY VersionsFit DEF SearchTypes
<1>3. /\ table' \in [Tables -> Int]
      /\ \A j \in Tables : table'[j] \in {table[j], Dropped} \/ table'[j] = table[j] + 1
  <2>1. CASE SeedEntityAccounts(p)
    <3>1. PICK k \in Tables : k = "account"
      BY DEF Tables
    <3>2. table[k] = 0 /\ table' = [table EXCEPT ![k] = 1]
      BY <2>1, <3>1 DEF SeedEntityAccounts, Unborn
    <3> QED BY <1>2, <3>2
  <2>2. CASE DeleteEntity(p)
    BY <2>2 DEF DeleteEntity, Dropped
  <2> QED BY <2>1, <2>2
<1>4. aside' \in [{"receipt", "mileage"} -> 0 .. MaxRowEdits]
  BY <1>2 DEF SeedEntityAccounts, DeleteEntity, SearchTypes
<1> QED BY <1>1, <1>3, <1>4, RowWritesTyped

(* A row is deleted, and the statements with their account.                *)
LEMMA DeleteRowTyped ==
  ASSUME SearchTypes, SearchShapes, NEW p \in Pages, NEW k \in Tables, DeleteRow(p, k)
  PROVE  SearchTypes'
<1>1. /\ Disturb /\ SpendS("edits", MaxRowEdits) /\ shown' = shown /\ aside' = aside
      /\ pages' = [pages EXCEPT ![p] = [at |-> "forget", kind |-> k, held |-> NoDoc]]
  BY DEF DeleteRow
<1>2. PICK gone : table' = [t \in Tables |-> IF t \in gone THEN Dropped ELSE table[t]]
  BY DEF DeleteRow
<1>3. table' \in [Tables -> Int] /\ \A j \in Tables : table'[j] \in {table[j], Dropped}
  BY <1>2, VersionsFit DEF Dropped
<1>4. \E q \in Pages : \E x : NotesTyped(x) /\ pages' = [pages EXCEPT ![q] = x]
  <2>1. NotesTyped([at |-> "forget", kind |-> k, held |-> NoDoc])
    BY VersionsFit DEF NotesTyped
  <2> QED BY <1>1, <2>1
<1>5. aside' \in [{"receipt", "mileage"} -> 0 .. MaxRowEdits]
  BY <1>1 DEF SearchTypes
<1> QED BY <1>1, <1>3, <1>4, <1>5, RowWritesTyped

(* A receipt's status is moved.                                            *)
LEMMA WorkerTyped ==
  ASSUME SearchTypes, SearchShapes, UpdateStatus PROVE SearchTypes'
<1>1. /\ Disturb /\ SpendS("edits", MaxRowEdits) /\ shown' = shown /\ aside' = aside /\ pages' = pages
      /\ table' = [table EXCEPT !["receipt"] = @ + 1]
  BY DEF UpdateStatus
<1>2. table \in [Tables -> Int]
  BY VersionsFit DEF SearchTypes
<1>3. PICK k \in Tables : k = "receipt"
  BY DEF Tables
<1>4. table' = [table EXCEPT ![k] = @ + 1]
  BY <1>1, <1>3
<1>5. table' \in [Tables -> Int] /\ \A j \in Tables : table'[j] = table[j] \/ table'[j] = table[j] + 1
  BY <1>2, <1>4
<1>6. aside' \in [{"receipt", "mileage"} -> 0 .. MaxRowEdits]
  BY <1>1 DEF SearchTypes
<1> QED BY <1>1, <1>5, <1>6, RowWritesTyped

(* A request that posted has spent an edit.                                *)
LEMMA PostsCounted ==
  ASSUME SearchTypes, NEW p \in Pages, Posts(p) PROVE 1 \in -1 .. MaxRowEdits
<1>1. NotesTyped(pages[p]) /\ pages[p].at = "wrote"
  BY DEF SearchTypes, Posts
<1>2. 1 <= MaxRowEdits
  BY <1>1 DEF NotesTyped
<1> QED BY <1>2, SearchConstants

(* Requests that read, and write documents.                                *)
LEMMA ReadBackTyped ==
  ASSUME SearchTypes, SearchInv, NEW p \in Pages, ReadBack(p) PROVE SearchTypes'
<1>0. PICK k, text : k = pages[p].kind /\ text = pages[p].held.beside
  OBVIOUS
<1>1. PICK doc : doc = IF Uploads(p) THEN ReceiptDoc(1)
                       ELSE IF Posts(p) THEN TransactionDoc(NamesNow)
                       ELSE IF k = "mileage" THEN MileageDoc(text)
                       ELSE Content(k)
  OBVIOUS
<1>2. SearchShapes /\ IsPage(pages[p]) /\ k \in Tables /\ k \in Docs
  BY <1>0, PageShape, RowKinds DEF SearchInv, IsPage
<1>3. PICK a \in {"note", "post", "show"} :
            a = IF Posts(p) THEN "post" ELSE IF k = "mileage" /\ text # 0 THEN "note" ELSE "show"
  OBVIOUS
<1>a. PICK goes \in BOOLEAN : goes = (Exists(k) \/ Uploads(p) \/ Posts(p))
  OBVIOUS
<1>4. /\ Disturb /\ pages[p].at = "wrote" /\ UNCHANGED <<table, aside, shown, spentS>>
      /\ pages' = [pages EXCEPT ![p] = IF goes THEN WithRow(pages[p], a, doc) ELSE FreePage]
  BY <1>0, <1>1, <1>2, <1>3, <1>a DEF ReadBack, SearchShapes, WithRow
<1>b. /\ \A i, j \in -1 .. MaxRowEdits : [own |-> i, beside |-> j] \in SearchDoc
      /\ \A j \in Tables : table[j] \in -1 .. MaxRowEdits
      /\ 0 \in -1 .. MaxRowEdits /\ aside["receipt"] \in -1 .. MaxRowEdits
      /\ text \in -1 .. MaxRowEdits /\ 0 <= text
  BY <1>0, <1>4, VersionsFit DEF SearchDoc, SearchTypes, NotesTyped
<1>5. doc \in SearchDoc
  <2>1. CASE Uploads(p)
    <3>1. 1 \in -1 .. MaxRowEdits
      <4>1. pages[p].held.own = 1 /\ pages[p].held \in SearchDoc
        BY <2>1 DEF Uploads, SearchTypes, NotesTyped
      <4> QED BY <4>1 DEF SearchDoc
    <3> QED BY <1>1, <1>b, <2>1, <3>1 DEF ReceiptDoc
  <2>2. CASE ~ Uploads(p) /\ Posts(p)
    <3>1. 1 \in -1 .. MaxRowEdits
      BY <2>2, PostsCounted
    <3>2. NamesNow \in -1 .. MaxRowEdits
      BY <1>b DEF NamesNow, Tables
    <3> QED BY <1>1, <1>b, <2>2, <3>1, <3>2 DEF TransactionDoc
  <2>3. CASE ~ Uploads(p) /\ ~ Posts(p) /\ k = "mileage"
    <3>1. table["mileage"] \in -1 .. MaxRowEdits
      BY <1>b DEF Tables
    <3> QED BY <1>1, <1>b, <2>3, <3>1 DEF MileageDoc
  <2> QED BY <1>1, <1>2, <2>1, <2>2, <2>3, ContentTyped
<1>6. PICK n : n = IF goes THEN WithRow(pages[p], a, doc) ELSE FreePage
  OBVIOUS
<1>7. NotesTyped(n)
  <2>1. doc \in AnyDoc
    BY <1>5 DEF SearchDoc, AnyDoc
  <2>2. CASE goes
    <3>1. n.held = doc /\ n.at = a
      BY <1>2, <1>6, <2>1, <2>2, HeldPage
    <3>2. a = "note" => doc.beside = text
      BY <1>1, <1>3, <1>4, <1>0 DEF MileageDoc, Uploads, Posts
    <3>3. a # "wrote"
      BY <1>3
    <3>4. 1 <= MaxRowEdits
      BY <1>4 DEF SearchTypes, NotesTyped
    <3> QED BY <1>5, <1>b, <3>1, <3>2, <3>3, <3>4 DEF NotesTyped
  <2>3. CASE ~ goes
    BY <1>6, <2>3, VersionsFit DEF FreePage, NotesTyped
  <2> QED BY <2>2, <2>3
<1>8. \E q \in Pages : \E x : NotesTyped(x) /\ pages' = [pages EXCEPT ![q] = x]
  BY <1>4, <1>6, <1>7
<1> QED BY <1>2, <1>4, <1>8, DisturbedTyped, CopiesTyped DEF SearchTypes

(* The context of a mileage row is written.                                *)
LEMMA KeepContextTyped ==
  ASSUME SearchTypes, SearchShapes, NEW p \in Pages, KeepContext(p) PROVE SearchTypes'
<1>1. /\ Disturb /\ pages[p].at = "note" /\ UNCHANGED <<table, shown>>
      /\ pages' = [pages EXCEPT ![p].at = "show"]
      /\ aside' = aside \/ aside' = [aside EXCEPT !["mileage"] = pages[p].held.beside]
      /\ spentS' = spentS \/ SpendS("faults", MaxSearchFaults)
  BY DEF KeepContext
<1>2. PICK x : x = [pages[p] EXCEPT !.at = "show"]
  OBVIOUS
<1>3. NotesTyped(pages[p]) /\ IsPage(pages[p])
  BY DEF SearchTypes, SearchShapes, IsPage
<1>4. NotesTyped(x) /\ pages' = [pages EXCEPT ![p] = x]
  BY <1>1, <1>2, <1>3 DEF NotesTyped, IsPage, SearchShapes
<1>5. pages[p].held.beside \in 0 .. MaxRowEdits
  BY <1>1, <1>3 DEF NotesTyped, SearchDoc
<1>6. aside' \in [{"receipt", "mileage"} -> 0 .. MaxRowEdits]
  BY <1>1, <1>5 DEF SearchTypes
<1>7. /\ spentS' \in [edits : 0 .. MaxRowEdits, faults : Int, crawls : Int]
      /\ spentS'.edits = spentS.edits
  BY <1>1, FaultCounted DEF SearchTypes
<1> QED BY <1>1, <1>4, <1>6, <1>7, DisturbedTyped, CopiesTyped

(* A read that fails leaves a transaction without names.                   *)
LEMMA ReadBackFailsTyped ==
  ASSUME SearchTypes, SearchShapes, NEW p \in Pages, ReadBackFails(p) PROVE SearchTypes'
<1>1. PICK a \in {"note", "post", "show"} : a = "post"
  OBVIOUS
<1>d. PICK doc : doc = TransactionDoc(0)
  OBVIOUS
<1>2. PICK bare \in BOOLEAN : bare = (pages[p].kind = "transaction")
  OBVIOUS
<1>3. PICK n : n = IF bare THEN WithRow(pages[p], a, doc) ELSE FreePage
  OBVIOUS
<1>4. /\ Disturb /\ SpendS("faults", MaxSearchFaults) /\ UNCHANGED <<table, aside, shown>>
      /\ pages' = [pages EXCEPT ![p] = n] /\ pages[p].at = "wrote"
  BY <1>1, <1>d, <1>2, <1>3 DEF ReadBackFails, SearchShapes, WithRow
<1>5. NotesTyped(n)
  <2>1. NotesTyped(pages[p]) /\ IsPage(pages[p])
    BY DEF SearchTypes, SearchShapes, IsPage
  <2>2. 1 \in -1 .. MaxRowEdits /\ 0 \in -1 .. MaxRowEdits
    BY <1>4, <2>1, SearchConstants DEF NotesTyped
  <2>3. doc \in SearchDoc /\ doc \in AnyDoc
    BY <1>d, <2>2 DEF TransactionDoc, SearchDoc, AnyDoc
  <2>4. CASE bare
    <3>1. n.held = doc /\ n.at = a
      BY <1>3, <2>1, <2>3, <2>4, HeldPage
    <3> QED BY <1>1, <2>3, <3>1 DEF NotesTyped
  <2>5. CASE ~ bare
    BY <1>3, <2>5, VersionsFit DEF FreePage, NotesTyped
  <2> QED BY <2>4, <2>5
<1>6. \E q \in Pages : \E x : NotesTyped(x) /\ pages' = [pages EXCEPT ![q] = x]
  BY <1>4, <1>5
<1>7. aside' \in [{"receipt", "mileage"} -> 0 .. MaxRowEdits]
  BY <1>4 DEF SearchTypes
<1>8. crawl'.held \in SearchDoc /\ crawl'.names \in -1 .. MaxRowEdits
  BY <1>4, DisturbedTyped
<1>9. /\ spentS' \in [edits : 0 .. MaxRowEdits, faults : Int, crawls : Int]
      /\ spentS'.edits = spentS.edits
  BY <1>4, FaultCounted
<1> QED BY <1>4, <1>6, <1>7, <1>8, <1>9, CopiesTyped

(* What a request holds after it wrote, or did not write, its document.    *)
LEMMA OnwardTyped ==
  ASSUME SearchTypes, SearchShapes, NEW p \in Pages, pages' = Onward(p) \/ pages' = [pages EXCEPT ![p] = FreePage]
  PROVE  \E q \in Pages : \E x : NotesTyped(x) /\ pages' = [pages EXCEPT ![q] = x]
<1>1. NotesTyped(FreePage)
  BY VersionsFit DEF FreePage, NotesTyped
<1>2. PICK shows : shows = [pages[p] EXCEPT !.at = "show"]
  OBVIOUS
<1>3. NotesTyped(shows)
  <2>1. shows.held = pages[p].held /\ shows.at = "show"
    BY <1>2 DEF SearchShapes
  <2> QED BY <2>1 DEF NotesTyped, SearchTypes
<1>4. CASE pages' = [pages EXCEPT ![p] = FreePage]
  BY <1>1, <1>4
<1>5. CASE pages' = Onward(p)
  <2>1. pages' = [pages EXCEPT ![p] = shows] \/ pages' = [pages EXCEPT ![p] = FreePage]
    BY <1>2, <1>5 DEF Onward, SearchShapes
  <2> QED BY <1>1, <1>3, <2>1
<1> QED BY <1>4, <1>5

(* A document is written or removed, or the server failed.                 *)
LEMMA UpsertTyped ==
  ASSUME SearchTypes, SearchShapes, NEW p \in Pages,
         UpsertDocument(p) \/ UpsertFails(p) \/ ForgetDocument(p)
  PROVE  SearchTypes'
<1>1. Disturb /\ UNCHANGED <<table, aside>>
  BY DEF UpsertDocument, UpsertFails, ForgetDocument
<1>2. \E q \in Pages : \E x : NotesTyped(x) /\ pages' = [pages EXCEPT ![q] = x]
  BY OnwardTyped DEF UpsertDocument, UpsertFails, ForgetDocument
<1>3. pages[p].held \in SearchDoc /\ NoDoc \in SearchDoc /\ pages[p].kind \in Docs /\ DocOf(p) \in Docs
  BY VersionsFit, RowKinds DEF SearchTypes, SearchShapes, DocOf, Docs, NotesTyped
<1>4. shown' = shown \/ \E d \in Docs, doc \in SearchDoc : shown' = [shown EXCEPT ![d] = doc]
  BY <1>3 DEF UpsertDocument, UpsertFails, ForgetDocument, Written
<1>5. spentS' = spentS \/ SpendS("faults", MaxSearchFaults)
  BY DEF UpsertDocument, UpsertFails, ForgetDocument
<1>6. /\ spentS' \in [edits : 0 .. MaxRowEdits, faults : Int, crawls : Int]
      /\ spentS'.edits = spentS.edits
  BY <1>5, FaultCounted DEF SearchTypes
<1>7. aside' \in [{"receipt", "mileage"} -> 0 .. MaxRowEdits]
  BY <1>1 DEF SearchTypes
<1>8. crawl'.held \in SearchDoc /\ crawl'.names \in -1 .. MaxRowEdits
  BY <1>1, DisturbedTyped
<1> QED BY <1>1, <1>2, <1>4, <1>6, <1>7, <1>8, CopiesTyped

(* The reindexer's steps.                                                  *)
LEMMA StepOnTyped ==
  ASSUME SearchTypes, NEW s, s = StepOn
  PROVE  s.held \in SearchDoc /\ s.names \in -1 .. MaxRowEdits
<1>1. s.held = NoDoc /\ s.names \in {Unlisted, crawl.names}
  BY DEF StepOn
<1>2. Unlisted \in -1 .. MaxRowEdits /\ NoDoc \in SearchDoc
  BY VersionsFit DEF Unlisted
<1> QED BY <1>1, <1>2 DEF SearchTypes

(* What is listed is a document.                                           *)
LEMMA ListedTyped ==
  ASSUME SearchTypes, NEW d \in Docs, InList(d) PROVE Listed(d) \in SearchDoc
<1>1. crawl.names \in -1 .. MaxRowEdits
  BY DEF SearchTypes
<1>2. /\ \A k \in Tables : table[k] \in -1 .. MaxRowEdits
      /\ 0 \in -1 .. MaxRowEdits
  BY VersionsFit
<1>3. /\ "account" \in Tables /\ "transaction" \in Tables /\ "mileage" \in Tables
  BY DEF Tables
<1>4. Content(d) \in SearchDoc
  BY ContentTyped
<1>5. \A a, b \in -1 .. MaxRowEdits : [own |-> a, beside |-> b] \in SearchDoc
  BY DEF SearchDoc
<1>6. [AccountDoc EXCEPT !.own = crawl.names] = [own |-> crawl.names, beside |-> 0]
  BY DEF AccountDoc
<1>7. d \in {"transaction", "posting"} => 1 \in -1 .. MaxRowEdits
  BY <1>3, VersionsFit DEF InList, Exists, RowOf
<1>8. CASE d \in {"transaction", "posting"}
  BY <1>1, <1>5, <1>7, <1>8 DEF Listed, TransactionDoc
<1>9. CASE d \notin {"transaction", "posting"}
  BY <1>1, <1>2, <1>3, <1>4, <1>5, <1>6, <1>9 DEF Listed, MileageDoc
<1> QED BY <1>8, <1>9

(* The reindexer's steps keep the types.                                   *)
LEMMA CrawlTyped ==
  ASSUME SearchTypes, SearchInv, CrawlStep PROVE SearchTypes'
<1>1. UNCHANGED <<table, aside, pages>> /\ SearchShapes
  BY DEF CrawlStep, StartCrawl, ListAccounts, ListRows, PutListed, CrawlFails, FinishCrawl, SearchInv
<1>2. spentS' = spentS \/ SpendS("faults", MaxSearchFaults) \/ SpendS("crawls", MaxCrawls)
  BY DEF CrawlStep, StartCrawl, ListAccounts, ListRows, PutListed, CrawlFails, FinishCrawl
<1>3. /\ spentS' \in [edits : 0 .. MaxRowEdits, faults : Int, crawls : Int]
      /\ spentS'.edits = spentS.edits
  BY <1>2, FaultCounted DEF SearchTypes
<1>4. ASSUME crawl.at \in {"list", "put"} PROVE Head(crawl.todo) \in Docs
  BY <1>4, CrawlShape, WalkTails
<1>5. shown' = shown \/ \E d \in Docs, doc \in SearchDoc : shown' = [shown EXCEPT ![d] = doc]
  <2>1. CASE PutListed
    BY <1>4, <2>1 DEF PutListed, SearchTypes
  <2> QED BY <2>1 DEF CrawlStep, StartCrawl, ListAccounts, ListRows, CrawlFails, FinishCrawl
<1>6. crawl'.held \in SearchDoc /\ crawl'.names \in -1 .. MaxRowEdits
  <2>1. /\ NoDoc \in SearchDoc /\ Unlisted \in -1 .. MaxRowEdits
        /\ crawl.held \in SearchDoc /\ crawl.names \in -1 .. MaxRowEdits /\ IsCrawl(crawl)
    BY VersionsFit, CrawlShape DEF Unlisted, SearchTypes
  <2>2. CASE StartCrawl
    BY <2>1, <2>2 DEF StartCrawl
  <2>3. CASE ListAccounts
    <3>1. PICK n : n = NamesNow
      OBVIOUS
    <3>2. n \in -1 .. MaxRowEdits
      BY <3>1, VersionsFit DEF Tables, NamesNow
    <3>3. crawl' = [crawl EXCEPT !.at = "list", !.names = n]
      BY <2>3, <3>1 DEF ListAccounts
    <3> QED BY <2>1, <3>2, <3>3 DEF IsCrawl
  <2>4. CASE ListRows
    <3>1. PICK doc : doc = Listed(Head(crawl.todo))
      OBVIOUS
    <3>2. InList(Head(crawl.todo)) => doc \in SearchDoc
      BY <1>4, <2>4, <3>1, ListedTyped DEF ListRows
    <3>3. \/ InList(Head(crawl.todo)) /\ crawl' = [crawl EXCEPT !.at = "put", !.held = doc]
          \/ crawl' = StepOn
      BY <2>4, <3>1 DEF ListRows
    <3>4. CASE InList(Head(crawl.todo)) /\ crawl' = [crawl EXCEPT !.at = "put", !.held = doc]
      BY <2>1, <3>2, <3>4 DEF IsCrawl
    <3> QED BY <3>3, <3>4, StepOnTyped
  <2>5. CASE PutListed
    BY <2>5, StepOnTyped DEF PutListed
  <2>6. CASE CrawlFails
    <3>1. PICK s : s = StepOn
      OBVIOUS
    <3>2. s.held \in SearchDoc /\ s.names \in -1 .. MaxRowEdits
      BY <3>1, StepOnTyped
    <3>3. s = [at |-> s.at, todo |-> s.todo, walked |-> s.walked, names |-> s.names, held |-> s.held,
               alone |-> s.alone]
      BY <3>1 DEF StepOn
    <3>4. crawl' = [s EXCEPT !.alone = FALSE] \/ crawl' = NoCrawl
      BY <2>6, <3>1 DEF CrawlFails
    <3> QED BY <2>1, <3>2, <3>3, <3>4 DEF NoCrawl
  <2>7. CASE FinishCrawl
    BY <2>1, <2>7 DEF FinishCrawl, NoCrawl
  <2> QED BY <2>2, <2>3, <2>4, <2>5, <2>6, <2>7 DEF CrawlStep
<1>7. aside' \in [{"receipt", "mileage"} -> 0 .. MaxRowEdits]
  BY <1>1 DEF SearchTypes
<1> QED BY <1>1, <1>3, <1>5, <1>6, <1>7, CopiesTyped

(* At first nothing is written.                                            *)
LEMMA SearchTypesInit == SearchInit => SearchTypes
<1>1. MaxRowEdits \in Nat
  BY SearchConstants
<1>2. NoDoc \in SearchDoc
  BY <1>1 DEF NoDoc, SearchDoc
<1> QED BY <1>1, <1>2 DEF SearchInit, SearchTypes, NotesTyped, FreePage, NoCrawl, Unborn, Unlisted

(* Every step of a request, the worker and the reindexer keeps the types.  *)
LEMMA SearchTypesStep == SearchTypes /\ SearchInv /\ [SearchNext]_searchVars => SearchTypes'
<1> SUFFICES ASSUME SearchTypes, SearchInv, [SearchNext]_searchVars PROVE SearchTypes'
  OBVIOUS
<1>1. SearchShapes
  BY DEF SearchInv
<1>2. ASSUME NEW p \in Pages, PageStep(p) PROVE SearchTypes'
  BY <1>1, <1>2, RowCommitTyped, DeleteRowTyped, EntityTyped, ReadBackTyped, ReadBackFailsTyped,
     KeepContextTyped, UpsertTyped DEF PageStep
<1>3. CASE UNCHANGED searchVars
  BY <1>3 DEF searchVars, SearchTypes, SearchDoc
<1> QED BY <1>1, <1>2, <1>3, WorkerTyped, CrawlTyped DEF SearchNext

(* No version passes the number of writes, whatever is copied, listed or   *)
(* written late.                                                           *)
THEOREM SearchTypesHold == SearchSpec => []SearchTypeOK
<1>1. SearchTypes /\ SearchInv => SearchTypeOK
  <2> SUFFICES ASSUME SearchTypes, SearchInv PROVE SearchTypeOK
    OBVIOUS
  <2>1. table \in [Tables -> -1 .. MaxRowEdits] /\ aside \in [{"receipt", "mileage"} -> 0 .. MaxRowEdits]
    <3>1. table = [k \in Tables |-> table[k]] /\ aside = [k \in {"receipt", "mileage"} |-> aside[k]]
      BY DEF SearchTypes
    <3> QED BY <3>1, VersionsFit
  <2>2. pages \in [Pages -> [at : {"free", "wrote", "note", "post", "show", "forget"}, kind : Tables, held : SearchDoc]]
    BY DEF SearchTypes, SearchInv, SearchShapes, NotesTyped
  <2> QED BY <2>1, <2>2 DEF SearchTypes, SearchInv, SearchShapes, SearchTypeOK
<1>2. SearchInit => SpentCounted
  BY DEF SearchInit, SpentCounted
<1> QED BY <1>1, <1>2, SpentStep, SearchInvInit, SearchInvStep, SearchTypesInit, SearchTypesStep, PTL DEF SearchSpec
=============================================================================
