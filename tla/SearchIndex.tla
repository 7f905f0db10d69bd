------------------------------ MODULE SearchIndex ------------------------------
(***************************************************************************)
(* The search collections beside the tables.  A handler commits its row,   *)
(* reads it back and writes the row's document from what it read; nothing  *)
(* ties the two stores together, and a failed write to the search server   *)
(* is only logged.  A reindexer walks the tables from time to time and     *)
(* writes every document again, but removes none.                          *)
(*                                                                         *)
(* One row of every kind stands for its table.  A document shows the row's *)
(* version and what it shows of other tables: the account's name on        *)
(* transactions and statements, the tags of a receipt, the suggestion      *)
(* context of a mileage row.  Vendors have a module of their own.          *)
(***************************************************************************)
EXTENDS Integers, Sequences, FiniteSets

CONSTANTS
    Pages,              \* requests served at the same time
    MaxRowEdits,        \* writes to the tables in a behaviour
    MaxSearchFaults,    \* reads and calls that fail in a behaviour
    MaxCrawls           \* runs of the reindexer in a behaviour

ASSUME SearchConstants == MaxRowEdits \in Nat

VARIABLES
    table,      \* the version of every kind's row
    aside,      \* the tags of the receipt and the context of the mileage row
    shown,      \* the documents
    pages,      \* the requests
    crawl,      \* the reindexer
    strayed,    \* history: documents that may differ, each for a named cause
    spentS      \* history: writes, faults and reindexer runs so far

searchVars == <<table, aside, shown, pages, crawl, strayed, spentS>>

Tables == {"account", "transaction", "receipt", "statement", "mileage"}

(* The global collection has a document of every kind; transactions are in *)
(* a collection of their own as well, here "posting".                      *)
Docs == Tables \cup {"posting"}

RowOf(d) == IF d = "posting" THEN "transaction" ELSE d

DocsOf(k) == {d \in Docs : RowOf(d) = k}

Unborn  == 0
Dropped == -1

Exists(k) == table[k] > 0

(* The accounts' names, as a list of the accounts has them.                *)
NamesNow == IF Exists("account") THEN table["account"] ELSE 0

NoDoc == [own |-> 0, beside |-> 0]

(* What the documents show: an account its own row; a transaction and its  *)
(* posting, which never change, the names of the accounts given; a receipt *)
(* its tags, and the status given; a statement its account's name; a       *)
(* mileage row the context given.                                          *)
AccountDoc              == [own |-> table["account"],     beside |-> 0]
TransactionDoc(names)   == [own |-> 1,                    beside |-> names]
ReceiptDoc(status)      == [own |-> status,               beside |-> aside["receipt"]]
StatementDoc            == [own |-> table["statement"],   beside |-> table["account"]]
MileageDoc(context)     == [own |-> table["mileage"],     beside |-> context]

(* The document that agrees with the tables.                               *)
Content(d) ==
    IF ~Exists(RowOf(d)) THEN NoDoc
    ELSE IF d = "account" THEN AccountDoc
    ELSE IF d \in {"transaction", "posting"} THEN TransactionDoc(table["account"])
    ELSE IF d = "receipt" THEN ReceiptDoc(table["receipt"])
    ELSE IF d = "statement" THEN StatementDoc
    ELSE MileageDoc(aside["mileage"])

FreePage == [at |-> "free", kind |-> "account", held |-> NoDoc]
(* The reindexer has not listed the accounts yet.                          *)
Unlisted == -1

NoCrawl  == [at |-> "off", todo |-> <<>>, walked |-> {}, names |-> Unlisted, held |-> NoDoc, alone |-> TRUE]

SearchInit ==
    /\ table = [k \in Tables |-> Unborn]
    /\ aside = [k \in {"receipt", "mileage"} |-> 0]
    /\ shown = [d \in Docs |-> NoDoc]
    /\ pages = [p \in Pages |-> FreePage]
    /\ crawl = NoCrawl
    /\ strayed = {}
    /\ spentS = [edits |-> 0, faults |-> 0, crawls |-> 0]

SpendS(what, most) ==
    /\ spentS[what] < most
    /\ spentS' = [spentS EXCEPT ![what] = @ + 1]

-----------------------------------------------------------------------------
(* Who will still write a document from a copy taken earlier.              *)

Uploads(p) == pages[p].at = "wrote" /\ pages[p].kind = "receipt" /\ pages[p].held.own = 1
Posts(p)   == pages[p].at = "wrote" /\ pages[p].kind = "transaction"

PageHolds(p, d) ==
    /\ pages[p].kind = RowOf(d)
    /\ pages[p].at \in {"note", "post", "show"} \/ Uploads(p) \/ Posts(p)

CrawlHolds(d) ==
    \/ crawl.at = "put" /\ Head(crawl.todo) = d
    \/ /\ crawl.names # Unlisted /\ d \in {"account", "transaction", "posting"}
       /\ \E i \in DOMAIN crawl.todo : crawl.todo[i] = d

HeldElsewhere(p, d) == CrawlHolds(d) \/ \E q \in Pages \ {p} : PageHolds(q, d)

(* A write to row k by p leaves behind the copies others hold of it, and,  *)
(* when it renames the account, the names on other documents.              *)
Overtaken(p, k) ==
    {d \in DocsOf(k) : HeldElsewhere(p, d)} \cup
    (IF k = "account" THEN {d \in Docs : RowOf(d) \in {"transaction", "statement"} /\
                                           (Exists(RowOf(d)) \/ HeldElsewhere(p, d))}
                      ELSE {})

(* While a request works the reindexer is not alone.                       *)
Disturb == crawl' = [crawl EXCEPT !.alone = FALSE]

(* A document is no longer strayed once it is written as the tables have   *)
(* it and nobody holds an older copy.                                      *)
Written(d, doc, others) ==
    /\ shown' = [shown EXCEPT ![d] = doc]
    /\ strayed' = IF doc = Content(d) /\ ~others THEN strayed \ {d} ELSE strayed

-----------------------------------------------------------------------------
(* Requests.                                                               *)

(* Creating or changing a row commits first.  A transaction is posted once *)
(* and never changed; it and a statement need their account.  Posting with *)
(* a receipt moves the receipt's status in the same commit, and indexes    *)
(* the transaction alone.  A receipt is changed in its tags only; the      *)
(* context of a mileage row is written later, on its own.  Tags and        *)
(* contexts go by the number of the edit that brought them.                *)
CommitRow(p, k) ==
    /\ pages[p].at = "free" /\ table[k] # Dropped
    /\ k \in {"transaction", "statement"} => Exists("account")
    /\ k = "transaction" => table[k] = Unborn
    /\ SpendS("edits", MaxRowEdits)
    /\ \E note \in {0, spentS.edits + 1}, moved \in SUBSET {"receipt"} :
        /\ note # 0 => k \in {"receipt", "mileage"}
        /\ k = "receipt" /\ Exists(k) => note # 0
        /\ moved # {} => k = "transaction" /\ Exists("receipt")
        /\ table' = [t \in Tables |->
               IF t \in moved \/ (t = k /\ ~(k = "receipt" /\ Exists(k))) THEN table[t] + 1 ELSE table[t]]
        /\ aside' = IF k = "receipt" /\ note # 0 THEN [aside EXCEPT ![k] = note] ELSE aside
        /\ pages' = [pages EXCEPT ![p] = [at |-> "wrote", kind |-> k,
                                          held |-> [own |-> IF Exists(k) THEN 0 ELSE 1, beside |-> note]]]
        /\ strayed' = strayed \cup moved \cup Overtaken(p, k)
    /\ Disturb /\ UNCHANGED shown

(* The accounts a new entity starts with are inserted and never indexed.   *)
SeedEntityAccounts(p) ==
    /\ pages[p].at = "free" /\ table["account"] = Unborn
    /\ SpendS("edits", MaxRowEdits)
    /\ table' = [table EXCEPT !["account"] = 1]
    /\ strayed' = strayed \cup {"account"} \cup Overtaken(p, "account")
    /\ Disturb /\ UNCHANGED <<aside, shown, pages>>

(* The handler reads the row back.  A new receipt is shown as it was       *)
(* stored, with the tags it has now; a transaction is not read again, only *)
(* the names of its accounts; and a mileage row is shown with the context  *)
(* of the request, which may leave it out though the row has one.          *)
ReadBack(p) ==
    LET k    == pages[p].kind
        text == pages[p].held.beside
        doc  == IF Uploads(p) THEN ReceiptDoc(1)
                ELSE IF Posts(p) THEN TransactionDoc(NamesNow)
                ELSE IF k = "mileage" THEN MileageDoc(text)
                ELSE Content(k)
        next == IF Posts(p) THEN "post" ELSE IF k = "mileage" /\ text # 0 THEN "note" ELSE "show" IN
    /\ pages[p].at = "wrote"
    /\ pages' = [pages EXCEPT ![p] =
           IF Exists(k) \/ Uploads(p) \/ Posts(p) THEN [@ EXCEPT !.at = next, !.held = doc] ELSE FreePage]
    /\ strayed' = IF next = "show" /\ k = "mileage" /\ Exists(k) /\ aside[k] # 0 THEN strayed \cup {k}
                  ELSE strayed
    /\ Disturb /\ UNCHANGED <<table, aside, shown, spentS>>

(* When the read fails the handler answers without indexing, except for a  *)
(* transaction, whose documents are written without account names.         *)
ReadBackFails(p) ==
    /\ pages[p].at = "wrote" /\ SpendS("faults", MaxSearchFaults)
    /\ pages' = [pages EXCEPT ![p] =
           IF pages[p].kind = "transaction"
           THEN [@ EXCEPT !.at = "post", !.held = TransactionDoc(0)]
           ELSE FreePage]
    /\ strayed' = strayed \cup DocsOf(pages[p].kind)
    /\ Disturb /\ UNCHANGED <<table, aside, shown>>

(* The context is written after the row, and what comes of that is not     *)
(* looked at: with the row gone, or the write lost, the document has it    *)
(* and the table has not.                                                  *)
KeepContext(p) ==
    /\ pages[p].at = "note"
    /\ \/ /\ Exists("mileage") /\ UNCHANGED spentS
          /\ aside' = [aside EXCEPT !["mileage"] = pages[p].held.beside]
          /\ strayed' = IF HeldElsewhere(p, "mileage") THEN strayed \cup {"mileage"} ELSE strayed
       \/ /\ IF Exists("mileage") THEN SpendS("faults", MaxSearchFaults) ELSE UNCHANGED spentS
          /\ strayed' = strayed \cup {"mileage"} /\ UNCHANGED aside
    /\ pages' = [pages EXCEPT ![p].at = "show"]
    /\ Disturb /\ UNCHANGED <<table, shown>>

(* The document is written: a transaction's in its own collection first.   *)
DocOf(p) == IF pages[p].at = "post" THEN "posting" ELSE pages[p].kind

Onward(p) == [pages EXCEPT ![p] = IF @.at = "post" THEN [@ EXCEPT !.at = "show"] ELSE FreePage]

UpsertDocument(p) ==
    /\ pages[p].at \in {"post", "show"}
    /\ Written(DocOf(p), pages[p].held, HeldElsewhere(p, DocOf(p)))
    /\ pages' = Onward(p)
    /\ Disturb /\ UNCHANGED <<table, aside, spentS>>

UpsertFails(p) ==
    /\ pages[p].at \in {"post", "show"} /\ SpendS("faults", MaxSearchFaults)
    /\ strayed' = strayed \cup {DocOf(p)}
    /\ pages' = Onward(p)
    /\ Disturb /\ UNCHANGED <<table, aside, shown>>

(* A slip: the row goes and its document stays.                            *)
DeleteRowOnly(p, k) ==
    /\ pages[p].at = "free" /\ k \in {"account", "mileage"} /\ Exists(k)
    /\ k = "account" => ~Exists("transaction")
    /\ table' = [table EXCEPT ![k] = Dropped]
    /\ UNCHANGED <<aside, shown, pages, crawl, strayed, spentS>>

(* Deleting an account that has no journal line takes its statements with  *)
(* it, whose documents nobody removes.                                     *)
DeleteRow(p, k) ==
    /\ pages[p].at = "free" /\ k \in {"account", "mileage"} /\ Exists(k)
    /\ k = "account" => ~Exists("transaction")
    /\ SpendS("edits", MaxRowEdits)
    /\ LET cascade == IF k = "account" /\ Exists("statement") THEN {"statement"} ELSE {} IN
       /\ table' = [t \in Tables |-> IF t \in cascade \cup {k} THEN Dropped ELSE table[t]]
       /\ strayed' = strayed \cup cascade \cup Overtaken(p, k)
    /\ pages' = [pages EXCEPT ![p] = [at |-> "forget", kind |-> k, held |-> NoDoc]]
    /\ Disturb /\ UNCHANGED <<aside, shown>>

ForgetDocument(p) ==
    /\ pages[p].at = "forget"
    /\ \/ Written(pages[p].kind, NoDoc, HeldElsewhere(p, pages[p].kind)) /\ UNCHANGED spentS
       \/ SpendS("faults", MaxSearchFaults) /\ strayed' = strayed \cup {pages[p].kind} /\ UNCHANGED shown
    /\ pages' = [pages EXCEPT ![p] = FreePage]
    /\ Disturb /\ UNCHANGED <<table, aside>>

(* Deleting an entity takes every row of it, and no document.              *)
DeleteEntity(p) ==
    /\ pages[p].at = "free" /\ \E k \in Tables : Exists(k)
    /\ SpendS("edits", MaxRowEdits)
    /\ table' = [k \in Tables |-> Dropped] /\ aside' = [k \in {"receipt", "mileage"} |-> 0]
    /\ strayed' = strayed \cup {d \in Docs : Exists(RowOf(d)) \/ HeldElsewhere(p, d)}
    /\ Disturb /\ UNCHANGED <<shown, pages>>

(* A receipt's status is moved by the worker and by a request that reruns  *)
(* a stage; neither indexes it.                                            *)
UpdateStatus ==
    /\ Exists("receipt") /\ SpendS("edits", MaxRowEdits)
    /\ table' = [table EXCEPT !["receipt"] = @ + 1]
    /\ strayed' = strayed \cup {"receipt"}
    /\ Disturb /\ UNCHANGED <<aside, shown, pages>>

-----------------------------------------------------------------------------
(* The reindexer.                                                          *)

DocumentWalk == <<"account", "transaction", "receipt", "statement", "mileage">>

(* The two routes reindex transactions or documents, the task both.        *)
StartCrawl ==
    /\ crawl.at = "off" /\ SpendS("crawls", MaxCrawls)
    /\ \E walk \in {<<"posting">>, DocumentWalk, <<"posting">> \o DocumentWalk} :
        crawl' = [at |-> "names", todo |-> walk, walked |-> {}, names |-> Unlisted, held |-> NoDoc,
                  alone |-> \A p \in Pages : pages[p].at = "free"]
    /\ UNCHANGED <<table, aside, shown, pages, strayed>>

(* The rest of the walk after the head of todo.                            *)
StepOn ==
    LET d == Head(crawl.todo) IN
    [at     |-> IF Len(crawl.todo) = 1 THEN "done" ELSE IF d = "posting" THEN "names" ELSE "list",
     todo   |-> Tail(crawl.todo),
     walked |-> crawl.walked \cup {d},
     names  |-> IF d = "posting" THEN Unlisted ELSE crawl.names,
     held   |-> NoDoc,
     alone  |-> crawl.alone]

(* Either half lists the accounts first, and keeps their names.            *)
ListAccounts ==
    /\ crawl.at = "names"
    /\ crawl' = [crawl EXCEPT !.at = "list", !.names = NamesNow]
    /\ UNCHANGED <<table, aside, shown, pages, strayed, spentS>>

(* A listed mileage row comes without its context.                         *)
Listed(d) ==
    IF d = "account" THEN [AccountDoc EXCEPT !.own = crawl.names]
    ELSE IF d \in {"posting", "transaction"} THEN TransactionDoc(crawl.names)
    ELSE IF d = "mileage" THEN MileageDoc(0)
    ELSE Content(d)

InList(d) == IF d = "account" THEN crawl.names > 0 ELSE Exists(RowOf(d))

ListRows ==
    /\ crawl.at = "list"
    /\ crawl' = IF InList(Head(crawl.todo))
                THEN [crawl EXCEPT !.at = "put", !.held = Listed(Head(crawl.todo))]
                ELSE StepOn
    /\ UNCHANGED <<table, aside, shown, pages, strayed, spentS>>

PutListed ==
    LET d == Head(crawl.todo) IN
    /\ crawl.at = "put"
    /\ shown' = [shown EXCEPT ![d] = crawl.held]
    /\ strayed' = IF crawl.held = Content(d) /\ ~\E p \in Pages : PageHolds(p, d) THEN strayed \ {d}
                  ELSE IF d = "mileage" /\ aside[d] # 0 THEN strayed \cup {d}
                  ELSE strayed
    /\ crawl' = StepOn
    /\ UNCHANGED <<table, aside, pages, spentS>>

(* A list that fails ends the run; a document that fails is counted and    *)
(* passed over.                                                            *)
CrawlFails ==
    /\ crawl.at \in {"names", "list", "put"} /\ SpendS("faults", MaxSearchFaults)
    /\ crawl' = IF crawl.at = "put" THEN [StepOn EXCEPT !.alone = FALSE] ELSE NoCrawl
    /\ UNCHANGED <<table, aside, shown, pages, strayed>>

FinishCrawl ==
    /\ crawl.at = "done" /\ crawl' = NoCrawl
    /\ UNCHANGED <<table, aside, shown, pages, strayed, spentS>>

-----------------------------------------------------------------------------
PageStep(p) ==
    \/ \E k \in Tables : CommitRow(p, k) \/ DeleteRow(p, k)
    \/ SeedEntityAccounts(p) \/ DeleteEntity(p)
    \/ ReadBack(p) \/ ReadBackFails(p) \/ KeepContext(p)
    \/ UpsertDocument(p) \/ UpsertFails(p) \/ ForgetDocument(p)

CrawlStep == StartCrawl \/ ListAccounts \/ ListRows \/ PutListed \/ CrawlFails \/ FinishCrawl

SearchNext == (\E p \in Pages : PageStep(p)) \/ UpdateStatus \/ CrawlStep

SearchSpec == SearchInit /\ [][SearchNext]_searchVars

-----------------------------------------------------------------------------
SearchDoc == [own : -1 .. MaxRowEdits, beside : -1 .. MaxRowEdits]

SearchTypeOK ==
    /\ table \in [Tables -> -1 .. MaxRowEdits]
    /\ aside \in [{"receipt", "mileage"} -> 0 .. MaxRowEdits]
    /\ shown \in [Docs -> SearchDoc]
    /\ pages \in [Pages -> [at : {"free", "wrote", "note", "post", "show", "forget"}, kind : Tables, held : SearchDoc]]
    /\ crawl.at \in {"off", "names", "list", "put", "done"} /\ crawl.held \in SearchDoc
    /\ strayed \subseteq Docs

(* Once every request and the reindexer are done a document agrees with    *)
(* its row, and there is none without a row, unless one of these befell    *)
(* it: a read, a call or the write of a context failed; another write      *)
(* overtook the copy it was made from; its account was renamed; the        *)
(* receipt's status was moved by the worker, by a rerun or by posting with *)
(* it; the account was seeded; the statement went with its account, or any *)
(* row with its entity; or the context of a mileage row was left out.  And *)
(* a reindex that nobody disturbed has mended every document of a row it   *)
(* walked, but for that context.                                           *)
SearchFollowsTable ==
    /\ (crawl.at = "off" /\ \A p \in Pages : pages[p].at = "free") =>
           \A d \in Docs \ strayed : shown[d] = Content(d)
    /\ (crawl.at = "done" /\ crawl.alone) =>
           \A d \in crawl.walked : Exists(RowOf(d)) =>
               IF d = "mileage" THEN shown[d].own = table[d] ELSE shown[d] = Content(d)
=============================================================================
