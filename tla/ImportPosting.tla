---------------------------- MODULE ImportPosting ---------------------------
(***************************************************************************)
(* The rows of one import: the worker replaces them, the reviewer maps and *)
(* posts them.  Posting a row (internal/http/imports.go, postImportRow) is *)
(* two database transactions: the journal entry, then the mark on the row. *)
(***************************************************************************)
EXTENDS Integers

CONSTANTS
    Posters,      \* requests posting rows side by side
    Indexes,      \* row_index
    Amounts,      \* amount_cents of parsed rows
    Accounts,
    NoAccount,
    NoRow,
    MaxReplaces,  \* bound of the model: suggest runs of the import
    MaxPosts,     \* bound of the model: transactions ever created
    MaxFaults     \* bound of the model: failures and crashes

ASSUME ImportConstants ==
    /\ Indexes \subseteq Nat
    /\ Amounts \subseteq Int
    /\ NoAccount \notin Accounts
    /\ MaxReplaces \in Nat /\ MaxPosts \in Nat /\ MaxFaults \in Nat

VARIABLES
    rows,      \* import_rows by row_index
    journal,   \* transactions created for import rows
    pc, todo, posting,  \* a request's place, rows still to post, transaction
    replaces, created, faults,  \* counts (bounds)
    reported,  \* history: transactions a client was told are posted
    strays,    \* history: transactions whose mark failed or was never made
    touched    \* history: rows written once posted, or mapped or rewritten in
               \* place while a request that has read them was posting them

table == <<rows, journal>>
local == <<pc, todo, posting>>
count == <<replaces, created, faults>>
vars  == <<table, local, count, reported, strays, touched>>

(* id tells a row from the one that has replaced it; txn 0 is NULL.        *)
Rows ==
    [index : Indexes, id : 1 .. MaxReplaces, amount : Amounts,
     account : Accounts \cup {NoAccount},
     status : {"needs_review", "mapped", "posted"}, txn : 0 .. MaxPosts]

ASSUME NoRowAssumption == NoRow \notin Rows

Transactions ==
    [number : 1 .. MaxPosts, index : Indexes, amount : Amounts, account : Accounts]

Parsed == [amount : Amounts, account : Accounts \cup {NoAccount}]

Init ==
    /\ rows = [i \in Indexes |-> NoRow]
    /\ journal = {}
    /\ pc = [p \in Posters |-> "idle"]
    /\ todo = [p \in Posters |-> {}]
    /\ posting = [p \in Posters |-> 0]
    /\ replaces = 0
    /\ created = 0
    /\ faults = 0
    /\ reported = {}
    /\ strays = {}
    /\ touched = {}

Fault == faults < MaxFaults /\ faults' = faults + 1

Posted(r) == r # NoRow /\ r.txn # 0

-----------------------------------------------------------------------------
(* A slip: the default status is left to nobody.                           *)
InsertedBare(i, new) ==
    [index |-> i, id |-> replaces + 1, amount |-> new.amount, account |-> new.account,
     status |-> "", txn |-> 0]

(* A row the parser brings anew, mapped if a rule knows its vendor.        *)
Inserted(i, new) ==
    [index |-> i, id |-> replaces + 1, amount |-> new.amount, account |-> new.account,
     status |-> IF new.account = NoAccount THEN "needs_review" ELSE "mapped", txn |-> 0]

(* A DELETE lets a row stand: it is posted, or its run committed only      *)
(* after the DELETE, which does not see it, had begun.                     *)
Stands(old, seen) == Posted(old) \/ (old # NoRow /\ old.id > seen)

(* A slip: the update takes the parsed row's status.                       *)
RewrittenWithStatus(i, old, new) ==
    [old EXCEPT !.amount = new.amount,
                !.account = IF @ = NoAccount THEN new.account ELSE @,
                !.status = Inserted(i, new).status]

(* ON CONFLICT DO UPDATE: what the parser says, but an account that is set.*)
Rewritten(i, old, new) ==
    [old EXCEPT !.amount = new.amount,
                !.account = IF @ = NoAccount THEN new.account ELSE @,
                !.status = IF Posted(old) THEN @ ELSE Inserted(i, new).status]

(* A slip: posted rows are deleted and inserted like the others.           *)
ReplacedAlways(i, old, new, seen) == IF new = NoRow THEN NoRow ELSE Inserted(i, new)

(* ReplaceForReceipt deletes what does not stand; on a row that stands the *)
(* insert conflicts and rewrites it, under the id it has.                  *)
Replaced(i, old, new, seen) ==
    IF Stands(old, seen) THEN IF new = NoRow THEN old ELSE Rewritten(i, old, new)
    ELSE IF new = NoRow THEN NoRow ELSE Inserted(i, new)

(* Some request has read the row of this index and is to post it.          *)
InHand(i) == \E p \in Posters : \E r \in todo[p] : r.index = i

(* runSuggest replaces the rows, unless it could parse none.  Runs may be  *)
(* side by side: the DELETE has seen the rows of the first runs only.  The *)
(* row locks make the rest atomic for those who post.                      *)
ReplaceForReceipt(content, seen) ==
    /\ replaces < MaxReplaces
    /\ \E i \in Indexes : content[i] # NoRow
    /\ rows' = [i \in Indexes |-> Replaced(i, rows[i], content[i], seen)]
    /\ replaces' = replaces + 1
    /\ touched' = touched \cup
          {i \in Indexes : /\ Stands(rows[i], seen) /\ content[i] # NoRow
                           /\ Posted(rows[i]) \/ InHand(i)}
    /\ UNCHANGED <<journal, local, created, faults, reported, strays>>

(* handleImportRowUpdate maps a row, a posted one as well.                 *)
UpdateAccount(i, a) ==
    /\ rows[i] # NoRow
    /\ rows' = [rows EXCEPT ![i].account = a,
                            ![i].status = IF @ = "posted" THEN @ ELSE "mapped"]
    /\ touched' = IF Posted(rows[i]) \/ InHand(i)
                  THEN touched \cup {i} ELSE touched
    /\ UNCHANGED <<journal, local, count, reported, strays>>

-----------------------------------------------------------------------------
Postable(r) ==
    /\ r # NoRow
    /\ r.txn = 0 /\ r.status # "posted"
    /\ r.account # NoAccount

Begin(p, rs) ==
    /\ pc[p] = "idle"
    /\ rs # {}
    /\ todo' = [todo EXCEPT ![p] = rs]
    /\ pc' = [pc EXCEPT ![p] = "create"]
    /\ UNCHANGED <<table, posting, count, reported, strays, touched>>

(* POST /imports/:id/rows/:row_index/post reads the row; one that is       *)
(* posted or not mapped, and an entity without a cash account, is refused. *)
handleImportRowPost(p, i) == Begin(p, {r \in {rows[i]} : Postable(r)})

(* POST /imports/:id/rows/post-mapped reads all rows at the start.         *)
handleImportRowsPostMapped(p) ==
    Begin(p, {r \in {rows[i] : i \in Indexes} : Postable(r)})

(* The first of the rows still to post.                                    *)
Current(p, r) == r \in todo[p] /\ \A q \in todo[p] : r.index <= q.index

(* The row is done with; a bulk request goes on to the next one.           *)
Leave(p, r) ==
    /\ todo' = [todo EXCEPT ![p] = @ \ {r}]
    /\ posting' = [posting EXCEPT ![p] = 0]
    /\ pc' = [pc EXCEPT ![p] = IF todo[p] = {r} THEN "idle" ELSE "create"]

(* importRowEntries makes nothing of an amount that is not positive.       *)
RefuseRow(p) ==
    /\ pc[p] = "create"
    /\ \E r \in todo[p] : Current(p, r) /\ r.amount <= 0 /\ Leave(p, r)
    /\ UNCHANGED <<table, count, reported, strays, touched>>

CreateFails(p) ==
    /\ pc[p] = "create"
    /\ Fault
    /\ \E r \in todo[p] : Current(p, r) /\ Leave(p, r)
    /\ UNCHANGED <<table, replaces, created, reported, strays, touched>>

(* transactions.Create commits two entries of the row's amount.            *)
Create(p) ==
    /\ pc[p] = "create"
    /\ created < MaxPosts
    /\ created' = created + 1
    /\ \E r \in todo[p] :
        /\ Current(p, r) /\ r.amount > 0
        /\ journal' = journal \cup {[number |-> created + 1, index |-> r.index,
                                     amount |-> r.amount, account |-> r.account]}
    /\ posting' = [posting EXCEPT ![p] = created + 1]
    /\ pc' = [pc EXCEPT ![p] = "mark"]
    /\ UNCHANGED <<rows, todo, replaces, faults, reported, strays, touched>>

(* A slip: WHERE id = $1 only.                                             *)
MarkableAgain(r) == r # NoRow

Markable(r) == r # NoRow /\ r.txn = 0

Mark(p, r) ==
    rows' = [rows EXCEPT ![r.index].status = "posted", ![r.index].txn = posting[p]]

(* A slip: the row is looked up by its place in the import.                *)
StillThereByIndex(r) == Markable(rows[r.index])

(* The row the request has read is still there and not posted.             *)
StillThere(r) == Markable(rows[r.index]) /\ rows[r.index].id = r.id

(* A slip: the number of rows affected is not looked at.                   *)
MarkPostedBlindly(p) ==
    /\ pc[p] = "mark"
    /\ \E r \in todo[p] :
        /\ Current(p, r)
        /\ Leave(p, r)
        /\ IF StillThere(r) THEN Mark(p, r) ELSE UNCHANGED rows
    /\ reported' = reported \cup {posting[p]}
    /\ UNCHANGED <<journal, count, strays, touched>>

(* MarkPosted, which affects no row when another request has posted it or  *)
(* the worker has replaced it: an error, but the transaction stands.       *)
MarkPosted(p) ==
    /\ pc[p] = "mark"
    /\ \E r \in todo[p] :
        /\ Current(p, r)
        /\ Leave(p, r)
        /\ IF StillThere(r)
           THEN Mark(p, r) /\ reported' = reported \cup {posting[p]} /\ UNCHANGED strays
           ELSE strays' = strays \cup {posting[p]} /\ UNCHANGED <<rows, reported>>
    /\ UNCHANGED <<journal, count, touched>>

(* The statement fails, or commits and its reply is lost: an error.        *)
MarkPostedFails(p) ==
    /\ pc[p] = "mark"
    /\ Fault
    /\ \E r \in todo[p] :
        /\ Current(p, r)
        /\ Leave(p, r)
        /\ \/ strays' = strays \cup {posting[p]} /\ UNCHANGED rows
           \/ StillThere(r) /\ Mark(p, r) /\ UNCHANGED strays
    /\ UNCHANGED <<journal, replaces, created, reported, touched>>

(* The client goes away or the server stops between two statements.        *)
Crash(p) ==
    /\ pc[p] # "idle"
    /\ Fault
    /\ strays' = IF pc[p] = "mark" THEN strays \cup {posting[p]} ELSE strays
    /\ todo' = [todo EXCEPT ![p] = {}]
    /\ posting' = [posting EXCEPT ![p] = 0]
    /\ pc' = [pc EXCEPT ![p] = "idle"]
    /\ UNCHANGED <<table, replaces, created, reported, touched>>

Next ==
    \/ \E content \in [Indexes -> Parsed \cup {NoRow}], seen \in 0 .. replaces :
          ReplaceForReceipt(content, seen)
    \/ \E i \in Indexes, a \in Accounts : UpdateAccount(i, a)
    \/ \E p \in Posters :
        \/ \E i \in Indexes : handleImportRowPost(p, i)
        \/ handleImportRowsPostMapped(p)
        \/ RefuseRow(p)
        \/ CreateFails(p)
        \/ Create(p)
        \/ MarkPosted(p)
        \/ MarkPostedFails(p)
        \/ Crash(p)

Spec == Init /\ [][Next]_vars

-----------------------------------------------------------------------------
(* Properties.                                                             *)

(* Every variable keeps its type.                                          *)
TypeOK ==
    /\ rows \in [Indexes -> Rows \cup {NoRow}]
    /\ \A i \in Indexes : rows[i] # NoRow => rows[i].index = i
    /\ journal \subseteq Transactions
    /\ pc \in [Posters -> {"idle", "create", "mark"}]
    /\ todo \in [Posters -> SUBSET Rows]
    /\ posting \in [Posters -> 0 .. MaxPosts]
    /\ replaces \in 0 .. MaxReplaces
    /\ created \in 0 .. MaxPosts
    /\ faults \in 0 .. MaxFaults
    /\ reported \subseteq 1 .. MaxPosts
    /\ strays \subseteq 1 .. MaxPosts
    /\ touched \subseteq Indexes

(* A row that is shown as posted names a transaction that was made for it. *)
PostedRowsAreBacked ==
    \A i \in Indexes : rows[i] # NoRow =>
        /\ rows[i].status = "posted" <=> rows[i].txn # 0
        /\ rows[i].txn # 0 => \E t \in journal : t.number = rows[i].txn /\ t.index = i

(* What a client is told is posted is what the row names: of several       *)
(* requests that post one row, one at most is told so.                     *)
ReportsAreTrue ==
    \A t \in journal : t.number \in reported =>
        rows[t.index] # NoRow /\ rows[t.index].txn = t.number

(* A transaction no row names belongs to a request that is about to mark   *)
(* its row, or to one that has failed.                                     *)
StraysWereFailures ==
    \A t \in journal :
        \/ rows[t.index] # NoRow /\ rows[t.index].txn = t.number
        \/ \E p \in Posters : pc[p] = "mark" /\ posting[p] = t.number
        \/ t.number \in strays

(* A posted row and its transaction agree, as the reconciliation of        *)
(* statements supposes, unless the row is parsed again once it is posted,  *)
(* or mapped or rewritten in place while or after a request posts it.      *)
PostedRowsAgree ==
    \A i \in Indexes \ touched : Posted(rows[i]) =>
        \E t \in journal : /\ t.number = rows[i].txn
                             /\ t.amount = rows[i].amount /\ t.account = rows[i].account

(* A posted row stays, with its transaction, whatever is imported again.   *)
PostedRowsStay ==
    [][\A i \in Indexes : Posted(rows[i]) =>
          rows'[i] # NoRow /\ rows'[i].txn = rows[i].txn]_vars

-----------------------------------------------------------------------------
(* docs/api.md: POST /imports/{id}/rows/{row_index}/post "posts one        *)
(* persisted import row as a balanced transaction": one transaction.       *)
OneTransactionPerRow ==
    \A t, u \in journal : t.index = u.index => t = u
=============================================================================
