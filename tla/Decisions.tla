------------------------------- MODULE Decisions -------------------------------
(***************************************************************************)
(* What the program computes at one go, from what a model, a person or the *)
(* ledger gives it: the staged reading of a receipt, the draft of an       *)
(* import, the days of a fiscal year and the statements of a period.  One  *)
(* question is asked of one of these and answered; the questions are all   *)
(* those of small sets.  A value that may be absent is a set of at most    *)
(* one element.                                                            *)
(***************************************************************************)
EXTENDS Integers, Sequences, FiniteSets, Functions

CONSTANTS
    Extracts,   \* what a model may read from a receipt
    RowLists,   \* the rows an import may have
    Years,      \* the years a fiscal year may begin in
    Books       \* the postings a ledger may hold

VARIABLES
    question,   \* what is asked
    answer      \* what the code answers, or Unasked

decisionVars == <<question, answer>>

Unasked == [about |-> "nothing"]

Maybe(S) == {{}} \cup {{x} : x \in S}

The(s) == CHOOSE x \in s : TRUE

Apart(x, y) == IF x > y THEN x - y ELSE y - x

AtMostOne(s) == \A x, y \in s : x = y

Amount(s) == s \subseteq Int /\ AtMostOne(s)

(* A posting moves cents between two accounts, which are named by their    *)
(* types as a person spelled them.                                         *)
TypesSpelled == {"asset", "liability", "equity", "income", "expense", "expenses", "bank"}

Posting == [debit : TypesSpelled, credit : TypesSpelled, cents : Int, inPeriod : BOOLEAN, vendor : BOOLEAN]

ASSUME DecisionConstants ==
    /\ \A x \in Extracts : Amount(x.total) /\ Amount(x.subtotal) /\ Amount(x.tax) /\ Amount(x.items)
    /\ \A rows \in RowLists :
           /\ IsFiniteSet(DOMAIN rows)
           /\ \A i \in DOMAIN rows : rows[i].cents \in Int /\ AtMostOne(rows[i].account)
    /\ Years \subseteq Int
    /\ \A posted \in Books :
           IsFiniteSet(DOMAIN posted) /\ \A i \in DOMAIN posted : posted[i] \in Posting

-----------------------------------------------------------------------------
(* The staged reading of a receipt.  The models' answers are given: whether *)
(* the call fails, whether it can be parsed, whether it is sure enough for *)
(* its gate, and what it says.  Two vendors are offered, one of which has  *)
(* a default account, and two accounts.                                    *)

OfferedVendors  == {"known", "plain"}
OfferedAccounts == {"rent", "food"}

DefaultAccountFor(v) == IF v = "known" THEN {"rent"} ELSE {}

CentsTolerance == 2

(* A stage advances only when its answer is sure and has no issues.        *)
Gate(sure, clean) == sure /\ clean

ValidateExtract(x) ==
    /\ x.wellFormed
    /\ x.total # {} /\ x.subtotal # {} /\ x.tax # {} =>
           Apart(The(x.total), The(x.subtotal) + The(x.tax)) <= CentsTolerance
    /\ x.items # {} /\ x.subtotal # {} => Apart(The(x.items), The(x.subtotal)) <= CentsTolerance
    /\ x.items # {} /\ x.subtotal = {} /\ x.total # {} => Apart(The(x.items), The(x.total)) <= CentsTolerance

ValidateVendorMatch(v) ==
    IF v.id # {} THEN ~v.isNew /\ v.id \subseteq OfferedVendors
                 ELSE v.isNew /\ v.proposed = "full"

ValidateClassify(c) == c.code \in OfferedAccounts

(* The vendor is matched by its name, or else by the model.                *)
AsksVendor(q) == q.named /\ q.exact = {}

MatchedVendor(q) == IF AsksVendor(q) THEN q.vendor.id ELSE IF q.named THEN q.exact ELSE {}

Proposes(q) == AsksVendor(q) /\ q.vendor.proposed # "none"

(* The vendor the worker notes on the receipt: a proposal of a new one     *)
(* comes before a match, and nothing is noted when it has no name.         *)
VendorOf(q) == IF Proposes(q) THEN (IF q.vendor.proposed = "nameless" THEN {} ELSE {"new"})
                              ELSE MatchedVendor(q)

(* A matched vendor's account is taken without asking.                     *)
KnownAccount(q) == UNION {DefaultAccountFor(v) : v \in MatchedVendor(q)}

AccountOf(q) == IF KnownAccount(q) # {} THEN The(KnownAccount(q)) ELSE q.classify.code

(* The lines of the entry; a tax that is named goes to a line of its own.  *)
SplitsTax(q) == q.taxAccount /\ q.extract.tax # {} /\ q.extract.subtotal # {}

EntryLines(q) ==
    LET total == [account |-> "cash", debit |-> 0, credit |-> The(q.extract.total)] IN
    IF SplitsTax(q)
    THEN <<[account |-> AccountOf(q), debit |-> The(q.extract.subtotal), credit |-> 0],
           [account |-> "tax", debit |-> The(q.extract.tax), credit |-> 0], total>>
    ELSE <<[account |-> AccountOf(q), debit |-> The(q.extract.total), credit |-> 0], total>>

Debits(es)  == SumFunction([i \in DOMAIN es |-> es[i].debit])
Credits(es) == SumFunction([i \in DOMAIN es |-> es[i].credit])

(* A slip: the slack of the reading is allowed to the entry as well.       *)
NearlyBalanced(es, total) ==
    /\ \A i \in DOMAIN es : es[i].debit >= 0 /\ es[i].credit >= 0
    /\ Apart(Debits(es), Credits(es)) <= CentsTolerance

AssertBalanced(es, total) ==
    /\ \A i \in DOMAIN es : es[i].debit >= 0 /\ es[i].credit >= 0
    /\ Debits(es) = Credits(es) /\ Debits(es) = total

BuildEntry(q) ==
    /\ q.extract.total # {} /\ q.creditAccount
    /\ The(q.extract.total) > 0
    /\ SplitsTax(q) => Apart(The(q.extract.subtotal) + The(q.extract.tax), The(q.extract.total)) <= CentsTolerance
    /\ AssertBalanced(EntryLines(q), The(q.extract.total))

Review(stage) == [about |-> "receipt", status |-> "needs_review", stage |-> stage]
Retried       == [about |-> "receipt", status |-> "error", stage |-> "none"]

Run(q) ==
    IF q.fails = "extract" THEN Retried
    ELSE IF ~(q.extract.parsed /\ Gate(q.extract.sure, ValidateExtract(q.extract))) THEN Review("extract")
    ELSE IF AsksVendor(q) /\ q.fails = "vendor" THEN Retried
    ELSE IF AsksVendor(q) /\ ~(q.vendor.parsed /\ Gate(q.vendor.sure, ValidateVendorMatch(q.vendor)))
         THEN Review("vendor-match")
    ELSE IF KnownAccount(q) = {} /\ q.fails = "classify" THEN Retried
    ELSE IF KnownAccount(q) = {} /\ ~(q.classify.parsed /\ Gate(q.classify.sure, ValidateClassify(q.classify)))
         THEN Review("classify-account")
    ELSE IF ~BuildEntry(q) THEN Review("build-entry")
    ELSE [about |-> "receipt", status |-> "ready", stage |-> "none", entry |-> EntryLines(q),
          vendor |-> VendorOf(q)]

GoodExtract  == [parsed |-> TRUE, sure |-> TRUE, wellFormed |-> TRUE, total |-> {3},
                 subtotal |-> {}, tax |-> {}, items |-> {}]
GoodVendor   == [parsed |-> TRUE, sure |-> TRUE, id |-> {"plain"}, isNew |-> FALSE, proposed |-> "none"]
GoodClassify == [parsed |-> TRUE, sure |-> TRUE, code |-> "food"]

Vendors    == [parsed : BOOLEAN, sure : BOOLEAN, id : Maybe({"known", "plain", "ghost"}),
               isNew : BOOLEAN, proposed : {"none", "nameless", "patternless", "full"}]
Classified == [parsed : BOOLEAN, sure : BOOLEAN, code : {"rent", "food", "madeUp"}]

(* Either what the receipt says varies, or whom and what it is for.        *)
Receipts ==
    [about : {"receipt"}, fails : {"none"}, extract : Extracts, named : {FALSE}, exact : {{}},
     vendor : {GoodVendor}, classify : {GoodClassify}, creditAccount : BOOLEAN, taxAccount : BOOLEAN]
    \cup
    [about : {"receipt"}, fails : {"none", "extract", "vendor", "classify"}, extract : {GoodExtract},
     named : BOOLEAN, exact : Maybe(OfferedVendors), vendor : Vendors, classify : Classified,
     creditAccount : {TRUE}, taxAccount : {FALSE}]

(* The model names an offered vendor and proposes a new one at once.  The  *)
(* comment of VendorMatchResult says that exactly one of the two is given; *)
(* nothing checks it.                                                      *)
GivesBoth(q) == MatchedVendor(q) # {} /\ Proposes(q)

(* An entry of a receipt that is ready balances, comes to the receipt's    *)
(* total and names no account the model made up.  A vendor is noted for a  *)
(* receipt that names one: an offered one, whose default account the entry *)
(* books, or a new one with all that is needed to match it again; not so   *)
(* when both are given, for then the match, whose account is booked, is    *)
(* dropped for a proposal nobody looked at.                                *)
ReadyIsSound(q, a) ==
    a.status = "ready" =>
        /\ Debits(a.entry) = Credits(a.entry) /\ {Credits(a.entry)} = q.extract.total
        /\ \A i \in DOMAIN a.entry : a.entry[i].account \in OfferedAccounts \cup {"cash", "tax"}
        /\ IF GivesBoth(q) THEN a.vendor \cap OfferedVendors = {}
           ELSE /\ q.named <=> a.vendor # {}
                /\ \A v \in a.vendor :
                      \/ v \in OfferedVendors /\ DefaultAccountFor(v) \subseteq {a.entry[1].account}
                      \/ v = "new" /\ q.vendor.proposed = "full"

-----------------------------------------------------------------------------
(* The draft of an import: a line for every account and side, and a line   *)
(* for each side of the cash account.                                      *)

RowAccount(q, row) == IF row.account # {} THEN row.account ELSE q.fallback

UsableRows(q) == {i \in DOMAIN q.rows : q.rows[i].cents > 0 /\ RowAccount(q, q.rows[i]) # {}}

CentsOf(q, is) == SumFunctionOnSet([i \in DOMAIN q.rows |-> q.rows[i].cents], is)

In(q, account)  == CentsOf(q, {i \in UsableRows(q) :  q.rows[i].inflow /\ RowAccount(q, q.rows[i]) = {account}})
Out(q, account) == CentsOf(q, {i \in UsableRows(q) : ~q.rows[i].inflow /\ RowAccount(q, q.rows[i]) = {account}})

RowAccounts(q) == UNION {RowAccount(q, q.rows[i]) : i \in UsableRows(q)}

(* An account is listed once for each side it has, and both its sides are  *)
(* written each time.                                                      *)
Times(q, account) == Cardinality({side \in {"in", "out"} :
                                      IF side = "in" THEN In(q, account) > 0 ELSE Out(q, account) > 0})

BuildImportEntries(q) ==
    LET inflow  == CentsOf(q, {i \in UsableRows(q) :  q.rows[i].inflow})
        outflow == CentsOf(q, {i \in UsableRows(q) : ~q.rows[i].inflow}) IN
    IF UsableRows(q) = {} \/ q.cash = {} THEN [about |-> "import", debits |-> 0, credits |-> 0]
    ELSE [about   |-> "import",
          debits  |-> inflow  + SumFunction([a \in RowAccounts(q) |-> Times(q, a) * Out(q, a)]),
          credits |-> outflow + SumFunction([a \in RowAccounts(q) |-> Times(q, a) * In(q, a)])]

Imports == [about : {"import"}, rows : RowLists, fallback : Maybe({"rent"}), cash : Maybe({"cash"})]

(* A draft of an import balances and comes to its rows, unless an account  *)
(* has rows of both directions: those are written twice.                   *)
ImportIsSound(q, a) ==
    (\A account \in RowAccounts(q) : Times(q, account) = 1) =>
        a.debits = a.credits /\ a.debits \in {0, CentsOf(q, UsableRows(q))}

-----------------------------------------------------------------------------
(* The days of a fiscal year, as numbers.                                  *)

Leap(y) == y % 4 = 0 /\ (y % 100 # 0 \/ y % 400 = 0)

DaysIn(y, m) == IF m = 2 THEN (IF Leap(y) THEN 29 ELSE 28) ELSE IF m \in {4, 6, 9, 11} THEN 30 ELSE 31

DayNumber(y, m, d) ==
    365 * y + (y - 1) \div 4 - (y - 1) \div 100 + (y - 1) \div 400
        + SumFunction([n \in 1 .. m - 1 |-> DaysIn(y, n)]) + d

(* A day the month lacks is lowered to one it has.                         *)
ValidFiscalYearStart(y, m, d) == IF d > DaysIn(y, m) THEN DaysIn(y, m) ELSE d

FiscalYearRange(y, m, d) ==
    LET day == ValidFiscalYearStart(y, m, d) IN
    [first |-> DayNumber(y, m, day), last |-> DayNumber(y + 1, m, day) - 1]

FiscalYears == [about : {"year"}, year : Years, month : 1 .. 12, day : 1 .. 31]

TwoYears(q) == [about |-> "year", this |-> FiscalYearRange(q.year, q.month, q.day),
                next |-> FiscalYearRange(q.year + 1, q.month, q.day)]

(* A fiscal year begins on the day after the one before it ends, unless    *)
(* it begins on the last of February: then a day may be in two years, or   *)
(* in none.                                                                *)
YearsFollow(q, a) ==
    Apart(a.next.first, a.this.last + 1) <= (IF q.month = 2 /\ q.day > 28 THEN 1 ELSE 0)

-----------------------------------------------------------------------------
(* The statements of a period.                                             *)

NormalizeType(t) == IF t = "expenses" THEN "expense" ELSE IF t = "bank" THEN "other" ELSE t

DebitNormal(t) == NormalizeType(t) \in {"asset", "expense"}

NormalBalance(t, balance) == IF DebitNormal(t) THEN balance ELSE -balance

(* The net of an account over the postings numbered ps.                    *)
Net(q, t, ps) ==
    SumFunctionOnSet([i \in DOMAIN q.posted |-> (IF q.posted[i].debit = t THEN q.posted[i].cents ELSE 0)
                                                - (IF q.posted[i].credit = t THEN q.posted[i].cents ELSE 0)], ps)

TrialBalance(q) == [t \in TypesSpelled |-> Net(q, t, {i \in DOMAIN q.posted : q.posted[i].inPeriod})]

OfType(q, type) ==
    SumFunctionOnSet([t \in TypesSpelled |-> NormalBalance(t, TrialBalance(q)[t])],
                     {t \in TypesSpelled : NormalizeType(t) = type})

ProfitLoss(q) == OfType(q, "income") - OfType(q, "expense")

BalanceSheet(q) ==
    [assets |-> OfType(q, "asset"), liabilities |-> OfType(q, "liability"), equity |-> OfType(q, "equity")]

(* The columns of the trial balance.                                       *)
Columns(q) ==
    [debit  |-> SumFunctionOnSet(TrialBalance(q), {t \in TypesSpelled : TrialBalance(q)[t] > 0}),
     credit |-> -SumFunctionOnSet(TrialBalance(q), {t \in TypesSpelled : TrialBalance(q)[t] < 0})]

OfVendor(q) == {i \in DOMAIN q.posted : q.posted[i].inPeriod /\ q.posted[i].vendor}

(* What a vendor was paid counts the type spelled "expense" only.          *)
VendorPayments(q) == IF Net(q, "expense", OfVendor(q)) > 0 THEN Net(q, "expense", OfVendor(q)) ELSE 0

PeriodStatements(q) ==
    [about |-> "statements", net |-> ProfitLoss(q), sheet |-> BalanceSheet(q), columns |-> Columns(q),
     vendor |-> VendorPayments(q)]

Ledgers == [about : {"statements"}, posted : Books]

(* The columns of the trial balance agree.  The balance sheet and the net  *)
(* income agree but for accounts of a type that is on no statement.  What  *)
(* a vendor was paid is what the period spent on it, unless an account's   *)
(* type is spelled in the plural.                                          *)
StatementsAgree(q, a) ==
    /\ a.columns.debit = a.columns.credit
    /\ a.sheet.assets - a.sheet.liabilities - a.sheet.equity = a.net + OfType(q, "other")
    /\ LET spent == Net(q, "expense", OfVendor(q)) + Net(q, "expenses", OfVendor(q)) IN
       a.vendor = (IF spent > 0 THEN spent ELSE 0) \/ Net(q, "expenses", OfVendor(q)) # 0

-----------------------------------------------------------------------------
Questions == Receipts \cup Imports \cup FiscalYears \cup Ledgers

Answer(q) ==
    CASE q.about = "receipt"    -> Run(q)
      [] q.about = "import"     -> BuildImportEntries(q)
      [] q.about = "year"       -> TwoYears(q)
      [] q.about = "statements" -> PeriodStatements(q)

DecideInit == question \in Questions /\ answer = Unasked

Decide ==
    /\ answer = Unasked /\ question # Unasked
    /\ answer' = Answer(question)
    /\ UNCHANGED question

DecisionTypeOK == answer # Unasked => answer.about = question.about

(* Every answer is sound: a receipt that is ready, an import's draft, a    *)
(* fiscal year and a period's statements, each as said at its part.        *)
AnswersAreSound ==
    /\ answer.about = "receipt"    => ReadyIsSound(question, answer)
    /\ answer.about = "import"     => ImportIsSound(question, answer)
    /\ answer.about = "year"       => YearsFollow(question, answer)
    /\ answer.about = "statements" => StatementsAgree(question, answer)
=============================================================================
