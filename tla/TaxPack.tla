-------------------------------- MODULE TaxPack --------------------------------
(***************************************************************************)
(* Account statements, mileage, tax settings, and the tax readiness report *)
(* and pack built from them, from import rows and from receipts.           *)
(*                                                                         *)
(* A report is several queries without a transaction, and the requests     *)
(* that map, post, reconcile and configure run between them; some queries  *)
(* that fail are taken for an empty answer, and the list of papers has a   *)
(* limit.  One entity, one scope of days (a fiscal year that spans two     *)
(* calendar years), one statement.  Names, links, labels and CSV layout    *)
(* are left out.                                                           *)
(***************************************************************************)
EXTENDS Integers, FiniteSets, FiniteSetsExt

CONSTANTS
    Sheets, Slips,    \* imports, receipts
    ListLimit,        \* papers a report lists
    MaxTaxEdits, MaxTaxFaults, MaxCents    \* bounds of the model

ASSUME TaxConstants ==
    /\ MaxTaxEdits \in Nat /\ MaxTaxFaults \in Nat /\ MaxCents \in Nat /\ ListLimit \in Nat
    /\ IsFiniteSet(Sheets) /\ Sheets \cap Slips = {}    \* a receipt is of one kind

Dates    == 0 .. 3
NoDate   == 9
ScopeStart == 1
ScopeEnd   == 2
YearOf(d)  == d \div 2
Uses     == {"utilities", "cell_phone", "internet"}
Papers   == Sheets \cup Slips
Cents    == -MaxCents .. MaxCents

Missing     == [status |-> "missing", uses |-> {}]
NoStatement == [status |-> "none"]
NoPayload   == [unmapped |-> {}, errors |-> {}, there |-> FALSE]
NotFiled    == [day |-> NoDate, posted |-> FALSE, payload |-> NoPayload]

VARIABLES
    filed,      \* receipts: [day, posted, payload], "payload" the latest suggestion's rows
    lines,      \* import_rows: [sheet, index, day, cents, mark, account, posted]
    statement,  \* account_statements: [start, end, from, to, source, status]
    settings,   \* entity_tax_settings of the year: [status, uses]
    tagged,     \* role tags some account has
    trips,      \* mileage_logs, by day
    rated,      \* mileage_rates, by year
    report,     \* the report being made
    reconciling,  \* what Reconcile has read: the status it will write, or ""
    edits, taxFaults,
    lasting     \* history: what was outstanding ever since the report began

books    == <<filed, lines, statement, settings, tagged, trips, rated>>
taxVars  == <<books, report, reconciling, edits, taxFaults, lasting>>

(* timeInTaxScope; a date that is missing is in every scope.               *)
InScope(d) == d = NoDate \/ (ScopeStart <= d /\ d <= ScopeEnd)

(* The settings of a request: a home of no square feet has no percentage   *)
(* (UtilitiesBusinessUsePercent) and is complete all the same.             *)
Profiles ==
    {Missing, [status |-> "partial", uses |-> {"cell_phone"}],
     [status |-> "complete", uses |-> Uses],
     [status |-> "complete", uses |-> Uses \ {"utilities"}]}

NoReport == [at |-> "none", seen |-> NotFiled, left |-> {}, found |-> {}, refs |-> {}, sources |-> 0,
             uses |-> {}, lost |-> {}, more |-> FALSE, since |-> 0]

Row(p, index, day, cents, mark, account, posted) ==
    [sheet |-> p, index |-> index, day |-> day, cents |-> cents, mark |-> mark,
     account |-> account, posted |-> posted]

Line(p, index, day, cents, mark) == Row(p, index, day, cents, mark, FALSE, FALSE)

(* The books so far: nothing, or done in part, or all in order.            *)
TaxInit ==
    /\ \E done \in [Papers -> {"none", "mapped", "posted"}] :
          /\ \A p \in Slips : done[p] # "mapped"
          /\ filed = [p \in Papers |->
                        IF done[p] = "none" THEN NotFiled
                        ELSE [day |-> 1, posted |-> done[p] = "posted",
                              payload |-> [NoPayload EXCEPT !.there = p \in Sheets]]]
          /\ lines = {Row(p, 1, 1, MaxCents, "a", TRUE, done[p] = "posted") :
                        p \in {q \in Sheets : done[q] # "none"}}
    /\ statement \in {NoStatement} \cup
          {[start |-> 1, end |-> 2, from |-> 0, to |-> MaxCents, source |-> p,
            status |-> "reconciled"] : p \in Sheets}
    /\ settings \in {Missing, [status |-> "complete", uses |-> Uses]}
    /\ tagged = settings.uses
    /\ trips = {} /\ rated = {}
    /\ report = NoReport
    /\ reconciling = ""
    /\ edits = 0 /\ taxFaults = 0
    /\ lasting = {}

-----------------------------------------------------------------------------
(* Statements: the columns summed over the rows of the source import that  *)
(* are dated in the period.                                                *)

PeriodRows(s) == {l \in lines : l.sheet = s.source /\ s.start <= l.day /\ l.day <= s.end}

SumCents(ls) == MapThenSumSet(LAMBDA l : l.cents, ls)

(* StatementDifferenceCents of StatementExpectedEndingBalance.             *)
Difference(s)   == s.to - (s.from + SumCents(PeriodRows(s)))
UnpostedRows(s) == Cardinality({l \in PeriodRows(s) : ~ l.posted})

-----------------------------------------------------------------------------
(* What is outstanding, by what the documentation says a report is for:    *)
(* one entry for each thing somebody has to do before filing.              *)

When(condition, e) == IF condition THEN {e} ELSE {}

Item(source, issue, index) == [source |-> source, issue |-> issue, index |-> index]

HasRows(p)  == \E l \in lines : l.sheet = p
ScopeRows   == {l \in lines : InScope(l.day)}
(* Papers judged by themselves: receipts, and imports without stored rows. *)
Whole(p)    == filed[p].day # NoDate /\ InScope(filed[p].day) /\ ~ HasRows(p)

RowItems ==
    {Item(l.sheet, "unmapped import row", l.index) : l \in {x \in ScopeRows : ~ x.account}} \cup
    {Item(l.sheet, "import row not posted", l.index) : l \in {x \in ScopeRows : x.account /\ ~ x.posted}} \cup
    {Item(l.sheet, "duplicate import row fingerprint", l.index) :
        l \in {x \in ScopeRows : \E y \in ScopeRows : y # x /\ y.mark = x.mark}}

PaperItems ==
    {Item(p, "not posted", 0) : p \in {q \in Papers : Whole(q) /\ ~ filed[q].posted}} \cup
    {Item(p, "missing import suggestion/row mapping", 0) :
        p \in {q \in Sheets : Whole(q) /\ ~ filed[q].payload.there}} \cup
    UNION {{Item(p, "unmapped import row", d) : d \in {x \in filed[p].payload.unmapped : InScope(x)}} :
              p \in {q \in Sheets : Whole(q)}}

(* A row that could not be parsed has no date: it is of its import, which  *)
(* concerns the scope by its rows, or by itself if it has none.            *)
ErrorItems ==
    UNION {{Item(p, "parse error", i) : i \in filed[p].payload.errors} :
              p \in {q \in Sheets : Whole(q) \/ \E l \in ScopeRows : l.sheet = q}}

(* Months with trips and without a rate.                                   *)
RateGaps  == {d \in trips : InScope(d) /\ YearOf(d) \notin rated}
RateItems == {Item("mileage", "no mileage rate", d) : d \in RateGaps}

StatementItems ==
    IF statement = NoStatement \/ statement.end < ScopeStart \/ statement.start > ScopeEnd THEN {}
    ELSE {Item("statement", i, 0) : i \in
            When(Difference(statement) # 0, "statement balance difference") \cup
            When(UnpostedRows(statement) > 0, "statement import rows not posted") \cup
            When(statement.status \notin {"reconciled", "locked"}, "statement not reconciled")}

SettingItems ==
    When(settings.status # "complete", Item("entity", "home-use allocation", 0)) \cup
    {Item("entity", use, 0) : use \in settings.uses \ tagged}

Outstanding == RowItems \cup PaperItems \cup ErrorItems \cup RateItems \cup StatementItems \cup SettingItems

-----------------------------------------------------------------------------
(* Requests and jobs that write.                                           *)

Edit ==
    /\ edits < MaxTaxEdits /\ edits' = edits + 1
    /\ report.at # "answered"      \* one report is followed to its answer
    /\ lasting' = lasting \cap Outstanding'
    /\ UNCHANGED <<report, taxFaults>>

(* Receipts and imports are uploaded, posted; a suggestion is stored.      *)
FilePaper(p, d) ==
    /\ filed[p].day = NoDate
    /\ filed' = [filed EXCEPT ![p] = [@ EXCEPT !.day = d]]
    /\ UNCHANGED <<lines, statement, settings, tagged, trips, rated, reconciling>> /\ Edit

PostPaper(p) ==
    /\ filed[p].day # NoDate /\ ~ filed[p].posted
    /\ filed' = [filed EXCEPT ![p] = [@ EXCEPT !.posted = TRUE]]
    /\ UNCHANGED <<lines, statement, settings, tagged, trips, rated, reconciling>> /\ Edit

(* What the suggest job finds in an import's text.                         *)
Readings(p) ==
    {<<{Line(p, 1, 1, MaxCents, "a"), Line(p, 2, 2, MaxCents, "a")}, NoPayload>>,
     <<{Line(p, 1, 1, MaxCents, "a"), Line(p, 2, 0, -MaxCents, "b")}, [unmapped |-> {}, errors |-> {3}, there |-> TRUE]>>,
     <<{}, [unmapped |-> {NoDate}, errors |-> {1}, there |-> TRUE]>>}

StoreReading(p) ==
    /\ filed[p].day # NoDate /\ ~ HasRows(p)
    /\ \E r \in Readings(p) :
          /\ lines' = lines \cup r[1]
          /\ filed' = [filed EXCEPT ![p] = [@ EXCEPT !.payload = [r[2] EXCEPT !.there = TRUE]]]
    /\ UNCHANGED <<statement, settings, tagged, trips, rated, reconciling>> /\ Edit

MapRow(l) ==
    /\ ~ l.account
    /\ lines' = (lines \ {l}) \cup {[l EXCEPT !.account = TRUE]}
    /\ UNCHANGED <<filed, statement, settings, tagged, trips, rated, reconciling>> /\ Edit

PostRow(l) ==
    /\ l.account /\ ~ l.posted
    /\ lines' = (lines \ {l}) \cup {[l EXCEPT !.posted = TRUE]}
    /\ UNCHANGED <<filed, statement, settings, tagged, trips, rated, reconciling>> /\ Edit

(* POST and PATCH of a statement: the period must be one, any status goes. *)
WriteStatement(start, end, to, source, status) ==
    /\ start <= end
    /\ statement' = [start |-> start, end |-> end, from |-> 0, to |-> to, source |-> source,
                     status |-> status]
    /\ UNCHANGED <<filed, lines, settings, tagged, trips, rated, reconciling>> /\ Edit

(* Reconcile reads the sums, then writes the status they call for.         *)
ReconcileReads ==
    /\ statement # NoStatement /\ reconciling = ""
    /\ reconciling' = IF Difference(statement) # 0 \/ UnpostedRows(statement) > 0
                      THEN "needs_review" ELSE "reconciled"
    /\ UNCHANGED <<books, report, edits, taxFaults, lasting>>

ReconcileWrites ==
    /\ reconciling # ""
    /\ statement' = [statement EXCEPT !.status = reconciling]
    /\ reconciling' = ""
    /\ UNCHANGED <<filed, lines, settings, tagged, trips, rated>> /\ Edit

handleUpdateEntityTaxSettings(profile) ==
    /\ profile # Missing
    /\ settings' = profile
    /\ UNCHANGED <<filed, lines, statement, tagged, trips, rated, reconciling>> /\ Edit

TagAccounts(tags) ==
    /\ tagged' = tags
    /\ UNCHANGED <<filed, lines, statement, settings, trips, rated, reconciling>> /\ Edit

handleMileageCreate(d) ==
    /\ trips' = trips \cup {d}
    /\ UNCHANGED <<filed, lines, statement, settings, tagged, rated, reconciling>> /\ Edit

handleMileageUpdate(d, moved) ==
    /\ d \in trips /\ trips' = (trips \ {d}) \cup {moved}
    /\ UNCHANGED <<filed, lines, statement, settings, tagged, rated, reconciling>> /\ Edit

handleMileageDelete(d) ==
    /\ d \in trips /\ trips' = trips \ {d}
    /\ UNCHANGED <<filed, lines, statement, settings, tagged, rated, reconciling>> /\ Edit

UpsertRate(year) ==
    /\ rated' = rated \cup {year}
    /\ UNCHANGED <<filed, lines, statement, settings, tagged, trips, reconciling>> /\ Edit

-----------------------------------------------------------------------------
(* The report.                                                             *)

Reads(next) == report' = next /\ UNCHANGED <<books, reconciling, edits, lasting>>

Uploaded == {p \in Papers : filed[p].day # NoDate}

(* The papers a list shows: the newest, as many as its limit.              *)
Newest(listed) ==
    /\ listed = Uploaded \/ Cardinality(listed) = ListLimit
    /\ Cardinality(listed) <= ListLimit
    /\ \A p \in listed, q \in Uploaded \ listed : filed[q].day <= filed[p].day

(* taxImportDiagnostics lists the receipts...                              *)
handleReportTaxReadiness(listed) ==
    /\ report.at = "none"
    /\ listed \subseteq Uploaded /\ Newest(listed)
    /\ report' = [NoReport EXCEPT !.at = "papers", !.seen = filed, !.since = edits,
                                    !.left = listed, !.lost = Uploaded \ listed]
    /\ lasting' = Outstanding
    /\ UNCHANGED <<books, reconciling, edits, taxFaults>>

(* ...and judges each: an import by its rows in scope if it has rows...    *)
ByRows(ls) ==
    {Item(l.sheet, IF l.account THEN "import row not posted" ELSE "unmapped import row", l.index) :
        l \in {x \in ls : ~ x.account \/ ~ x.posted}}

(* ...else by its own status and the rows of its suggestion.               *)
BySuggestion(p, seen) ==
    IF ~ InScope(seen.day) THEN {} ELSE
    When(~ seen.posted, Item(p, "not posted", 0)) \cup
    (IF p \in Slips THEN {}
     ELSE IF ~ filed[p].payload.there THEN {Item(p, "missing import suggestion/row mapping", 0)}
     ELSE {Item(p, "unmapped import row", d) : d \in {x \in filed[p].payload.unmapped : InScope(x)}} \cup
          {Item(p, "parse error", i) : i \in filed[p].payload.errors})

(* A slip: an import whose rows could not be read is passed over.          *)
PassOver(p, ls) ==
    /\ report.at = "papers" /\ p \in report.left
    /\ Reads([report EXCEPT !.left = @ \ {p},
                !.found = IF p \in Sheets THEN @ ELSE @ \cup BySuggestion(p, report.seen[p])])

JudgePaper(p, ls) ==
    /\ report.at = "papers" /\ p \in report.left
    /\ LET scoped == {l \in ls : InScope(l.day)} IN
       Reads([report EXCEPT
         !.left = @ \ {p},
         !.found = @ \cup (IF ls # {} THEN ByRows(scoped) ELSE BySuggestion(p, report.seen[p])),
         !.refs = @ \cup scoped,
         !.sources = IF scoped # {} \/ (ls = {} /\ p \in Sheets /\ InScope(report.seen[p].day))
                     THEN @ + 1 ELSE @])

ReadPaper(p) == JudgePaper(p, {l \in lines : l.sheet = p}) /\ UNCHANGED taxFaults

Fails == taxFaults < MaxTaxFaults /\ taxFaults' = taxFaults + 1

(* The error of ListByReceiptID is taken for an import without rows.       *)
ReadPaperFails(p) ==
    /\ p \in Sheets /\ HasRows(p) /\ Fails
    /\ report.at = "papers" /\ p \in report.left
    /\ Reads([report EXCEPT !.left = @ \ {p}, !.lost = @ \cup {p}, !.more = TRUE,
                            !.found = @ \cup BySuggestion(p, report.seen[p])])

(* Rows of equal fingerprint, of whichever import.                         *)
Duplicates ==
    /\ report.at = "papers" /\ report.left = {}
    /\ Reads([report EXCEPT !.at = "profile", !.found = @ \cup
                {Item(l.sheet, "duplicate import row fingerprint", l.index) :
                    l \in {x \in report.refs : \E y \in report.refs :
                             y.mark = x.mark /\ <<y.sheet, y.index>> # <<x.sheet, x.index>>}}])
    /\ UNCHANGED taxFaults

(* taxUseProfileExceptions; a profile that cannot be read is missing.      *)
ReadProfile(profile, failed) ==
    /\ report.at = "profile"
    /\ Reads([report EXCEPT !.at = "roles", !.more = @ \/ failed, !.found = @ \cup
                When(profile.status # "complete", Item("entity", "home-use allocation", 0))])

(* taxAccountRoleExceptions reads the profile again, then the accounts.    *)
ReadRoles(profile, unseen) ==
    /\ report.at = "roles"
    /\ Reads([report EXCEPT !.at = "tags", !.lost = @ \cup unseen, !.uses = profile.uses])

ReadTags(tags, failed) ==
    /\ report.at = "tags"
    /\ Reads([report EXCEPT !.at = "statements", !.more = @ \/ failed,
                            !.found = @ \cup {Item("entity", use, 0) : use \in report.uses \ tags}])

SettingsFail ==
    /\ Fails
    /\ \/ ReadProfile(Missing, TRUE)
       \/ ReadRoles(Missing, {"entity"})
       \/ ReadTags({}, TRUE)

(* taxStatementExceptions, over the statements that overlap the scope.     *)
ReadStatements ==
    /\ report.at = "statements"
    /\ LET s == statement IN
       Reads([report EXCEPT !.at = "answered", !.found = @ \cup
         (IF s = NoStatement \/ ~ (s.end >= ScopeStart /\ s.start <= ScopeEnd) THEN {}
          ELSE When(Difference(s) # 0, Item("statement", "statement balance difference", 0)) \cup
               When(UnpostedRows(s) > 0, Item("statement", "statement import rows not posted", 0)) \cup
               When(s.status \notin {"reconciled", "locked"}, Item("statement", "statement not reconciled", 0)))])
    /\ UNCHANGED taxFaults

(* The error of List is taken for no statements.                           *)
ReadStatementsFails ==
    /\ report.at = "statements" /\ statement # NoStatement /\ Fails
    /\ Reads([report EXCEPT !.at = "answered", !.lost = @ \cup {"statement"}])

-----------------------------------------------------------------------------
(* What the pack shows of the exceptions.                                  *)

(* blockingSummaryRows: one per source.                                    *)
Blockers(found) ==
    {[source |-> s, issues |-> Cardinality({x \in found : x.source = s}),
      notPosted |-> Cardinality({x \in found : x.source = s /\
                                     x.issue \in {"import row not posted", "not posted"}})] :
        s \in {e.source : e \in found}}

CountOf(found, issue) == Cardinality({e \in found : e.issue = issue})

(* The lines of prep-checklist.csv, and of prepared-package.csv, that need *)
(* attention.                                                              *)
Allocations == (Uses \ settings.uses) \cup (settings.uses \ tagged)

taxPrepChecklistRows(found) ==
    Allocations \cup
    {issue \in {"unmapped import row", "duplicate import row fingerprint", "import row not posted",
                "parse error"} : CountOf(found, issue) > 0} \cup
    When(\E e \in found : e.issue = "not posted" /\ e.source \in Slips, "receipts") \cup
    When(RateGaps # {}, "rates")

taxPreparedPackageRows(found, sources) ==
    Allocations \cup
    When(found # {} \/ RateGaps # {}, "pack") \cup
    When(sources = 0, "sources") \cup
    When(Blockers(found) # {}, "blockers") \cup
    When(\E b \in Blockers(found) : b.notPosted > 0, "unposted") \cup
    When(RateGaps # {}, "rates")

-----------------------------------------------------------------------------
Periods == {<<1, 2>>, <<2, 3>>}
Stati   == {"draft", "reconciled"}

TaxNext ==
    \/ \E p \in Papers : \/ \E d \in {1, 3} : FilePaper(p, d)
                       \/ PostPaper(p) \/ ReadPaper(p) \/ ReadPaperFails(p)
    \/ \E p \in Sheets : \/ StoreReading(p)
                       \/ \E r \in Periods, st \in Stati : WriteStatement(r[1], r[2], 0, p, st)
    \/ \E l \in lines : MapRow(l) \/ PostRow(l)
    \/ ReconcileReads \/ ReconcileWrites
    \/ \E f \in Profiles : handleUpdateEntityTaxSettings(f)
    \/ \E u \in {{}, Uses} : TagAccounts(u)
    \/ \E d \in {1, 2} : handleMileageCreate(d) \/ handleMileageUpdate(d, 3 - d)
                         \/ handleMileageDelete(d) \/ UpsertRate(YearOf(d))
    \/ \E listed \in SUBSET Papers : handleReportTaxReadiness(listed)
    \/ Duplicates
    \/ ReadProfile(settings, FALSE) /\ UNCHANGED taxFaults
    \/ ReadRoles(settings, {}) /\ UNCHANGED taxFaults
    \/ ReadTags(tagged, FALSE) /\ UNCHANGED taxFaults
    \/ SettingsFail \/ ReadStatements \/ ReadStatementsFails

TaxSpec == TaxInit /\ [][TaxNext]_taxVars

-----------------------------------------------------------------------------
TaxTypeOK ==
    /\ \A p \in Papers : filed[p].day \in Dates \cup {NoDate} /\ filed[p].posted \in BOOLEAN
    /\ \A l \in lines : l.sheet \in Sheets /\ l.day \in Dates /\ l.cents \in Cents
    /\ statement = NoStatement \/ (statement.start <= statement.end /\ statement.source \in Sheets)
    /\ settings \in Profiles /\ tagged \subseteq Uses
    /\ trips \subseteq Dates /\ rated \subseteq {YearOf(d) : d \in Dates}
    /\ reconciling \in {"", "needs_review", "reconciled"}
    /\ edits \in 0 .. MaxTaxEdits /\ taxFaults \in 0 .. MaxTaxFaults

Answered == report.at = "answered"
Undisturbed == report.since = edits

(* A row of one fingerprint with another that the report did not see.      *)
TwinLost(e) ==
    \E l, y \in ScopeRows : /\ e = Item(l.sheet, "duplicate import row fingerprint", l.index)
                            /\ y # l /\ y.mark = l.mark /\ y.sheet \in report.lost

(* What a report leaves out though it should be found: what it could not   *)
(* see (papers beyond the limit of the list, and what failed queries were  *)
(* to show, which it takes for an empty answer), and, against              *)
(* docs/tax-prep.md:61 and :81, the parse errors of an import some rows of *)
(* which are stored, and mileage without a rate.                           *)
LeftOut(e) ==
    \/ e.source \in report.lost
    \/ TwinLost(e)
    \/ e.issue = "parse error" /\ HasRows(e.source)
    \/ e.issue = "no mileage rate"

(* A readiness report can be relied on: whatever was outstanding all the   *)
(* time it was made is in it or is left out for one of the reasons that    *)
(* LeftOut names; a failed query costs no more than what it was to show;   *)
(* and undisturbed, unless one failed, the report names nothing else.      *)
(* When it has seen all and finds nothing, the checklists find nothing     *)
(* either but a home of no square feet, months without a mileage rate, and *)
(* a scope without imports.                                                *)
ReadyMeansClean ==
    Answered =>
        /\ \A e \in lasting : e \in report.found \/ LeftOut(e)
        /\ Undisturbed /\ ~ report.more =>
              /\ report.found \subseteq Outstanding
              /\ \A e \in Outstanding : e \in report.found \/ LeftOut(e)
              /\ report.found = {} /\ report.lost = {} =>
                    /\ taxPrepChecklistRows({}) \subseteq {"utilities", "rates"}
                    /\ "pack" \in taxPreparedPackageRows({}, report.sources) => RateGaps # {}
                    /\ "sources" \in taxPreparedPackageRows({}, report.sources) => ScopeRows = {}
=============================================================================
