---------------------------- MODULE BackOfficeProofs ---------------------------
(***************************************************************************)
(* A readiness report misses nothing but what it names (TaxInv), and       *)
(* every decision the code computes is sound, whatever it is asked         *)
(* (AnswerIsSound).                                                        *)
(*                                                                         *)
(* At the end: what the run checks of the parts side by side follows from  *)
(* what is proved of each, here and in AccessProofs and DocumentsProofs.   *)
(***************************************************************************)
EXTENDS BackOffice, AccessProofs, DocumentsProofs

(***************************************************************************)
(* The readiness report.                                                   *)
(***************************************************************************)
StatementIssues ==
    {"statement balance difference", "statement import rows not posted", "statement not reconciled"}

Fingerprint == "duplicate import row fingerprint"

Queries == {"none", "papers", "profile", "roles", "tags", "statements", "answered"}

(* A suggestion's rows are those of a stored one.                          *)
Filed(f) ==
    /\ f = [day |-> f.day, posted |-> f.posted, payload |-> f.payload]
    /\ ~ f.payload.there => f.payload.unmapped = {} /\ f.payload.errors = {}

Dated(s) == s.start \in Int /\ s.end \in Int

(* Import rows are told apart by sheet and index and are of an import that *)
(* has been filed.                                                         *)
BooksKept ==
    /\ filed = [p \in Papers |-> filed[p]]
    /\ \A p \in Papers : Filed(filed[p])
    /\ \A l \in lines :
          /\ l = Row(l.sheet, l.index, l.day, l.cents, l.mark, l.account, l.posted)
          /\ l.sheet \in Sheets /\ filed[l.sheet].day # NoDate
    /\ \A l, x \in lines : l.sheet = x.sheet /\ l.index = x.index => l = x
    /\ settings \in Profiles
    /\ statement = NoStatement \/ Dated(statement)
    /\ reconciling # "" => Dated(statement)
    /\ edits \in Nat

(* What the report has still to read of the books it began with.           *)
Began ==
    /\ report = [at |-> report.at, seen |-> report.seen, left |-> report.left,
                 found |-> report.found, refs |-> report.refs, sources |-> report.sources,
                 uses |-> report.uses, lost |-> report.lost, more |-> report.more,
                 since |-> report.since]
    /\ report.at \in Queries /\ report.sources \in Nat /\ report.more \in BOOLEAN
    /\ report.at = "none" => lasting = {}
    /\ report.since \in Nat /\ report.since <= edits
    /\ report.left \subseteq Papers
    /\ report.at \notin {"none", "papers"} => report.left = {}
    /\ \A p \in report.left :
          /\ report.seen[p].day = filed[p].day /\ filed[p].day # NoDate
          /\ report.seen[p].posted => filed[p].posted

(* A row is the report's once it has been read, whatever became of it, or  *)
(* is lost to it.                                                          *)
Known(l) ==
    \/ l.sheet \in report.left \cup report.lost
    \/ \E x \in report.refs : x.sheet = l.sheet /\ x.index = l.index /\ x.mark = l.mark

(* Two rows of one fingerprint, both of which the report comes to see.     *)
Pair(e) ==
    \E l, y \in ScopeRows : /\ e = Item(l.sheet, Fingerprint, l.index)
                            /\ y # l /\ y.mark = l.mark /\ Known(l) /\ Known(y)

(* What has lasted since the report began and is not in it lies ahead.     *)
Ahead(e) ==
    \/ report.at = "papers" /\ e.issue # Fingerprint /\ e.source \in report.left
    \/ report.at = "papers" /\ e.issue = Fingerprint /\ Pair(e)
    \/ e.issue = "home-use allocation" /\ report.at \in {"papers", "profile"}
    \/ e.issue \in Uses /\ report.at \in {"papers", "profile", "roles"}
    \/ e.issue \in Uses /\ report.at = "tags" /\ e.issue \in report.uses
    \/ e.issue \in StatementIssues /\ report.at \notin {"none", "answered"}

Promised ==
    /\ lasting \subseteq Outstanding
    /\ \A e \in lasting : e \in report.found \/ Ahead(e) \/ LeftOut(e)

(* With the books untouched, and every query answered, nothing else is.    *)
Exact ==
    report.at # "none" /\ report.since = edits =>
        /\ lasting = Outstanding
        /\ \A p \in report.left : report.seen[p] = filed[p]
        /\ ~ report.more =>
              /\ report.found \subseteq Outstanding
              /\ report.refs \subseteq ScopeRows
              /\ report.at \in {"tags", "statements", "answered"} => report.uses \subseteq settings.uses
              /\ report.sources = 0 => \A l \in ScopeRows : l.sheet \in report.left \cup report.lost

TaxInv == BooksKept /\ Began /\ Promised /\ Exact

LEMMA PaperIs ==
  ASSUME NEW d, NEW b, NEW s, NEW f, f = [day |-> d, posted |-> b, payload |-> s],
         ~ s.there => s.unmapped = {} /\ s.errors = {}
  PROVE  Filed(f)
BY DEF Filed

LEMMA TaxBegins == TaxInit => TaxInv
<1> SUFFICES ASSUME TaxInit PROVE TaxInv
  OBVIOUS
<1>1. PICK done \in [Papers -> {"none", "mapped", "posted"}] :
        /\ filed = [p \in Papers |->
                      IF done[p] = "none" THEN NotFiled
                      ELSE [day |-> 1, posted |-> done[p] = "posted",
                            payload |-> [NoPayload EXCEPT !.there = p \in Sheets]]]
        /\ lines = {Row(p, 1, 1, MaxCents, "a", TRUE, done[p] = "posted") :
                      p \in {q \in Sheets : done[q] # "none"}}
  BY DEF TaxInit
<1>2. filed = [p \in Papers |-> filed[p]]
  BY <1>1
<1>3. \A p \in Papers : Filed(filed[p])
  <2>1. \A p \in Papers : [NoPayload EXCEPT !.there = p \in Sheets].unmapped = {} /\
                          [NoPayload EXCEPT !.there = p \in Sheets].errors = {}
    BY DEF NoPayload
  <2>2. ASSUME NEW p \in Papers, done[p] = "none" PROVE Filed(filed[p])
    BY <1>1, <2>2 DEF Filed, NotFiled, NoPayload
  <2>3. ASSUME NEW p \in Papers, done[p] # "none" PROVE Filed(filed[p])
    <3> DEFINE pl == [NoPayload EXCEPT !.there = p \in Sheets]
               b  == done[p] = "posted"
    <3>1. filed[p] = [day |-> 1, posted |-> b, payload |-> pl]
      BY <1>1, <2>3
    <3>2. pl.unmapped = {} /\ pl.errors = {}
      BY <2>1
    <3> HIDE DEF pl, b
    <3> QED BY <3>1, <3>2, PaperIs
  <2> QED BY <2>2, <2>3
<1>4. \A l \in lines :
         /\ l = Row(l.sheet, l.index, l.day, l.cents, l.mark, l.account, l.posted)
         /\ l.sheet \in Sheets /\ filed[l.sheet].day # NoDate
  BY <1>1 DEF Row, NoDate, Papers
<1>5. \A l, x \in lines : l.sheet = x.sheet /\ l.index = x.index => l = x
  <2>1. \A l \in lines : \E p \in Sheets : l = Row(p, 1, 1, MaxCents, "a", TRUE, done[p] = "posted")
    BY <1>1
  <2>2. \A l \in lines : l = Row(l.sheet, 1, 1, MaxCents, "a", TRUE, done[l.sheet] = "posted")
    BY <2>1 DEF Row
  <2> QED BY <2>2
<1>6. settings \in Profiles /\ edits \in Nat /\ reconciling = ""
  BY DEF TaxInit, Profiles
<1>7. statement = NoStatement \/ Dated(statement)
  <2> SUFFICES ASSUME statement # NoStatement PROVE Dated(statement)
    OBVIOUS
  <2>1. PICK p \in Sheets : statement =
          [start |-> 1, end |-> 2, from |-> 0, to |-> MaxCents, source |-> p, status |-> "reconciled"]
    BY DEF TaxInit
  <2> QED BY <2>1 DEF Dated
<1>8. BooksKept
  BY <1>2, <1>3, <1>4, <1>5, <1>6, <1>7 DEF BooksKept
<1>9. report = NoReport /\ lasting = {}
  BY DEF TaxInit
<1>10. Began
  <2>1. edits = 0
    BY DEF TaxInit
  <2> QED BY <2>1, <1>9 DEF Began, NoReport, Queries
<1>11. Promised /\ Exact
  BY <1>9 DEF Promised, Exact, NoReport
<1> QED BY <1>8, <1>10, <1>11 DEF TaxInv

(* Every row stays, told by the same sheet, index, day and mark.           *)
RowsStay ==
    \A l \in lines : \E m \in lines' :
        m.sheet = l.sheet /\ m.index = l.index /\ m.day = l.day /\ m.mark = l.mark

PapersStay ==
    \A p \in Papers : filed[p].day # NoDate =>
        filed'[p].day = filed[p].day /\ (filed[p].posted => filed'[p].posted)

(* Rows that stay keep what is left out where it is.                       *)
LEMMA StillLeftOut ==
  ASSUME BooksKept, RowsStay, report.lost \subseteq report'.lost, NEW e, LeftOut(e)
  PROVE  LeftOut(e)'
<1>1. CASE e.source \in report.lost \/ e.issue = "no mileage rate"
  BY <1>1 DEF LeftOut
<1>2. CASE e.issue = "parse error" /\ HasRows(e.source)
  BY <1>2 DEF LeftOut, HasRows, RowsStay
<1>3. CASE TwinLost(e)
  <2>1. PICK l \in ScopeRows, y \in ScopeRows :
           /\ e = Item(l.sheet, "duplicate import row fingerprint", l.index)
           /\ y # l /\ y.mark = l.mark /\ y.sheet \in report.lost
    BY <1>3 DEF TwinLost
  <2>2. l \in lines /\ y \in lines
    BY DEF ScopeRows
  <2>3. PICK m \in lines' : m.sheet = l.sheet /\ m.index = l.index /\ m.day = l.day /\ m.mark = l.mark
    BY <2>2 DEF RowsStay
  <2>4. PICK z \in lines' : z.sheet = y.sheet /\ z.index = y.index /\ z.day = y.day /\ z.mark = y.mark
    BY <2>2 DEF RowsStay
  <2>5. m # z
    BY <2>1, <2>2, <2>3, <2>4 DEF BooksKept
  <2>6. m \in ScopeRows' /\ z \in ScopeRows'
    BY <2>3, <2>4 DEF ScopeRows
  <2>7. e = Item(m.sheet, "duplicate import row fingerprint", m.index)
        /\ z.mark = m.mark /\ z.sheet \in report'.lost
    BY <2>1, <2>3, <2>4
  <2>8. TwinLost(e)'
    BY <2>5, <2>6, <2>7 DEF TwinLost
  <2> QED BY <2>8 DEF LeftOut
<1> QED BY <1>1, <1>2, <1>3 DEF LeftOut

(* A request that edits the books takes nothing from the report.           *)
LEMMA EditKeeps ==
  ASSUME TaxInv, BooksKept', RowsStay, PapersStay, Edit
  PROVE  TaxInv'
<1> USE DEF TaxInv
<1>1. report' = report /\ edits' = edits + 1 /\ lasting' = lasting \cap Outstanding'
  BY DEF Edit
<1>a. edits \in Nat /\ report.since \in Nat /\ report.since <= edits
  BY DEF Began, BooksKept
<1>b. edits' \in Nat /\ report'.since \in Nat /\ report'.since <= edits' /\ report'.since # edits'
  BY ONLY <1>1, <1>a
<1>2. Began'
  <2>1. \A p \in report'.left :
           /\ report'.seen[p].day = filed'[p].day /\ filed'[p].day # NoDate
           /\ report'.seen[p].posted => filed'[p].posted
    BY <1>1 DEF Began, PapersStay
  <2>2. report'.since <= edits' /\ report'.since \in Nat
    BY <1>b
  <2>3. report'.at = "none" => lasting' = {}
    BY <1>1 DEF Began
  <2>4. report'.left \subseteq Papers /\ (report'.at \notin {"none", "papers"} => report'.left = {})
    BY <1>1 DEF Began
  <2> QED BY <1>1, <2>1, <2>2, <2>3, <2>4 DEF Began
<1>3. Promised'
  <2>1. lasting' \subseteq Outstanding'
    BY <1>1
  <2>2. ASSUME NEW e \in lasting' PROVE e \in report'.found \/ Ahead(e)' \/ LeftOut(e)'
    <3>1. e \in report.found \/ Ahead(e) \/ LeftOut(e)
      BY <1>1, <2>2 DEF Promised
    <3>2. Pair(e) => Pair(e)'
      <4> SUFFICES ASSUME Pair(e) PROVE Pair(e)'
        OBVIOUS
      <4>1. PICK l \in ScopeRows, y \in ScopeRows :
               /\ e = Item(l.sheet, Fingerprint, l.index)
               /\ y # l /\ y.mark = l.mark /\ Known(l) /\ Known(y)
        BY DEF Pair
      <4>2. l \in lines /\ y \in lines
        BY DEF ScopeRows
      <4>3. PICK m \in lines' : m.sheet = l.sheet /\ m.index = l.index /\ m.day = l.day /\ m.mark = l.mark
        BY <4>2 DEF RowsStay
      <4>4. PICK z \in lines' : z.sheet = y.sheet /\ z.index = y.index /\ z.day = y.day /\ z.mark = y.mark
        BY <4>2 DEF RowsStay
      <4>5. m # z
        BY <4>1, <4>2, <4>3, <4>4 DEF BooksKept
      <4>6. m \in ScopeRows' /\ z \in ScopeRows'
        BY <4>3, <4>4 DEF ScopeRows
      <4>7. Known(m)' /\ Known(z)'
        BY <1>1, <4>1, <4>3, <4>4 DEF Known
      <4>8. e = Item(m.sheet, Fingerprint, m.index) /\ z.mark = m.mark
        BY <4>1, <4>3, <4>4 DEF Item
      <4> QED BY <4>5, <4>6, <4>7, <4>8 DEF Pair
    <3>3. LeftOut(e) => LeftOut(e)'
      BY <1>1, StillLeftOut
    <3> QED BY <1>1, <3>1, <3>2, <3>3 DEF Ahead
  <2> QED BY <2>1, <2>2 DEF Promised
<1>4. Exact'
  <2>1. report'.since # edits'
    BY <1>b
  <2> QED BY <2>1, Zenon DEF Exact
<1> QED BY <1>2, <1>3, <1>4

(* One field of a row or of a paper is written.                            *)
LEMMA RowField ==
  ASSUME NEW l, l = Row(l.sheet, l.index, l.day, l.cents, l.mark, l.account, l.posted), NEW x, NEW k
  PROVE  /\ k = [l EXCEPT !.account = x] => k = Row(l.sheet, l.index, l.day, l.cents, l.mark, x, l.posted)
         /\ k = [l EXCEPT !.posted = x] => k = Row(l.sheet, l.index, l.day, l.cents, l.mark, l.account, x)
BY DEF Row

LEMMA PaperField ==
  ASSUME NEW f, Filed(f), NEW x, NEW k
  PROVE  /\ k = [f EXCEPT !.day = x] => k = [day |-> x, posted |-> f.posted, payload |-> f.payload]
         /\ k = [f EXCEPT !.posted = x] => k = [day |-> f.day, posted |-> x, payload |-> f.payload]
         /\ k = [f EXCEPT !.payload = x] => k = [day |-> f.day, posted |-> f.posted, payload |-> x]
BY DEF Filed

LEMMA EditCounts ==
  ASSUME TaxInv, Edit PROVE edits' \in Nat
<1>1. edits \in Nat
  BY DEF TaxInv, BooksKept
<1>2. edits' = edits + 1
  BY DEF Edit
<1> QED BY ONLY <1>1, <1>2

(* A request that leaves papers and rows alone.                            *)
LEMMA OtherEditKeeps ==
  ASSUME TaxInv, Edit, UNCHANGED <<filed, lines>>, settings' \in Profiles,
         statement' = NoStatement \/ Dated(statement'), reconciling' # "" => Dated(statement')
  PROVE  TaxInv'
<1>1. edits' \in Nat
  BY EditCounts
<1>2. BooksKept'
  BY <1>1 DEF TaxInv, BooksKept
<1>3. RowsStay /\ PapersStay
  BY DEF RowsStay, PapersStay
<1> QED BY <1>2, <1>3, EditKeeps

(* A row is mapped or posted.                                              *)
LEMMA RowEditKeeps ==
  ASSUME TaxInv, Edit, UNCHANGED <<filed, statement, settings, reconciling>>, NEW l \in lines,
         NEW a, NEW b, lines' = (lines \ {l}) \cup {Row(l.sheet, l.index, l.day, l.cents, l.mark, a, b)}
  PROVE  TaxInv'
<1> DEFINE m == Row(l.sheet, l.index, l.day, l.cents, l.mark, a, b)
<1>1. /\ m.sheet = l.sheet /\ m.index = l.index /\ m.day = l.day /\ m.mark = l.mark
      /\ m = Row(m.sheet, m.index, m.day, m.cents, m.mark, m.account, m.posted)
  BY DEF Row
<1>2. lines' = (lines \ {l}) \cup {m}
  OBVIOUS
<1> HIDE DEF m
<1>3. \A x \in lines' :
         /\ x = Row(x.sheet, x.index, x.day, x.cents, x.mark, x.account, x.posted)
         /\ x.sheet \in Sheets /\ filed'[x.sheet].day # NoDate
  BY <1>1, <1>2 DEF TaxInv, BooksKept
<1>4. \A x, y \in lines' : x.sheet = y.sheet /\ x.index = y.index => x = y
  <2>1. \A x, y \in lines : x.sheet = y.sheet /\ x.index = y.index => x = y
    BY DEF TaxInv, BooksKept
  <2> QED BY ONLY <1>1, <1>2, <2>1, l \in lines
<1>5. edits' \in Nat
  BY EditCounts
<1>6. BooksKept'
  BY <1>3, <1>4, <1>5 DEF TaxInv, BooksKept
<1>7. RowsStay /\ PapersStay
  BY <1>1, <1>2 DEF RowsStay, PapersStay
<1> QED BY <1>6, <1>7, EditKeeps

LEMMA MapRowKeeps ==
  ASSUME TaxInv, NEW l \in lines, MapRow(l) PROVE TaxInv'
<1>1. l = Row(l.sheet, l.index, l.day, l.cents, l.mark, l.account, l.posted)
  BY DEF TaxInv, BooksKept
<1>2. [l EXCEPT !.account = TRUE] = Row(l.sheet, l.index, l.day, l.cents, l.mark, TRUE, l.posted)
  BY <1>1, RowField, Zenon
<1>3. Edit /\ UNCHANGED <<filed, statement, settings, reconciling>>
      /\ lines' = (lines \ {l}) \cup {Row(l.sheet, l.index, l.day, l.cents, l.mark, TRUE, l.posted)}
  BY <1>2 DEF MapRow
<1> QED BY <1>3, RowEditKeeps

LEMMA PostRowKeeps ==
  ASSUME TaxInv, NEW l \in lines, PostRow(l) PROVE TaxInv'
<1>1. l = Row(l.sheet, l.index, l.day, l.cents, l.mark, l.account, l.posted)
  BY DEF TaxInv, BooksKept
<1>2. [l EXCEPT !.posted = TRUE] = Row(l.sheet, l.index, l.day, l.cents, l.mark, l.account, TRUE)
  BY <1>1, RowField, Zenon
<1>3. Edit /\ UNCHANGED <<filed, statement, settings, reconciling>>
      /\ lines' = (lines \ {l}) \cup {Row(l.sheet, l.index, l.day, l.cents, l.mark, l.account, TRUE)}
  BY <1>2 DEF PostRow
<1> QED BY <1>3, RowEditKeeps

(* A paper is filed or posted.                                             *)
LEMMA PaperEditKeeps ==
  ASSUME TaxInv, Edit, UNCHANGED <<lines, statement, settings, reconciling>>, NEW p \in Papers,
         NEW f, Filed(f), filed' = [filed EXCEPT ![p] = f],
         filed[p].day # NoDate => f.day = filed[p].day,
         filed[p].posted => f.posted
  PROVE  TaxInv'
<1>1. filed' = [q \in Papers |-> filed'[q]] /\ filed'[p] = f /\ \A q \in Papers \ {p} : filed'[q] = filed[q]
  BY DEF TaxInv, BooksKept
<1>2. \A q \in Papers : Filed(filed'[q])
  BY <1>1 DEF TaxInv, BooksKept
<1>3. RowsStay /\ PapersStay
  BY <1>1 DEF RowsStay, PapersStay
<1>4. \A x \in lines' :
         /\ x = Row(x.sheet, x.index, x.day, x.cents, x.mark, x.account, x.posted)
         /\ x.sheet \in Sheets /\ filed'[x.sheet].day # NoDate
  BY <1>3 DEF TaxInv, BooksKept, PapersStay, Papers
<1>5. edits' \in Nat
  BY EditCounts
<1>6. BooksKept'
  BY <1>1, <1>2, <1>4, <1>5 DEF TaxInv, BooksKept
<1> QED BY <1>3, <1>6, EditKeeps

LEMMA FilePaperKeeps ==
  ASSUME TaxInv, NEW p \in Papers, NEW d, FilePaper(p, d) PROVE TaxInv'
<1> DEFINE f == [filed[p] EXCEPT !.day = d]
<1>a. Filed(filed[p])
  BY DEF TaxInv, BooksKept
<1>b. f = [day |-> d, posted |-> filed[p].posted, payload |-> filed[p].payload]
  BY <1>a, PaperField, Zenon
<1>1. Filed(f) /\ f.posted = filed[p].posted
  <2>1. ~ filed[p].payload.there => filed[p].payload.unmapped = {} /\ filed[p].payload.errors = {}
    BY <1>a DEF Filed
  <2> QED BY ONLY <1>b, <2>1 DEF Filed
<1>2. filed' = [filed EXCEPT ![p] = f] /\ filed[p].day = NoDate
  BY DEF FilePaper
<1> HIDE DEF f
<1> QED BY <1>1, <1>2, PaperEditKeeps DEF FilePaper

LEMMA PostPaperKeeps ==
  ASSUME TaxInv, NEW p \in Papers, PostPaper(p) PROVE TaxInv'
<1> DEFINE f == [filed[p] EXCEPT !.posted = TRUE]
<1>a. Filed(filed[p])
  BY DEF TaxInv, BooksKept
<1>b. f = [day |-> filed[p].day, posted |-> TRUE, payload |-> filed[p].payload]
  BY <1>a, PaperField, Zenon
<1>1. Filed(f) /\ f.day = filed[p].day /\ f.posted
  <2>1. ~ filed[p].payload.there => filed[p].payload.unmapped = {} /\ filed[p].payload.errors = {}
    BY <1>a DEF Filed
  <2> QED BY ONLY <1>b, <2>1 DEF Filed
<1>2. filed' = [filed EXCEPT ![p] = f]
  BY DEF PostPaper
<1> HIDE DEF f
<1> QED BY <1>1, <1>2, PaperEditKeeps DEF PostPaper

(* What a reading finds are new rows of an import that had none.           *)
LEMMA StoreReadingKeeps ==
  ASSUME TaxInv, NEW p \in Sheets, StoreReading(p) PROVE TaxInv'
<1>1. PICK r \in Readings(p) :
        /\ lines' = lines \cup r[1]
        /\ filed' = [filed EXCEPT ![p] = [@ EXCEPT !.payload = [r[2] EXCEPT !.there = TRUE]]]
  BY DEF StoreReading
<1> DEFINE f == [filed[p] EXCEPT !.payload = [r[2] EXCEPT !.there = TRUE]]
<1>2. p \in Papers /\ filed[p].day # NoDate /\ ~ HasRows(p) /\ Edit /\ UNCHANGED <<statement, settings, reconciling>>
  BY DEF StoreReading, Papers
<1>a. Filed(filed[p])
  BY <1>2 DEF TaxInv, BooksKept
<1>b. f = [day |-> filed[p].day, posted |-> filed[p].posted, payload |-> [r[2] EXCEPT !.there = TRUE]]
  BY <1>a, PaperField, Zenon
<1>3. Filed(f) /\ f.day = filed[p].day /\ f.posted = filed[p].posted
  <2>1. r[2] \in {[unmapped |-> {}, errors |-> {}, there |-> FALSE],
                  [unmapped |-> {}, errors |-> {3}, there |-> TRUE],
                  [unmapped |-> {NoDate}, errors |-> {1}, there |-> TRUE]}
    BY DEF Readings, NoPayload
  <2>2. [r[2] EXCEPT !.there = TRUE].there
    BY ONLY <2>1
  <2> QED BY ONLY <1>b, <2>2 DEF Filed
<1>4. filed' = [filed EXCEPT ![p] = f]
  BY <1>1
<1> HIDE DEF f
<1>5. /\ filed' = [q \in Papers |-> filed'[q]] /\ filed'[p] = f
      /\ \A q \in Papers \ {p} : filed'[q] = filed[q]
  BY <1>2, <1>4 DEF TaxInv, BooksKept
<1>6. \A q \in Papers : Filed(filed'[q])
  BY <1>3, <1>5 DEF TaxInv, BooksKept
<1>7. RowsStay /\ PapersStay
  BY <1>1, <1>3, <1>5 DEF RowsStay, PapersStay
<1>8. \A x \in r[1] :
         /\ x = Row(x.sheet, x.index, x.day, x.cents, x.mark, x.account, x.posted)
         /\ x.sheet = p
  BY DEF Readings, Line, Row
<1>9. \A x, y \in r[1] : x.index = y.index => x = y
  <2>1. \/ r[1] = {Line(p, 1, 1, MaxCents, "a"), Line(p, 2, 2, MaxCents, "a")}
        \/ r[1] = {Line(p, 1, 1, MaxCents, "a"), Line(p, 2, 0, -MaxCents, "b")}
        \/ r[1] = {}
    BY DEF Readings
  <2>2. Line(p, 1, 1, MaxCents, "a").index = 1 /\ Line(p, 2, 2, MaxCents, "a").index = 2
        /\ Line(p, 2, 0, -MaxCents, "b").index = 2
    BY DEF Line, Row
  <2> QED BY <2>1, <2>2
<1>10. \A x \in lines' :
         /\ x = Row(x.sheet, x.index, x.day, x.cents, x.mark, x.account, x.posted)
         /\ x.sheet \in Sheets /\ filed'[x.sheet].day # NoDate
  BY <1>1, <1>2, <1>3, <1>5, <1>7, <1>8 DEF TaxInv, BooksKept, PapersStay, Papers
<1>11. \A x, y \in lines' : x.sheet = y.sheet /\ x.index = y.index => x = y
  <2>1. \A x \in lines : x.sheet # p
    BY <1>2 DEF HasRows
  <2> QED BY <1>1, <1>8, <1>9, <2>1 DEF TaxInv, BooksKept
<1>12. edits' \in Nat
  BY <1>2, EditCounts
<1>13. BooksKept'
  BY <1>2, <1>5, <1>6, <1>10, <1>11, <1>12 DEF TaxInv, BooksKept
<1> QED BY <1>2, <1>7, <1>13, EditKeeps

LEMMA StatementKeeps ==
  ASSUME TaxInv, NEW r \in Periods, NEW to, NEW p, NEW st, WriteStatement(r[1], r[2], to, p, st)
  PROVE  TaxInv'
<1>1. Dated(statement')
  BY DEF WriteStatement, Periods, Dated
<1> QED BY <1>1, OtherEditKeeps DEF WriteStatement, TaxInv, BooksKept

LEMMA ReconcileKeeps ==
  ASSUME TaxInv, ReconcileWrites PROVE TaxInv'
<1>1. Dated(statement) /\ statement' = [statement EXCEPT !.status = reconciling]
  BY DEF ReconcileWrites, TaxInv, BooksKept
<1>2. Dated(statement')
  BY <1>1 DEF Dated
<1>3. Edit /\ UNCHANGED <<filed, lines, settings>>
  BY DEF ReconcileWrites
<1> QED BY <1>2, <1>3, OtherEditKeeps DEF TaxInv, BooksKept

(* Settings, tags, trips and rates.                                        *)
LEMMA SettingsKeep ==
  ASSUME TaxInv,
         \/ \E f \in Profiles : handleUpdateEntityTaxSettings(f)
         \/ \E u \in {{}, Uses} : TagAccounts(u)
         \/ \E d \in {1, 2} : handleMileageCreate(d) \/ handleMileageUpdate(d, 3 - d)
                              \/ handleMileageDelete(d) \/ UpsertRate(YearOf(d))
  PROVE  TaxInv'
<1>1. Edit /\ UNCHANGED <<filed, lines, statement, reconciling>> /\ settings' \in Profiles
  BY DEF handleUpdateEntityTaxSettings, TagAccounts, handleMileageCreate, handleMileageUpdate,
         handleMileageDelete, UpsertRate, TaxInv, BooksKept
<1> QED BY <1>1, OtherEditKeeps DEF TaxInv, BooksKept

(* What is outstanding depends on the books alone.                         *)
LEMMA BooksRest ==
  ASSUME UNCHANGED books PROVE Outstanding' = Outstanding /\ ScopeRows' = ScopeRows
<1>1. lines' = lines /\ statement' = statement /\ filed' = filed /\ settings' = settings /\ tagged' = tagged
  BY DEF books
<1>2. ScopeRows' = ScopeRows
  BY <1>1 DEF ScopeRows
<1>3. RowItems' = RowItems
  BY <1>1, <1>2 DEF RowItems
<1>4. PaperItems' = PaperItems
  BY <1>1 DEF PaperItems, Whole, HasRows
<1>5. PeriodRows(statement)' = PeriodRows(statement)
  BY <1>1 DEF PeriodRows
<1>6. UnpostedRows(statement)' = UnpostedRows(statement)
  BY <1>1, <1>5 DEF UnpostedRows
<1>7. Difference(statement)' = Difference(statement)
  BY <1>1, <1>5, Zenon DEF Difference
<1>8. StatementItems' = StatementItems
  BY <1>1, <1>6, <1>7, Zenon DEF StatementItems
<1>10. ErrorItems' = ErrorItems
  BY <1>1, <1>2 DEF ErrorItems, Whole, HasRows
<1>11. RateItems' = RateItems
  BY DEF RateItems, RateGaps, books
<1>9. SettingItems' = SettingItems
  BY <1>1 DEF SettingItems
<1> QED BY <1>2, <1>3, <1>4, <1>8, <1>9, <1>10, <1>11 DEF Outstanding

LEMMA ReportRests ==
  ASSUME TaxInv, UNCHANGED <<books, report, edits, lasting>> PROVE (Promised /\ Exact)'
<1>1. Outstanding' = Outstanding /\ ScopeRows' = ScopeRows
  BY BooksRest
<1>2. \A e : Pair(e)' = Pair(e)
  BY <1>1, Zenon DEF Pair, Known
<1>3. \A e : Ahead(e)' = Ahead(e)
  BY <1>2, Zenon DEF Ahead
<1>6. \A e \in lasting : LeftOut(e) => LeftOut(e)'
  BY <1>1, StillLeftOut DEF books, RowsStay, TaxInv
<1>4. Promised'
  BY <1>1, <1>3, <1>6 DEF TaxInv, Promised
<1>5. Exact'
  BY <1>1, Zenon DEF TaxInv, Exact, books
<1> QED BY <1>4, <1>5

(* The first half of Reconcile reads.                                      *)
LEMMA ReconcileReadKeeps ==
  ASSUME TaxInv, ReconcileReads PROVE TaxInv'
<1>1. UNCHANGED <<books, report, edits, lasting>> /\ statement # NoStatement
  BY DEF ReconcileReads
<1>2. BooksKept'
  BY <1>1 DEF TaxInv, BooksKept, books
<1>3. Began'
  BY <1>1 DEF TaxInv, Began, books
<1> QED BY <1>1, <1>2, <1>3, ReportRests DEF TaxInv

(* The report with what one query has changed.                             *)
Report(at, left, found, refs, sources, roles, lost, more) ==
    [at |-> at, seen |-> report.seen, left |-> left, found |-> found, refs |-> refs,
     sources |-> sources, uses |-> roles, lost |-> lost, more |-> more, since |-> report.since]

LEMMA ReportIs ==
  ASSUME TaxInv
  PROVE  report = [at |-> report.at, seen |-> report.seen, left |-> report.left,
                   found |-> report.found, refs |-> report.refs, sources |-> report.sources,
                   uses |-> report.uses, lost |-> report.lost, more |-> report.more,
                   since |-> report.since]
BY DEF TaxInv, Began

(* A query that finds what lay ahead of it alone, or loses it and says so, *)
(* and that undisturbed finds only what is outstanding, keeps the          *)
(* invariant.                                                              *)
Query(at, left, news, refs, sources, roles, lost, more) ==
    /\ UNCHANGED <<books, reconciling, edits, lasting>> /\ report.at # "none"
    /\ report' = Report(at, left, report.found \cup news, refs, sources, roles, lost, more)
    /\ at \in Queries \ {"none"} /\ left \subseteq report.left /\ sources \in Nat
    /\ report.lost \subseteq lost /\ more \in BOOLEAN /\ (report.more => more)
    /\ at = "papers" \/ left = {}
    /\ \A e \in lasting : Ahead(e) => e \in news \/ Ahead(e)' \/ LeftOut(e)'
    /\ report.since = edits /\ ~ more =>
         /\ news \subseteq Outstanding /\ refs \subseteq ScopeRows
         /\ at \in {"tags", "statements", "answered"} => roles \subseteq settings.uses
         /\ sources = 0 => \A l \in ScopeRows : l.sheet \in left \cup lost

LEMMA QueryKeeps ==
  ASSUME TaxInv, NEW at, NEW left, NEW news, NEW refs, NEW sources, NEW roles, NEW lost, NEW more,
         Query(at, left, news, refs, sources, roles, lost, more)
  PROVE  TaxInv'
<1> USE DEF Query
<1>1. /\ report'.at = at /\ report'.seen = report.seen /\ report'.left = left
      /\ report'.found = report.found \cup news /\ report'.refs = refs /\ report'.sources = sources
      /\ report'.uses = roles /\ report'.lost = lost /\ report'.more = more /\ report'.since = report.since
      /\ report' = [at |-> report'.at, seen |-> report'.seen, left |-> report'.left,
                found |-> report'.found, refs |-> report'.refs, sources |-> report'.sources,
                uses |-> report'.uses, lost |-> report'.lost, more |-> report'.more,
                since |-> report'.since]
  BY DEF Report
<1>2. Outstanding' = Outstanding /\ ScopeRows' = ScopeRows
  BY BooksRest
<1>3. BooksKept'
  BY DEF TaxInv, BooksKept, books
<1>4. Began'
  <2>1. /\ UNCHANGED <<filed, edits, lasting>>
        /\ at \in Queries \ {"none"} /\ left \subseteq report.left /\ sources \in Nat
        /\ more \in BOOLEAN /\ (at = "papers" \/ left = {})
    BY DEF books
  <2> HIDE DEF Query
  <2>2. \A p \in left : /\ report'.seen[p].day = filed'[p].day /\ filed'[p].day # NoDate
                        /\ report'.seen[p].posted => filed'[p].posted
    BY <1>1, <2>1 DEF TaxInv, Began
  <2>3. report'.since \in Nat /\ report'.since <= edits' /\ report'.left \subseteq Papers
    BY <1>1, <2>1 DEF TaxInv, Began
  <2> QED BY <1>1, <2>1, <2>2, <2>3 DEF Began
<1>5. Promised'
  <2>1. lasting' \subseteq Outstanding'
    BY <1>2 DEF TaxInv, Promised
  <2>2. ASSUME NEW e \in lasting' PROVE e \in report'.found \/ Ahead(e)' \/ LeftOut(e)'
    <3>1. e \in lasting /\ (Ahead(e) => e \in news \/ Ahead(e)' \/ LeftOut(e)')
      BY <2>2
    <3>2. e \in report.found \/ Ahead(e) \/ LeftOut(e)
      BY <3>1 DEF TaxInv, Promised
    <3>3. report.lost \subseteq report'.lost /\ RowsStay /\ BooksKept
      BY <1>1 DEF RowsStay, books, TaxInv
    <3>4. LeftOut(e) => LeftOut(e)'
      BY <3>3, StillLeftOut
    <3> QED BY <1>1, <3>1, <3>2, <3>4
  <2> QED BY <2>1, <2>2 DEF Promised
<1>6. Exact'
  <2>1. settings' = settings /\ filed' = filed /\ edits' = edits /\ lasting' = lasting
    BY DEF books
  <2>2. SUFFICES ASSUME report.since = edits
        PROVE /\ lasting' = Outstanding'
              /\ \A p \in report'.left : report'.seen[p] = filed'[p]
              /\ ~ report'.more =>
                    /\ report'.found \subseteq Outstanding'
                    /\ report'.refs \subseteq ScopeRows'
                    /\ report'.at \in {"tags", "statements", "answered"} => report'.uses \subseteq settings'.uses
                    /\ report'.sources = 0 =>
                          \A l \in ScopeRows' : l.sheet \in report'.left \cup report'.lost
    BY <1>1, <2>1 DEF Exact
  <2>3. /\ lasting = Outstanding /\ \A p \in report.left : report.seen[p] = filed[p]
        /\ ~ report.more => report.found \subseteq Outstanding
    BY <2>2, Zenon DEF TaxInv, Exact
  <2> QED BY <1>1, <1>2, <2>1, <2>2, <2>3
<1> QED BY <1>3, <1>4, <1>5, <1>6 DEF TaxInv

LEMMA ItemFields ==
  ASSUME NEW s, NEW i, NEW n
  PROVE  Item(s, i, n).source = s /\ Item(s, i, n).issue = i /\ Item(s, i, n).index = n
BY DEF Item

LEMMA ItemIs ==
  ASSUME NEW e, NEW s, NEW i, NEW n, e = Item(s, i, n) PROVE e.source = s /\ e.issue = i
BY DEF Item

(* A parse error is of an import that concerns the scope.                  *)
LEMMA ErrorOf ==
  ASSUME NEW e \in ErrorItems
  PROVE  /\ e.issue = "parse error"
         /\ \E p \in Sheets : /\ Whole(p) \/ \E l \in ScopeRows : l.sheet = p
                             /\ e.source = p
                             /\ \E i \in filed[p].payload.errors : e = Item(p, "parse error", i)
<1>1. PICK p \in Sheets : /\ Whole(p) \/ \E l \in ScopeRows : l.sheet = p
                          /\ e \in {Item(p, "parse error", i) : i \in filed[p].payload.errors}
  BY DEF ErrorItems
<1>2. PICK i \in filed[p].payload.errors : e = Item(p, "parse error", i)
  BY <1>1
<1>3. e.issue = "parse error" /\ e.source = p
  BY <1>2 DEF Item
<1> QED BY <1>1, <1>2, <1>3

(* Whose an outstanding thing is, by its name.                             *)
LEMMA IssueOf ==
  ASSUME settings \in Profiles, NEW e \in Outstanding
  PROVE  /\ e.issue = "home-use allocation" =>
              e = Item("entity", e.issue, 0) /\ settings.status # "complete"
         /\ e.issue \in Uses => e = Item("entity", e.issue, 0) /\ e.issue \in settings.uses \ tagged
         /\ e.issue \in StatementIssues => e \in StatementItems
         /\ e.issue = Fingerprint =>
              \E l, y \in ScopeRows : e = Item(l.sheet, Fingerprint, l.index) /\ y # l /\ y.mark = l.mark
         /\ \/ e.issue \in Uses \cup StatementIssues \cup {"home-use allocation", Fingerprint}
            \/ e \in PaperItems
            \/ e \in ErrorItems
            \/ e.issue = "no mileage rate"
            \/ \E l \in ScopeRows : ~ (l.account /\ l.posted) /\ e =
                 Item(l.sheet, IF l.account THEN "import row not posted" ELSE "unmapped import row", l.index)
<1> DEFINE Names == {"home-use allocation", Fingerprint} \cup Uses \cup StatementIssues
           PaperNames == {"not posted", "missing import suggestion/row mapping", "unmapped import row"}
<1>0. /\ Fingerprint \notin Uses \cup StatementIssues \cup {"home-use allocation"}
      /\ "home-use allocation" \notin Uses \cup StatementIssues
      /\ Uses \cap StatementIssues = {}
      /\ Names = {"home-use allocation", Fingerprint} \cup Uses \cup StatementIssues
  BY DEF Uses, StatementIssues, Fingerprint
<1>a. "unmapped import row" \notin Names /\ "import row not posted" \notin Names
  BY DEF Uses, StatementIssues, Fingerprint
<1>b. \A i \in PaperNames : i \notin Names
  BY DEF Uses, StatementIssues, Fingerprint
<1>c. "parse error" \notin Names /\ "no mileage rate" \notin Names
  BY DEF Uses, StatementIssues, Fingerprint
<1> HIDE DEF Names, PaperNames
<1>1. CASE e \in RowItems
  <2>1. CASE \E l \in ScopeRows : ~ l.account /\ e = Item(l.sheet, "unmapped import row", l.index)
    <3>1. PICK l \in ScopeRows : ~ l.account /\ e = Item(l.sheet, "unmapped import row", l.index)
      BY <2>1
    <3>a. e.issue = "unmapped import row"
      BY <3>1 DEF Item
    <3>2. e.issue \notin Names
      BY <1>a, <3>a, Zenon
    <3> QED BY <1>0, <3>1, <3>2
  <2>2. CASE \E l \in ScopeRows : l.account /\ ~ l.posted /\ e = Item(l.sheet, "import row not posted", l.index)
    <3>1. PICK l \in ScopeRows : l.account /\ ~ l.posted /\ e = Item(l.sheet, "import row not posted", l.index)
      BY <2>2
    <3>a. e.issue = "import row not posted"
      BY <3>1 DEF Item
    <3>2. e.issue \notin Names
      BY <1>a, <3>a, Zenon
    <3> QED BY <1>0, <3>1, <3>2
  <2>3. CASE \E l \in ScopeRows : (\E y \in ScopeRows : y # l /\ y.mark = l.mark) /\
                e = Item(l.sheet, Fingerprint, l.index)
    <3>1. PICK l \in ScopeRows, y \in ScopeRows :
            y # l /\ y.mark = l.mark /\ e = Item(l.sheet, Fingerprint, l.index)
      BY <2>3
    <3>2. e.issue = Fingerprint
      BY <3>1, ItemFields
    <3> QED BY <1>0, <3>1, <3>2
  <2> QED BY <1>1, <2>1, <2>2, <2>3 DEF RowItems, Fingerprint
<1>2. CASE e \in PaperItems
  <2>1. \/ \E p : e = Item(p, "not posted", 0)
        \/ \E p : e = Item(p, "missing import suggestion/row mapping", 0)
        \/ \E p, d : e = Item(p, "unmapped import row", d)
    BY <1>2 DEF PaperItems
  <2>2. e.issue \in PaperNames
    <3>1. ASSUME NEW p, NEW d, e = Item(p, "not posted", d) PROVE e.issue = "not posted"
      BY <3>1 DEF Item
    <3>2. ASSUME NEW p, NEW d, e = Item(p, "missing import suggestion/row mapping", d)
          PROVE  e.issue = "missing import suggestion/row mapping"
      BY <3>2 DEF Item
    <3>3. ASSUME NEW p, NEW d, e = Item(p, "unmapped import row", d) PROVE e.issue = "unmapped import row"
      BY <3>3 DEF Item
    <3> QED BY <2>1, <3>1, <3>2, <3>3, Zenon DEF PaperNames
  <2>3. e.issue \notin Names
    BY <1>b, <2>2
  <2> QED BY <1>0, <1>2, <2>3
<1>3. CASE e \in StatementItems
  <2>1. \E i : i \in StatementIssues /\ e = Item("statement", i, 0)
    BY <1>3 DEF StatementItems, StatementIssues, When
  <2>2. e.issue \in StatementIssues
    BY <2>1, ItemFields
  <2> QED BY <1>0, <1>3, <2>2
<1>4. CASE e \in SettingItems
  <2>1. CASE settings.status # "complete" /\ e = Item("entity", "home-use allocation", 0)
    <3>1. e.issue = "home-use allocation"
      BY <2>1 DEF Item
    <3> QED BY <1>0, <2>1, <3>1, Zenon
  <2>2. CASE \E use \in settings.uses \ tagged : e = Item("entity", use, 0)
    <3>1. PICK use \in settings.uses \ tagged : e = Item("entity", use, 0)
      BY <2>2
    <3>2. e.issue = use
      BY <3>1, ItemFields
    <3>3. settings.uses \subseteq Uses
      BY DEF Profiles, Missing, Uses
    <3> QED BY <1>0, <3>1, <3>2, <3>3
  <2> QED BY <1>4, <2>1, <2>2 DEF SettingItems, When
<1>5. CASE e \in ErrorItems
  <2>1. e.issue = "parse error"
    BY <1>5, ErrorOf
  <2>2. e.issue \notin Names
    BY <1>c, <2>1, Zenon
  <2> QED BY <1>0, <1>5, <2>2
<1>6. CASE e \in RateItems
  <2>1. PICK d \in RateGaps : e = Item("mileage", "no mileage rate", d)
    BY <1>6 DEF RateItems
  <2>2. e.issue = "no mileage rate"
    BY <2>1 DEF Item
  <2>3. e.issue \notin Names
    BY <1>c, <2>2, Zenon
  <2> QED BY <1>0, <2>2, <2>3
<1> QED BY <1>1, <1>2, <1>3, <1>4, <1>5, <1>6 DEF Outstanding

(* What is outstanding of a paper judged by itself.                        *)
LEMMA PaperOf ==
  ASSUME NEW e \in PaperItems
  PROVE  \E p \in Papers : /\ Whole(p) /\ e.source = p
           /\ \/ ~ filed[p].posted /\ e = Item(p, "not posted", 0)
              \/ p \in Sheets /\ ~ filed[p].payload.there /\
                 e = Item(p, "missing import suggestion/row mapping", 0)
              \/ p \in Sheets /\ \E d \in filed[p].payload.unmapped :
                    InScope(d) /\ e = Item(p, "unmapped import row", d)
<1>1. ASSUME NEW p, NEW i, NEW n, e = Item(p, i, n) PROVE e.source = p
  BY <1>1 DEF Item
<1>2. Sheets \subseteq Papers
  BY DEF Papers
<1>3. CASE e \in {Item(p, "not posted", 0) : p \in {q \in Papers : Whole(q) /\ ~ filed[q].posted}}
  BY <1>1, <1>3
<1>4. CASE e \in {Item(p, "missing import suggestion/row mapping", 0) :
                   p \in {q \in Sheets : Whole(q) /\ ~ filed[q].payload.there}}
  BY <1>1, <1>2, <1>4
<1>5. CASE \E p \in {q \in Sheets : Whole(q)} :
             e \in {Item(p, "unmapped import row", d) : d \in {x \in filed[p].payload.unmapped : InScope(x)}}
  BY <1>1, <1>2, <1>5
<1> QED BY <1>3, <1>4, <1>5 DEF PaperItems

LEMMA ReportStartKeeps ==
  ASSUME TaxInv, NEW listed, handleReportTaxReadiness(listed) PROVE TaxInv'
<1>1. /\ report.at = "none" /\ lasting' = Outstanding /\ UNCHANGED <<books, reconciling, edits>>
      /\ listed \subseteq Uploaded
      /\ report' = [NoReport EXCEPT !.at = "papers", !.seen = filed, !.since = edits,
                                    !.left = listed, !.lost = Uploaded \ listed]
  BY DEF handleReportTaxReadiness
<1> DEFINE next == [at |-> "papers", seen |-> filed, left |-> listed, found |-> {}, refs |-> {}, sources |-> 0,
                    uses |-> {}, lost |-> Uploaded \ listed, more |-> FALSE, since |-> edits]
<1>2. report' = next
  BY <1>1, Zenon DEF NoReport
<1>3. /\ report'.at = "papers" /\ report'.seen = filed /\ report'.left = listed /\ report'.found = {}
      /\ report'.refs = {} /\ report'.sources = 0 /\ report'.uses = {} /\ report'.more = FALSE
      /\ report'.lost = Uploaded \ listed /\ report'.since = edits
      /\ report' = [at |-> report'.at, seen |-> report'.seen, left |-> report'.left,
                found |-> report'.found, refs |-> report'.refs, sources |-> report'.sources,
                uses |-> report'.uses, lost |-> report'.lost, more |-> report'.more,
                since |-> report'.since]
  BY ONLY <1>2
<1>4. Outstanding' = Outstanding /\ ScopeRows' = ScopeRows /\ edits' = edits /\ filed' = filed /\ lines' = lines
  BY <1>1, BooksRest DEF books
<1>5. BooksKept'
  BY <1>1 DEF TaxInv, BooksKept, books
<1>6. edits \in Nat /\ settings \in Profiles
  BY DEF TaxInv, BooksKept
<1>7. Began'
  <2>1. \A p \in report'.left :
           /\ report'.seen[p].day = filed'[p].day /\ filed'[p].day # NoDate
           /\ report'.seen[p].posted => filed'[p].posted
    BY <1>1, <1>3, <1>4 DEF Uploaded
  <2>2. report'.since \in Nat /\ report'.since <= edits' /\ report'.at \in Queries
    BY <1>3, <1>4, <1>6 DEF Queries
  <2>3. report'.left \subseteq Papers
    BY <1>1, <1>3 DEF Uploaded
  <2>4. report'.sources \in Nat /\ report'.more \in BOOLEAN /\ report'.at = "papers"
    BY ONLY <1>2
  <2> HIDE DEF next
  <2> QED BY ONLY <1>3, <2>1, <2>2, <2>3, <2>4 DEF Began
<1>8. \A l \in lines : l.sheet \in report'.left \cup report'.lost
  BY <1>3 DEF TaxInv, BooksKept, Papers, Uploaded
<1>9. ASSUME NEW e \in Outstanding PROVE Ahead(e)' \/ LeftOut(e)'
  <2>1. CASE e.issue \in Uses \cup StatementIssues \cup {"home-use allocation"}
    BY <2>1, <1>3 DEF Ahead
  <2>2. CASE e.issue = Fingerprint
    <3>1. PICK l \in ScopeRows, y \in ScopeRows :
            e = Item(l.sheet, Fingerprint, l.index) /\ y # l /\ y.mark = l.mark
      BY <1>6, <2>2, IssueOf
    <3>2. Known(l)' /\ Known(y)'
      BY <1>8 DEF Known, ScopeRows
    <3>3. Pair(e)'
      BY <1>4, <3>1, <3>2 DEF Pair
    <3> QED BY <1>3, <2>2, <3>3 DEF Ahead
  <2>a. ASSUME e.issue # Fingerprint, e.source \in Uploaded PROVE Ahead(e)' \/ LeftOut(e)'
    <3>1. e.source \in report'.left \/ e.source \in report'.lost
      BY <1>3, <2>a
    <3> QED BY <1>3, <2>a, <3>1 DEF Ahead, LeftOut
  <2>3. CASE e \in PaperItems /\ e.issue # Fingerprint
    <3>1. \E p : Whole(p) /\ p \in Papers /\ e.source = p
      BY <2>3, PaperOf
    <3>2. e.source \in Uploaded
      BY <3>1 DEF Whole, Uploaded
    <3> QED BY <2>a, <2>3, <3>2
  <2>4. CASE e.issue # Fingerprint /\ \E l \in ScopeRows : ~ (l.account /\ l.posted) /\ e =
               Item(l.sheet, IF l.account THEN "import row not posted" ELSE "unmapped import row", l.index)
    <3>a. PICK l \in ScopeRows : e =
               Item(l.sheet, IF l.account THEN "import row not posted" ELSE "unmapped import row", l.index)
      BY <2>4
    <3>1. l \in lines /\ e.source = l.sheet
      BY <3>a, ItemIs DEF ScopeRows
    <3>2. e.source \in Uploaded
      BY <3>1 DEF TaxInv, BooksKept, Papers, Uploaded
    <3> QED BY <2>a, <2>4, <3>2
  <2>5. CASE e \in ErrorItems /\ e.issue # Fingerprint
    <3>1. PICK p \in Sheets : e.source = p /\ (Whole(p) \/ \E l \in ScopeRows : l.sheet = p)
      BY <2>5, ErrorOf
    <3>2. p \in Uploaded
      BY <3>1 DEF TaxInv, BooksKept, Papers, Uploaded, Whole, ScopeRows
    <3> QED BY <2>a, <2>5, <3>1, <3>2
  <2>6. CASE e.issue = "no mileage rate"
    BY <2>6 DEF LeftOut
  <2> QED BY <1>6, <2>1, <2>2, <2>3, <2>4, <2>5, <2>6, IssueOf
<1>10. Promised'
  BY <1>1, <1>4, <1>9 DEF Promised
<1>11. Exact'
  <2>1. lasting' = Outstanding' /\ \A p \in report'.left : report'.seen[p] = filed'[p]
    BY <1>1, <1>3, <1>4
  <2>2. \A l \in ScopeRows' : l.sheet \in report'.left \cup report'.lost
    BY <1>4, <1>8 DEF ScopeRows
  <2>3. report'.at \notin {"tags", "statements", "answered"} /\ report'.found = {} /\ report'.refs = {}
    BY <1>3
  <2> QED BY <2>1, <2>2, <2>3, Zenon DEF Exact
<1> QED BY <1>5, <1>7, <1>10, <1>11 DEF TaxInv

(* A paper judged: what was outstanding of it is found, and, as long as it *)
(* is as it was when the report began, nothing else.                       *)
LEMMA RowsJudged ==
  ASSUME NEW p, NEW e \in ByRows({l \in lines : l.sheet = p /\ InScope(l.day)}) PROVE e \in RowItems
BY DEF ByRows, RowItems, ScopeRows

LEMMA SuggestionJudged ==
  ASSUME NEW p \in Papers, filed[p].day # NoDate, ~ HasRows(p), NEW e \in BySuggestion(p, filed[p])
  PROVE  e \in PaperItems \cup ErrorItems
<1>1. InScope(filed[p].day)
  BY DEF BySuggestion
<1>2. Whole(p)
  BY <1>1 DEF Whole
<1>3. CASE ~ filed[p].posted /\ e = Item(p, "not posted", 0)
  BY <1>2, <1>3 DEF PaperItems
<1>4. CASE p \notin Slips /\ ~ filed[p].payload.there /\ e = Item(p, "missing import suggestion/row mapping", 0)
  BY <1>2, <1>4 DEF PaperItems, Papers
<1>5. CASE p \in Sheets /\ e \in
             {Item(p, "unmapped import row", d) : d \in {x \in filed[p].payload.unmapped : InScope(x)}}
  <2> DEFINE S    == {q \in Sheets : Whole(q)}
             F(q) == {Item(q, "unmapped import row", d) : d \in {x \in filed[q].payload.unmapped : InScope(x)}}
  <2>1. p \in S /\ e \in F(p)
    BY <1>2, <1>5
  <2>2. \A x : x \in UNION {F(q) : q \in S} => x \in PaperItems
    BY DEF PaperItems
  <2> HIDE DEF F, S
  <2>3. e \in UNION {F(q) : q \in S}
    BY <2>1
  <2> QED BY <2>2, <2>3
<1>6. CASE p \in Sheets /\ e \in {Item(p, "parse error", i) : i \in filed[p].payload.errors}
  <2> DEFINE S    == {q \in Sheets : Whole(q) \/ \E l \in ScopeRows : l.sheet = q}
             F(q) == {Item(q, "parse error", i) : i \in filed[q].payload.errors}
  <2>1. p \in S /\ e \in F(p)
    BY <1>2, <1>6
  <2>2. \A x : x \in UNION {F(q) : q \in S} => x \in ErrorItems
    BY DEF ErrorItems
  <2> HIDE DEF F, S
  <2>3. e \in UNION {F(q) : q \in S}
    BY <2>1
  <2> QED BY <2>2, <2>3
<1> QED BY <1>1, <1>3, <1>4, <1>5, <1>6 DEF BySuggestion, When, Papers

LEMMA FoundByRows ==
  ASSUME NEW l \in ScopeRows, ~ (l.account /\ l.posted)
  PROVE  Item(l.sheet, IF l.account THEN "import row not posted" ELSE "unmapped import row", l.index)
            \in ByRows({x \in lines : x.sheet = l.sheet /\ InScope(x.day)})
<1>1. l \in {x \in lines : x.sheet = l.sheet /\ InScope(x.day)}
  BY DEF ScopeRows
<1> QED BY <1>1 DEF ByRows

LEMMA FoundBySuggestion ==
  ASSUME TaxInv, NEW p \in report.left, Whole(p), NEW e,
         \/ ~ filed[p].posted /\ e = Item(p, "not posted", 0)
         \/ p \in Sheets /\ ~ filed[p].payload.there /\
            e = Item(p, "missing import suggestion/row mapping", 0)
         \/ p \in Sheets /\ \E d \in filed[p].payload.unmapped :
               InScope(d) /\ e = Item(p, "unmapped import row", d)
         \/ p \in Sheets /\ \E i \in filed[p].payload.errors : e = Item(p, "parse error", i)
  PROVE  e \in BySuggestion(p, report.seen[p])
<1>1. report.seen[p].day = filed[p].day /\ (report.seen[p].posted => filed[p].posted)
  BY DEF TaxInv, Began
<1>2. InScope(report.seen[p].day)
  BY <1>1 DEF Whole
<1>3. CASE ~ filed[p].posted /\ e = Item(p, "not posted", 0)
  BY <1>1, <1>2, <1>3 DEF BySuggestion, When
<1>4. CASE p \in Sheets /\ ~ filed[p].payload.there /\
            e = Item(p, "missing import suggestion/row mapping", 0)
  <2>1. p \notin Slips
    BY <1>4, TaxConstants
  <2> QED BY <1>2, <1>4, <2>1 DEF BySuggestion
<1>5. CASE p \in Sheets /\ \E d \in filed[p].payload.unmapped :
               InScope(d) /\ e = Item(p, "unmapped import row", d)
  <2>1. p \notin Slips /\ filed[p].payload.there
    BY <1>5, TaxConstants DEF TaxInv, BooksKept, Filed, Papers
  <2> QED BY <1>2, <1>5, <2>1 DEF BySuggestion
<1>6. CASE p \in Sheets /\ \E i \in filed[p].payload.errors : e = Item(p, "parse error", i)
  <2>1. p \notin Slips /\ filed[p].payload.there
    BY <1>6, TaxConstants DEF TaxInv, BooksKept, Filed, Papers
  <2> QED BY <1>2, <1>6, <2>1 DEF BySuggestion
<1> QED BY <1>3, <1>4, <1>5, <1>6

(* What lies ahead is not lost when a paper leaves the list, if what was   *)
(* outstanding of it is found.                                             *)
LEMMA PaperRead ==
  ASSUME TaxInv, report.at = "papers", NEW p \in report.left,
         NEW e \in lasting, Ahead(e), NEW refs, report.refs \subseteq refs, NEW more,
         \A l \in ScopeRows : l.sheet = p => l \in refs,
         e.source = p /\ e.issue \notin Uses \cup StatementIssues \cup {"home-use allocation", Fingerprint} =>
            e \in more \/ LeftOut(e)',
         report'.at = "papers", report'.left = report.left \ {p}, report'.refs = refs,
         report'.lost = report.lost, UNCHANGED books
  PROVE  e \in more \/ Ahead(e)' \/ LeftOut(e)'
<1>1. CASE e.issue \in Uses \cup StatementIssues \cup {"home-use allocation"}
  BY <1>1 DEF Ahead
<1>2. CASE e.issue = Fingerprint
  <2>1. Pair(e)
    BY <1>2 DEF Ahead, Uses, StatementIssues, Fingerprint
  <2>2. PICK l \in ScopeRows, y \in ScopeRows :
               /\ e = Item(l.sheet, Fingerprint, l.index)
               /\ y # l /\ y.mark = l.mark /\ Known(l) /\ Known(y)
    BY <2>1 DEF Pair
  <2>3. \A x \in ScopeRows : Known(x) => Known(x)'
    BY DEF Known
  <2>4. ScopeRows' = ScopeRows
    BY BooksRest
  <2>5. Pair(e)'
    BY <2>2, <2>3, <2>4 DEF Pair
  <2> QED BY <1>2, <2>5 DEF Ahead
<1>3. CASE e.issue \notin Uses \cup StatementIssues \cup {"home-use allocation", Fingerprint}
  BY <1>3 DEF Ahead
<1> QED BY <1>1, <1>2, <1>3

LEMMA ReadPaperKeeps ==
  ASSUME TaxInv, NEW p \in Papers, ReadPaper(p) PROVE TaxInv'
<1> DEFINE ls     == {l \in lines : l.sheet = p}
           scoped == {l \in ls : InScope(l.day)}
           more   == IF ls # {} THEN ByRows(scoped) ELSE BySuggestion(p, report.seen[p])
           whole  == ls = {} /\ p \in Sheets /\ InScope(report.seen[p].day)
           sources == IF scoped # {} \/ whole THEN report.sources + 1 ELSE report.sources
<1>1. /\ report.at = "papers" /\ p \in report.left /\ UNCHANGED <<books, reconciling, edits, lasting>>
      /\ report' = [report EXCEPT !.left = report.left \ {p}, !.found = report.found \cup more,
                                  !.refs = report.refs \cup scoped, !.sources = sources]
  BY Zenon DEF ReadPaper, JudgePaper, Reads
<1>2. scoped = {l \in lines : l.sheet = p /\ InScope(l.day)} /\ (HasRows(p) <=> ls # {})
  BY DEF HasRows
<1>3. /\ report.sources \in Nat /\ report.left \subseteq Papers /\ settings \in Profiles
      /\ report.more \in BOOLEAN /\ filed[p].day # NoDate
      /\ lasting \subseteq Outstanding
  BY <1>1 DEF TaxInv, Began, BooksKept, Promised
<1>4. sources \in Nat
  BY <1>3
<1>5. \A l \in ScopeRows : l.sheet = p => l \in scoped
  BY DEF ScopeRows
<1>6. scoped \subseteq ScopeRows /\ (sources = 0 => scoped = {} /\ report.sources = 0)
  BY <1>3 DEF ScopeRows
<1>7. more = IF HasRows(p) THEN ByRows({l \in lines : l.sheet = p /\ InScope(l.day)})
             ELSE BySuggestion(p, report.seen[p])
  BY <1>2
<1> HIDE DEF sources, more, scoped, ls, whole
<1>a. report' = Report(report.at, report.left \ {p}, report.found \cup more, report.refs \cup scoped,
                       sources, report.uses, report.lost, report.more)
  BY <1>1, ReportIs, Zenon DEF Report
<1>8. report' = Report("papers", report.left \ {p}, report.found \cup more, report.refs \cup scoped,
                       sources, report.uses, report.lost, report.more)
  BY <1>a, <1>1
<1>9. /\ report'.at = "papers" /\ report'.left = report.left \ {p} /\ report'.lost = report.lost
      /\ report'.found = report.found \cup more /\ report'.refs = report.refs \cup scoped
  BY <1>8 DEF Report
<1>10. ASSUME NEW e \in Outstanding, e.source = p,
              e.issue \notin Uses \cup StatementIssues \cup {"home-use allocation", Fingerprint}
       PROVE  e \in more \/ LeftOut(e)'
  <2>1. CASE e \in PaperItems
    <3>1. PICK q \in Papers : /\ Whole(q) /\ e.source = q
           /\ \/ ~ filed[q].posted /\ e = Item(q, "not posted", 0)
              \/ q \in Sheets /\ ~ filed[q].payload.there /\
                 e = Item(q, "missing import suggestion/row mapping", 0)
              \/ q \in Sheets /\ \E d \in filed[q].payload.unmapped :
                    InScope(d) /\ e = Item(q, "unmapped import row", d)
      BY <2>1, PaperOf
    <3>2. q = p /\ ~ HasRows(p)
      BY <1>10, <3>1 DEF Whole
    <3> QED BY <1>1, <1>7, <3>1, <3>2, FoundBySuggestion
  <2>2. CASE \E l \in ScopeRows : ~ (l.account /\ l.posted) /\ e =
               Item(l.sheet, IF l.account THEN "import row not posted" ELSE "unmapped import row", l.index)
    <3>1. PICK l \in ScopeRows : ~ (l.account /\ l.posted) /\ e =
               Item(l.sheet, IF l.account THEN "import row not posted" ELSE "unmapped import row", l.index)
      BY <2>2
    <3>2. l.sheet = p
      BY <1>10, <3>1, ItemIs
    <3>3. HasRows(p)
      BY <3>2 DEF HasRows, ScopeRows
    <3>4. e \in ByRows({x \in lines : x.sheet = p /\ InScope(x.day)})
      BY <3>1, <3>2, FoundByRows
    <3> QED BY <1>7, <3>3, <3>4
  <2>3. CASE e \in ErrorItems
    <3>1. PICK q \in Sheets : /\ Whole(q) \/ \E l \in ScopeRows : l.sheet = q
                              /\ e.source = q
                              /\ \E i \in filed[q].payload.errors : e = Item(q, "parse error", i)
      BY <2>3, ErrorOf
    <3>2. q = p /\ e.issue = "parse error"
      BY <1>10, <2>3, <3>1, ErrorOf
    <3>3. CASE HasRows(p)
      BY <1>1, <1>10, <3>2, <3>3 DEF LeftOut, HasRows, books
    <3>4. CASE ~ HasRows(p)
      <4>1. Whole(p)
        BY <3>1, <3>2, <3>4 DEF HasRows, ScopeRows
      <4> QED BY <1>1, <1>7, <3>1, <3>2, <3>4, <4>1, FoundBySuggestion
    <3> QED BY <3>3, <3>4
  <2>4. CASE e.issue = "no mileage rate"
    BY <2>4 DEF LeftOut
  <2> QED BY <1>3, <1>10, <2>1, <2>2, <2>3, <2>4, IssueOf
<1>11. ASSUME NEW e \in lasting, Ahead(e) PROVE e \in more \/ Ahead(e)' \/ LeftOut(e)'
  <2>1. e \in Outstanding
    BY <1>3, <1>11
  <2>2. e.source = p /\ e.issue \notin Uses \cup StatementIssues \cup {"home-use allocation", Fingerprint} =>
           e \in more \/ LeftOut(e)'
    BY <1>10, <2>1
  <2>3. report.refs \subseteq report.refs \cup scoped
        /\ \A l \in ScopeRows : l.sheet = p => l \in report.refs \cup scoped
    BY <1>5
  <2> QED BY <1>1, <1>9, <1>11, <2>2, <2>3, PaperRead
<1>12. ASSUME report.since = edits, ~ report.more
       PROVE  /\ more \subseteq Outstanding /\ report.refs \cup scoped \subseteq ScopeRows
              /\ sources = 0 => \A l \in ScopeRows : l.sheet \in (report.left \ {p}) \cup report.lost
              /\ report.at \in {"tags", "statements", "answered"} => report.uses \subseteq settings.uses
  <2>1. /\ report.seen[p] = filed[p] /\ report.refs \subseteq ScopeRows
        /\ report.sources = 0 => \A l \in ScopeRows : l.sheet \in report.left \cup report.lost
    BY <1>1, <1>12 DEF TaxInv, Exact
  <2>2. ASSUME HasRows(p), NEW e \in more PROVE e \in RowItems
    BY <1>7, <2>2, RowsJudged
  <2>3. ASSUME ~ HasRows(p), NEW e \in more PROVE e \in PaperItems \cup ErrorItems
    <3>1. e \in BySuggestion(p, filed[p])
      BY <1>7, <2>1, <2>3
    <3> QED BY <1>3, <2>3, <3>1, SuggestionJudged
  <2>4. more \subseteq Outstanding
    BY <2>2, <2>3 DEF Outstanding
  <2> QED BY <1>1, <1>5, <1>6, <2>1, <2>4
<1>14. Query("papers", report.left \ {p}, more, report.refs \cup scoped, sources, report.uses,
             report.lost, report.more)
  BY <1>1, <1>3, <1>4, <1>8, <1>11, <1>12 DEF Query, Queries
<1> QED BY <1>14, QueryKeeps

(* The rows that could not be read are missed, which the report notes.     *)
LEMMA ReadPaperFailsKeeps ==
  ASSUME TaxInv, NEW p \in Papers, ReadPaperFails(p) PROVE TaxInv'
<1> DEFINE news == BySuggestion(p, report.seen[p])
           lost == report.lost \cup {p}
<1>1. /\ report.at = "papers" /\ p \in report.left /\ UNCHANGED <<books, reconciling, edits, lasting>>
      /\ report' = [report EXCEPT !.left = report.left \ {p}, !.lost = lost, !.more = TRUE,
                                  !.found = report.found \cup news]
  BY Zenon DEF ReadPaperFails, Reads
<1> HIDE DEF news
<1>a. report' = Report(report.at, report.left \ {p}, report.found \cup news,
                       report.refs, report.sources, report.uses, lost, TRUE)
  BY <1>1, ReportIs, Zenon DEF Report
<1>2. report' = Report("papers", report.left \ {p}, report.found \cup news,
                       report.refs, report.sources, report.uses, lost, TRUE)
  BY <1>a, <1>1
<1>3. report.sources \in Nat
  BY DEF TaxInv, Began
<1>4. /\ report'.at = "papers" /\ report'.left = report.left \ {p} /\ report'.refs = report.refs
      /\ report'.lost = report.lost \cup {p}
  BY <1>2 DEF Report
<1>5. ASSUME NEW e \in lasting, Ahead(e) PROVE Ahead(e)' \/ LeftOut(e)'
  <2>1. CASE e.issue \in Uses \cup StatementIssues \cup {"home-use allocation"}
    BY <1>4, <2>1 DEF Ahead
  <2>2. CASE e.issue = Fingerprint
    <3>1. Pair(e)
      BY <1>5, <2>2 DEF Ahead, Uses, StatementIssues, Fingerprint
    <3>2. PICK l \in ScopeRows, y \in ScopeRows :
               /\ e = Item(l.sheet, Fingerprint, l.index)
               /\ y # l /\ y.mark = l.mark /\ Known(l) /\ Known(y)
      BY <3>1 DEF Pair
    <3>3. \A x \in ScopeRows : Known(x) => Known(x)'
      BY <1>4 DEF Known
    <3>4. ScopeRows' = ScopeRows
      BY <1>1, BooksRest
    <3>5. Pair(e)'
      BY <3>2, <3>3, <3>4 DEF Pair
    <3> QED BY <1>4, <2>2, <3>5 DEF Ahead
  <2>3. CASE e.issue \notin Uses \cup StatementIssues \cup {"home-use allocation", Fingerprint}
    BY <1>4, <1>5, <2>3 DEF Ahead, LeftOut
  <2> QED BY <2>1, <2>2, <2>3
<1> HIDE DEF lost
<1>6. report.lost \subseteq lost
  BY DEF lost
<1>7. Query("papers", report.left \ {p}, news, report.refs, report.sources, report.uses, lost, TRUE)
  BY <1>1, <1>2, <1>3, <1>5, <1>6 DEF Query, Queries
<1> QED BY <1>7, QueryKeeps

(* Every row that has lasted has been read by now, and so has its twin.    *)
LEMMA DuplicatesKeeps ==
  ASSUME TaxInv, Duplicates PROVE TaxInv'
<1> DEFINE more == {Item(l.sheet, "duplicate import row fingerprint", l.index) :
                      l \in {x \in report.refs : \E y \in report.refs :
                               y.mark = x.mark /\ <<y.sheet, y.index>> # <<x.sheet, x.index>>}}
<1>1. /\ report.at = "papers" /\ report.left = {} /\ UNCHANGED <<books, reconciling, edits, lasting>>
      /\ report' = [report EXCEPT !.at = "profile", !.found = report.found \cup more]
  BY Zenon DEF Duplicates, Reads
<1>2. \A x, y \in report.refs : y.mark = x.mark /\ (y.sheet # x.sheet \/ y.index # x.index) =>
          Item(x.sheet, Fingerprint, x.index) \in more
  BY DEF Fingerprint
<1>3. \A e \in more : \E x, y \in report.refs :
          y.mark = x.mark /\ y # x /\ e = Item(x.sheet, Fingerprint, x.index)
  BY DEF Fingerprint
<1> HIDE DEF more
<1>a. report' = Report("profile", report.left, report.found \cup more, report.refs, report.sources, report.uses,
                       report.lost, report.more)
  BY <1>1, ReportIs, Zenon DEF Report
<1>4. report' = Report("profile", {}, report.found \cup more, report.refs, report.sources, report.uses,
                       report.lost, report.more)
  BY <1>a, <1>1
<1>5. report'.at = "profile" /\ report'.lost = report.lost /\ ScopeRows' = ScopeRows
  BY <1>1, <1>4, BooksRest DEF Report
<1>6. /\ report.sources \in Nat /\ report.more \in BOOLEAN
      /\ \A x, y \in lines : x.sheet = y.sheet /\ x.index = y.index => x = y
  BY DEF TaxInv, Began, BooksKept
<1>7. ASSUME NEW e \in lasting, Ahead(e) PROVE e \in more \/ Ahead(e)' \/ LeftOut(e)'
  <2>1. CASE e.issue \in Uses \cup StatementIssues \cup {"home-use allocation"}
    BY <1>5, <2>1 DEF Ahead
  <2>2. CASE Pair(e)
    <3>1. PICK l \in ScopeRows, y \in ScopeRows :
               /\ e = Item(l.sheet, Fingerprint, l.index)
               /\ y # l /\ y.mark = l.mark /\ Known(l) /\ Known(y)
      BY <2>2 DEF Pair
    <3>a. CASE l.sheet \in report.lost
      BY <1>5, <3>1, <3>a, ItemIs DEF LeftOut
    <3>b. CASE y.sheet \in report.lost
      <4>1. TwinLost(e)'
        BY <1>5, <3>1, <3>b DEF TwinLost, Fingerprint
      <4> QED BY <4>1 DEF LeftOut
    <3> SUFFICES ASSUME l.sheet \notin report.lost, y.sheet \notin report.lost PROVE e \in more
      BY <3>a, <3>b
    <3>2. PICK a \in report.refs : a.sheet = l.sheet /\ a.index = l.index /\ a.mark = l.mark
      BY <1>1, <3>1 DEF Known
    <3>3. PICK b \in report.refs : b.sheet = y.sheet /\ b.index = y.index /\ b.mark = y.mark
      BY <1>1, <3>1 DEF Known
    <3>4. b.sheet # a.sheet \/ b.index # a.index
      BY <1>6, <3>1, <3>2, <3>3 DEF ScopeRows
    <3> QED BY <1>2, <3>1, <3>2, <3>3, <3>4
  <2> QED BY <1>1, <1>7, <2>1, <2>2 DEF Ahead
<1>8. ASSUME report.since = edits, ~ report.more PROVE
        /\ more \subseteq Outstanding /\ report.refs \subseteq ScopeRows
        /\ report.sources = 0 => \A l \in ScopeRows : l.sheet \in {} \cup report.lost
  <2>1. /\ report.refs \subseteq ScopeRows
        /\ report.sources = 0 => \A l \in ScopeRows : l.sheet \in report.left \cup report.lost
    BY <1>1, <1>8 DEF TaxInv, Exact
  <2>2. more \subseteq RowItems
    BY <1>3, <2>1 DEF RowItems, Fingerprint
  <2> QED BY <1>1, <2>1, <2>2 DEF Outstanding
<1>14. Query("profile", {}, more, report.refs, report.sources, report.uses, report.lost, report.more)
  BY <1>1, <1>4, <1>6, <1>7, <1>8 DEF Query, Queries
<1> QED BY <1>14, QueryKeeps

(* A profile that cannot be read is taken for a missing one, which is no   *)
(* more complete.                                                          *)
LEMMA ReadProfileKeeps ==
  ASSUME TaxInv, NEW profile, NEW failed \in BOOLEAN, ReadProfile(profile, failed),
         \/ profile = settings /\ ~ failed
         \/ profile = Missing /\ failed
  PROVE  TaxInv'
<1> DEFINE news == When(profile.status # "complete", Item("entity", "home-use allocation", 0))
           more == report.more \/ failed
<1>1. /\ report.at = "profile" /\ UNCHANGED <<books, reconciling, edits, lasting>>
      /\ report' = [report EXCEPT !.at = "roles", !.more = more, !.found = report.found \cup news]
  BY Zenon DEF ReadProfile, Reads
<1>2. /\ report.sources \in Nat /\ report.more \in BOOLEAN /\ report.left = {}
      /\ settings \in Profiles /\ lasting \subseteq Outstanding
  BY <1>1 DEF TaxInv, Began, BooksKept, Promised
<1>3. more \in BOOLEAN /\ (report.more => more) /\ (~ more => ~ report.more /\ ~ failed)
  BY <1>2
<1>4. settings.status # "complete" => Item("entity", "home-use allocation", 0) \in news
  BY DEF When, Missing
<1>5. ~ failed => news \subseteq SettingItems
  BY DEF SettingItems, When
<1> HIDE DEF news, more
<1>6. report' = Report("roles", report.left, report.found \cup news, report.refs, report.sources,
                       report.uses, report.lost, more)
  BY <1>1, ReportIs, Zenon DEF Report
<1>7. report'.at = "roles"
  BY <1>6 DEF Report
<1>8. ASSUME NEW e \in lasting, Ahead(e) PROVE e \in news \/ Ahead(e)'
  <2>1. CASE e.issue \in Uses \cup StatementIssues
    BY <1>7, <2>1 DEF Ahead
  <2>2. CASE e.issue = "home-use allocation"
    BY <1>2, <1>4, <2>2, IssueOf
  <2> QED BY <1>1, <1>8, <2>1, <2>2 DEF Ahead
<1>9. report.since = edits /\ ~ report.more => report.refs \subseteq ScopeRows /\
        (report.sources = 0 => \A l \in ScopeRows : l.sheet \in report.left \cup report.lost)
  BY <1>1 DEF TaxInv, Exact
<1>10. Query("roles", report.left, news, report.refs, report.sources, report.uses, report.lost, more)
  BY <1>1, <1>2, <1>3, <1>5, <1>6, <1>8, <1>9 DEF Query, Queries, Outstanding
<1> QED BY <1>10, QueryKeeps

(* The second time a missing profile hides the accounts to be tagged,      *)
(* which the report notes.                                                 *)
LEMMA ReadRolesKeeps ==
  ASSUME TaxInv, NEW profile, NEW unseen, ReadRoles(profile, unseen),
         \/ profile = settings
         \/ profile = Missing /\ "entity" \in unseen
  PROVE  TaxInv'
<1> DEFINE lost == report.lost \cup unseen
<1>1. /\ report.at = "roles" /\ UNCHANGED <<books, reconciling, edits, lasting>>
      /\ report' = [report EXCEPT !.at = "tags", !.lost = lost, !.uses = profile.uses]
  BY Zenon DEF ReadRoles, Reads
<1>2. /\ report.sources \in Nat /\ report.more \in BOOLEAN /\ report.left = {}
      /\ settings \in Profiles /\ lasting \subseteq Outstanding
  BY <1>1 DEF TaxInv, Began, BooksKept, Promised
<1>3. report.lost \subseteq lost /\ ("entity" \in unseen => "entity" \in lost)
  OBVIOUS
<1>b. profile.uses \subseteq settings.uses
  BY DEF Missing
<1> HIDE DEF lost
<1>a. report' = Report("tags", report.left, report.found, report.refs, report.sources,
                       profile.uses, lost, report.more)
  BY <1>1, ReportIs, Zenon DEF Report
<1>6. report' = Report("tags", report.left, report.found \cup {}, report.refs, report.sources,
                       profile.uses, lost, report.more)
  BY <1>a
<1>7. report'.at = "tags" /\ report'.uses = profile.uses /\ report'.lost = lost
  BY <1>6 DEF Report
<1>8. ASSUME NEW e \in lasting, Ahead(e) PROVE Ahead(e)' \/ LeftOut(e)'
  <2>1. CASE e.issue \in StatementIssues
    BY <1>7, <2>1 DEF Ahead
  <2>2. CASE e.issue \in Uses
    <3>1. e.issue \in settings.uses /\ e = Item("entity", e.issue, 0)
      BY <1>2, <2>2, IssueOf
    <3>2. e.source = "entity"
      BY <3>1, ItemIs
    <3> QED BY <1>3, <1>7, <2>2, <3>1, <3>2 DEF Ahead, LeftOut
  <2> QED BY <1>1, <1>8, <2>1, <2>2 DEF Ahead
<1>9. report.since = edits /\ ~ report.more => report.refs \subseteq ScopeRows /\
        (report.sources = 0 => \A l \in ScopeRows : l.sheet \in report.left \cup lost)
  BY <1>1, <1>3 DEF TaxInv, Exact
<1>10. Query("tags", report.left, {}, report.refs, report.sources, profile.uses, lost, report.more)
  BY <1>1, <1>2, <1>3, <1>b, <1>6, <1>8, <1>9 DEF Query, Queries
<1> QED BY <1>10, QueryKeeps

(* Accounts that cannot be read are taken for untagged.                    *)
LEMMA ReadTagsKeeps ==
  ASSUME TaxInv, NEW tags, NEW failed \in BOOLEAN, ReadTags(tags, failed),
         \/ tags = tagged /\ ~ failed
         \/ tags = {} /\ failed
  PROVE  TaxInv'
<1> DEFINE news == {Item("entity", use, 0) : use \in report.uses \ tags}
           more == report.more \/ failed
<1>1. /\ report.at = "tags" /\ UNCHANGED <<books, reconciling, edits, lasting>>
      /\ report' = [report EXCEPT !.at = "statements", !.more = more, !.found = report.found \cup news]
  BY Zenon DEF ReadTags, Reads
<1>2. /\ report.sources \in Nat /\ report.more \in BOOLEAN /\ report.left = {}
      /\ settings \in Profiles /\ lasting \subseteq Outstanding
  BY <1>1 DEF TaxInv, Began, BooksKept, Promised
<1>3. more \in BOOLEAN /\ (report.more => more) /\ (~ more => ~ report.more /\ ~ failed)
  BY <1>2
<1>4. \A use \in report.uses \ tagged : Item("entity", use, 0) \in news
  OBVIOUS
<1>5. ~ failed /\ report.uses \subseteq settings.uses => news \subseteq SettingItems
  BY DEF SettingItems
<1> HIDE DEF news, more
<1>6. report' = Report("statements", report.left, report.found \cup news, report.refs, report.sources,
                       report.uses, report.lost, more)
  BY <1>1, ReportIs, Zenon DEF Report
<1>7. report'.at = "statements"
  BY <1>6 DEF Report
<1>8. ASSUME NEW e \in lasting, Ahead(e) PROVE e \in news \/ Ahead(e)'
  <2>1. CASE e.issue \in StatementIssues
    BY <1>7, <2>1 DEF Ahead
  <2>2. CASE e.issue \in Uses /\ e.issue \in report.uses
    <3>1. e = Item("entity", e.issue, 0) /\ e.issue \notin tagged
      BY <1>2, <2>2, IssueOf
    <3> QED BY <1>4, <2>2, <3>1
  <2> QED BY <1>1, <1>8, <2>1, <2>2 DEF Ahead
<1>9. report.since = edits /\ ~ report.more =>
        /\ report.refs \subseteq ScopeRows /\ report.uses \subseteq settings.uses
        /\ (report.sources = 0 => \A l \in ScopeRows : l.sheet \in report.left \cup report.lost)
  BY <1>1 DEF TaxInv, Exact
<1>10. Query("statements", report.left, news, report.refs, report.sources, report.uses, report.lost, more)
  BY <1>1, <1>2, <1>3, <1>5, <1>6, <1>8, <1>9 DEF Query, Queries, Outstanding
<1> QED BY <1>10, QueryKeeps

LEMMA ReadStatementsKeeps ==
  ASSUME TaxInv, ReadStatements PROVE TaxInv'
<1> DEFINE s == statement
           more == IF s = NoStatement \/ ~ (s.end >= ScopeStart /\ s.start <= ScopeEnd) THEN {}
                   ELSE When(Difference(s) # 0, Item("statement", "statement balance difference", 0)) \cup
                        When(UnpostedRows(s) > 0, Item("statement", "statement import rows not posted", 0)) \cup
                        When(s.status \notin {"reconciled", "locked"},
                             Item("statement", "statement not reconciled", 0))
<1>1. /\ report.at = "statements" /\ UNCHANGED <<books, reconciling, edits, lasting>>
      /\ report' = [report EXCEPT !.at = "answered", !.found = report.found \cup more]
  BY Zenon DEF ReadStatements, Reads
<1>2. /\ report.sources \in Nat /\ report.more \in BOOLEAN /\ report.left = {}
      /\ settings \in Profiles /\ lasting \subseteq Outstanding
      /\ statement = NoStatement \/ (statement.start \in Int /\ statement.end \in Int)
  BY <1>1 DEF TaxInv, Began, BooksKept, Promised, Dated
<1>3. more = StatementItems
  <2>1. s = NoStatement \/ ~ (s.end >= ScopeStart /\ s.start <= ScopeEnd) <=>
        s = NoStatement \/ s.end < ScopeStart \/ s.start > ScopeEnd
    BY <1>2 DEF ScopeStart, ScopeEnd
  <2>2. {Item("statement", i, 0) : i \in
            When(Difference(s) # 0, "statement balance difference") \cup
            When(UnpostedRows(s) > 0, "statement import rows not posted") \cup
            When(s.status \notin {"reconciled", "locked"}, "statement not reconciled")} =
        When(Difference(s) # 0, Item("statement", "statement balance difference", 0)) \cup
        When(UnpostedRows(s) > 0, Item("statement", "statement import rows not posted", 0)) \cup
        When(s.status \notin {"reconciled", "locked"}, Item("statement", "statement not reconciled", 0))
    BY DEF When
  <2> QED BY <2>1, <2>2 DEF StatementItems
<1> HIDE DEF more
<1>6. report' = Report("answered", report.left, report.found \cup more, report.refs, report.sources,
                       report.uses, report.lost, report.more)
  BY <1>1, ReportIs, Zenon DEF Report
<1>8. ASSUME NEW e \in lasting, Ahead(e) PROVE e \in more
  <2>1. e.issue \in StatementIssues
    BY <1>1, <1>8 DEF Ahead
  <2> QED BY <1>2, <1>3, <2>1, IssueOf
<1>9. report.since = edits /\ ~ report.more =>
        /\ report.refs \subseteq ScopeRows /\ report.uses \subseteq settings.uses
        /\ (report.sources = 0 => \A l \in ScopeRows : l.sheet \in report.left \cup report.lost)
  BY <1>1 DEF TaxInv, Exact
<1>10. Query("answered", report.left, more, report.refs, report.sources, report.uses, report.lost, report.more)
  BY <1>1, <1>2, <1>3, <1>6, <1>8, <1>9 DEF Query, Queries, Outstanding
<1> QED BY <1>10, QueryKeeps

(* Statements that cannot be read are missed, which the report notes.      *)
LEMMA ReadStatementsFailsKeeps ==
  ASSUME TaxInv, ReadStatementsFails PROVE TaxInv'
<1> DEFINE lost == report.lost \cup {"statement"}
<1>1. /\ report.at = "statements" /\ UNCHANGED <<books, reconciling, edits, lasting>>
      /\ report' = [report EXCEPT !.at = "answered", !.lost = lost]
  BY Zenon DEF ReadStatementsFails, Reads
<1>2. /\ report.sources \in Nat /\ report.left = {} /\ report.more \in BOOLEAN
      /\ settings \in Profiles /\ lasting \subseteq Outstanding
  BY <1>1 DEF TaxInv, Began, BooksKept, Promised
<1>3. report.lost \subseteq lost /\ "statement" \in lost
  OBVIOUS
<1> HIDE DEF lost
<1>a. report' = Report("answered", report.left, report.found, report.refs, report.sources,
                       report.uses, lost, report.more)
  BY <1>1, ReportIs, Zenon DEF Report
<1>4. report' = Report("answered", report.left, report.found \cup {}, report.refs, report.sources,
                       report.uses, lost, report.more)
  BY <1>a
<1>5. report'.lost = lost
  BY <1>4 DEF Report
<1>8. ASSUME NEW e \in lasting, Ahead(e) PROVE LeftOut(e)'
  <2>1. e.issue \in StatementIssues
    BY <1>1, <1>8 DEF Ahead
  <2>2. e \in StatementItems
    BY <1>2, <2>1, IssueOf
  <2>3. PICK i : e = Item("statement", i, 0)
    BY <2>2 DEF StatementItems
  <2>4. e.source = "statement"
    BY <2>3, ItemIs
  <2> QED BY <1>3, <1>5, <2>4 DEF LeftOut
<1>9. report.since = edits /\ ~ report.more =>
        /\ report.refs \subseteq ScopeRows /\ report.uses \subseteq settings.uses
        /\ (report.sources = 0 => \A l \in ScopeRows : l.sheet \in report.left \cup lost)
  BY <1>1, <1>3 DEF TaxInv, Exact
<1>10. Query("answered", report.left, {}, report.refs, report.sources, report.uses, lost, report.more)
  BY <1>1, <1>2, <1>3, <1>4, <1>8, <1>9 DEF Query, Queries
<1> QED BY <1>10, QueryKeeps

LEMMA TaxStep == TaxInv /\ [TaxNext]_taxVars => TaxInv'
<1> SUFFICES ASSUME TaxInv, [TaxNext]_taxVars PROVE TaxInv'
  OBVIOUS
<1>1. CASE \E p \in Papers : \E d \in {1, 3} : FilePaper(p, d)
  BY <1>1, FilePaperKeeps
<1>2. CASE \E p \in Papers : PostPaper(p) \/ ReadPaper(p) \/ ReadPaperFails(p)
  BY <1>2, PostPaperKeeps, ReadPaperKeeps, ReadPaperFailsKeeps
<1>3. CASE \E p \in Sheets : StoreReading(p)
  BY <1>3, StoreReadingKeeps
<1>4. CASE \E p \in Sheets : \E r \in Periods, st \in Stati : WriteStatement(r[1], r[2], 0, p, st)
  BY <1>4, StatementKeeps
<1>5. CASE \E l \in lines : MapRow(l) \/ PostRow(l)
  BY <1>5, MapRowKeeps, PostRowKeeps
<1>6. CASE ReconcileReads \/ ReconcileWrites
  BY <1>6, ReconcileReadKeeps, ReconcileKeeps
<1>7. CASE \/ \E f \in Profiles : handleUpdateEntityTaxSettings(f)
           \/ \E u \in {{}, Uses} : TagAccounts(u)
           \/ \E d \in {1, 2} : handleMileageCreate(d) \/ handleMileageUpdate(d, 3 - d)
                                \/ handleMileageDelete(d) \/ UpsertRate(YearOf(d))
  BY <1>7, SettingsKeep
<1>8. CASE (\E listed \in SUBSET Papers : handleReportTaxReadiness(listed)) \/ Duplicates
  BY <1>8, ReportStartKeeps, DuplicatesKeeps
<1>9. CASE ReadProfile(settings, FALSE) \/ ReadProfile(Missing, TRUE)
  BY <1>9, ReadProfileKeeps
<1>10. CASE ReadRoles(settings, {}) \/ ReadRoles(Missing, {"entity"})
  BY <1>10, ReadRolesKeeps
<1>11. CASE ReadTags(tagged, FALSE) \/ ReadTags({}, TRUE)
  BY <1>11, ReadTagsKeeps
<1>12. CASE ReadStatements \/ ReadStatementsFails
  BY <1>12, ReadStatementsKeeps, ReadStatementsFailsKeeps
<1>13. CASE UNCHANGED taxVars
  <2>1. UNCHANGED <<books, report, reconciling, edits, lasting>>
    BY <1>13 DEF taxVars
  <2>2. BooksKept'
    BY <2>1 DEF TaxInv, BooksKept, books
  <2>3. Outstanding' = Outstanding /\ ScopeRows' = ScopeRows
    BY <2>1, BooksRest
  <2>4. Began'
    BY <2>1 DEF TaxInv, Began, books
  <2>5. (Promised /\ Exact)'
    BY <2>1, <2>3, ReportRests
  <2> QED BY <2>2, <2>4, <2>5 DEF TaxInv
<1> QED BY <1>1, <1>2, <1>3, <1>4, <1>5, <1>6, <1>7, <1>8, <1>9, <1>10, <1>11, <1>12, <1>13
        DEF TaxNext, SettingsFail

(* When no setting is missing the checklists have nothing to ask for but   *)
(* a home of no square feet, a rate, or an import.                         *)
LEMMA NothingToAsk ==
  ASSUME TaxInv, SettingItems = {}, report.sources = 0 => ScopeRows = {}
  PROVE  /\ taxPrepChecklistRows({}) \subseteq {"utilities", "rates"}
         /\ "pack" \in taxPreparedPackageRows({}, report.sources) => RateGaps # {}
         /\ "sources" \in taxPreparedPackageRows({}, report.sources) => ScopeRows = {}
<1>1. settings.status = "complete" /\ settings.uses \ tagged = {}
  BY DEF SettingItems, When
<1>2. settings.uses \subseteq Uses /\ Uses \ settings.uses \subseteq {"utilities"}
  <2>1. \/ settings = Missing
        \/ settings = [status |-> "partial", uses |-> {"cell_phone"}]
        \/ settings = [status |-> "complete", uses |-> Uses]
        \/ settings = [status |-> "complete", uses |-> Uses \ {"utilities"}]
    BY DEF TaxInv, BooksKept, Profiles
  <2>2. settings.uses = Uses \/ settings.uses = Uses \ {"utilities"}
    BY <1>1, <2>1 DEF Missing
  <2> QED BY <2>2
<1>3. Allocations \subseteq {"utilities"}
  BY <1>1, <1>2 DEF Allocations
<1>4. Blockers({}) = {}
  BY DEF Blockers
<1>5. \A issue : CountOf({}, issue) = 0
  <2> TAKE issue
  <2>1. {e \in {} : e.issue = issue} = {}
    OBVIOUS
  <2> QED BY <2>1, FS_EmptySet DEF CountOf
<1>6. taxPrepChecklistRows({}) \subseteq {"utilities", "rates"}
  <2>1. \A issue : ~ (CountOf({}, issue) > 0)
    BY <1>5
  <2>2. taxPrepChecklistRows({}) \subseteq Allocations \cup {"rates"}
    BY <2>1, Zenon DEF taxPrepChecklistRows, When
  <2> QED BY <1>3, <2>2
<1>7. "pack" \in taxPreparedPackageRows({}, report.sources) => RateGaps # {}
  BY <1>3, <1>4 DEF taxPreparedPackageRows, When
<1>8. "sources" \in taxPreparedPackageRows({}, report.sources) => report.sources = 0
  BY <1>3, <1>4 DEF taxPreparedPackageRows, When
<1> QED BY <1>6, <1>7, <1>8

(* Whatever was outstanding all the time a readiness report was made is in *)
(* it, or is a parse error of an import that has stored rows, or mileage   *)
(* without a rate, or was kept from the report by the limit of its list or *)
(* by a query of taxImportDiagnostics, taxAccountRoleExceptions or         *)
(* taxStatementExceptions that failed and that would have shown it; and a  *)
(* report nobody disturbed names nothing else.  However many papers there  *)
(* are, whatever the limit.                                                *)
THEOREM ReportsMissNothing == TaxSpec => []ReadyMeansClean
<1>1. TaxInv => ReadyMeansClean
  <2> SUFFICES ASSUME TaxInv, Answered PROVE ReadyMeansClean
    BY DEF ReadyMeansClean
  <2>1. \A e : ~ Ahead(e)
    BY DEF Ahead, Answered
  <2>2. \A e \in lasting : e \in report.found \/ LeftOut(e)
    BY <2>1 DEF TaxInv, Promised
  <2>3. ASSUME ~ report.more, Undisturbed
        PROVE  /\ lasting = Outstanding /\ report.found \subseteq Outstanding
               /\ report.lost = {} /\ report.sources = 0 => ScopeRows = {}
    <3>1. report.left = {}
      BY DEF TaxInv, Began, Answered
    <3>2. /\ lasting = Outstanding /\ report.found \subseteq Outstanding
          /\ report.sources = 0 => \A l \in ScopeRows : l.sheet \in report.left \cup report.lost
      BY <2>3 DEF TaxInv, Exact, Answered, Undisturbed
    <3> QED BY <3>1, <3>2
  <2>4. ASSUME ~ report.more, Undisturbed, report.found = {}, report.lost = {}, NEW e \in SettingItems
        PROVE  FALSE
    <3>1. LeftOut(e)
      BY <2>2, <2>3, <2>4 DEF Outstanding
    <3>2. \E i \in Uses \cup {"home-use allocation"} : e = Item("entity", i, 0)
      <4>1. settings \in Profiles
        BY DEF TaxInv, BooksKept
      <4>2. settings.uses \subseteq Uses
        BY <4>1 DEF Profiles, Missing, Uses
      <4>3. CASE e = Item("entity", "home-use allocation", 0)
        BY <4>3
      <4>4. CASE \E use \in settings.uses \ tagged : e = Item("entity", use, 0)
        BY <4>2, <4>4
      <4> QED BY <2>4, <4>3, <4>4 DEF SettingItems, When
    <3>3. e.issue \in Uses \cup {"home-use allocation"}
      BY <3>2, ItemIs
    <3>4. e.issue \notin {"parse error", "no mileage rate"}
      BY <3>3 DEF Uses
    <3> QED BY <2>4, <3>1, <3>4 DEF LeftOut, TwinLost
  <2>5. ASSUME ~ report.more, Undisturbed, report.found = {}, report.lost = {}
        PROVE  SettingItems = {}
    BY <2>4, <2>5
  <2> QED BY <2>2, <2>3, <2>5, NothingToAsk DEF ReadyMeansClean
<1> QED BY <1>1, TaxBegins, TaxStep, PTL DEF TaxSpec

(***************************************************************************)
(* Sums.  The library's sum is a recursive function that takes a chosen    *)
(* element first; what it comes to is shown by induction over the set, by  *)
(* the least number of elements for which it would fail.                   *)
(***************************************************************************)

(* Induction over the numbers, of membership in a set.                     *)
LEMMA CountedInduction ==
  ASSUME NEW F, 0 \in F, \A n \in Nat : n \in F => n + 1 \in F
  PROVE  Nat \subseteq F
<1> DEFINE T == {n \in Nat : n \notin F}
           R == {ss \in Nat \X Nat : ss[1] < ss[2]}
<1>1. IsWellFoundedOn(R, Nat)
  BY NatLessThanWellFounded DEF OpToRel
<1>2. SUFFICES ASSUME T # {} PROVE FALSE
  OBVIOUS
<1>3. PICK x \in T : \A y \in T : <<y, x>> \notin R
  <2> T \subseteq Nat
    OBVIOUS
  <2> HIDE DEF T, R
  <2> QED BY <1>1, <1>2, WFMin
<1>4. x # 0 /\ x - 1 \in Nat /\ x - 1 + 1 = x
  OBVIOUS
<1>5. x - 1 \in T
  BY <1>4
<1>6. <<x - 1, x>> \in R
  BY <1>4
<1> QED BY <1>3, <1>5, <1>6

(* What holds of the empty set, and of a set once it holds of it without   *)
(* any one of its elements, holds of every finite set.                     *)
LEMMA FiniteInduction ==
  ASSUME NEW S, IsFiniteSet(S), NEW G, {} \in G,
         \A s \in SUBSET S : s # {} /\ (\A x \in s : s \ {x} \in G) => s \in G
  PROVE  S \in G
<1> DEFINE F == {n \in Nat : \A s \in SUBSET S : Cardinality(s) <= n => s \in G}
<1>a. \A s \in SUBSET S : IsFiniteSet(s) /\ Cardinality(s) \in Nat
  BY FS_Subset, FS_CardinalityType
<1>1. 0 \in F
  <2>1. ASSUME NEW s \in SUBSET S, Cardinality(s) <= 0 PROVE s \in G
    <3>1. s = {}
      BY <1>a, <2>1, FS_EmptySet
    <3> QED BY <3>1
  <2> QED BY <2>1
<1>2. ASSUME NEW n \in Nat, n \in F PROVE n + 1 \in F
  <2> SUFFICES ASSUME NEW s \in SUBSET S, Cardinality(s) <= n + 1 PROVE s \in G
    OBVIOUS
  <2> SUFFICES ASSUME s # {}, NEW x \in s PROVE s \ {x} \in G
    OBVIOUS
  <2>1. Cardinality(s \ {x}) <= n
    BY <1>a, FS_RemoveElement
  <2> QED BY <1>2, <2>1
<1>3. Cardinality(S) \in F
  <2> HIDE DEF F
  <2> QED BY <1>1, <1>2, FS_CardinalityType, CountedInduction
<1> QED BY <1>3, FS_CardinalityType

Chosen(s) == CHOOSE x \in s : TRUE

Adds(f, g, D) == g = [s \in D |-> IF s = {} THEN 0 ELSE f[Chosen(s)] + g[s \ {Chosen(s)}]]

Small(S, n) == {s \in SUBSET S : Cardinality(s) <= n}

LEMMA SumIs ==
  ASSUME NEW f, NEW S
  PROVE  SumFunctionOnSet(f, S) = (CHOOSE g : Adds(f, g, SUBSET S))[S]
BY DEF SumFunctionOnSet, FoldFunctionOnSet, MapThenFoldSet, Adds, Chosen

LEMMA OneLess ==
  ASSUME NEW s, IsFiniteSet(s), s # {}
  PROVE  /\ Chosen(s) \in s /\ IsFiniteSet(s \ {Chosen(s)})
         /\ Cardinality(s) \in Nat \ {0} /\ Cardinality(s \ {Chosen(s)}) = Cardinality(s) - 1
<1>1. Chosen(s) \in s
  BY DEF Chosen
<1> QED BY <1>1, FS_RemoveElement, FS_CardinalityType, FS_EmptySet

(* The function the sum is taken from exists, and there is one.            *)
LEMMA SumExists ==
  ASSUME NEW f, NEW S, IsFiniteSet(S) PROVE \E g : Adds(f, g, SUBSET S)
<1> DEFINE F == {n \in Nat : \E g : Adds(f, g, Small(S, n))}
<1>a. \A s \in SUBSET S : IsFiniteSet(s) /\ Cardinality(s) \in Nat
  BY FS_Subset, FS_CardinalityType
<1>1. 0 \in F
  <2> DEFINE g == [s \in Small(S, 0) |-> 0]
  <2>1. \A s \in Small(S, 0) : s = {}
    BY <1>a, FS_EmptySet DEF Small
  <2>2. Adds(f, g, Small(S, 0))
    BY <2>1 DEF Adds
  <2> QED BY <2>2
<1>2. ASSUME NEW n \in Nat, n \in F PROVE n + 1 \in F
  <2>1. PICK g : Adds(f, g, Small(S, n))
    BY <1>2
  <2> DEFINE h == [s \in Small(S, n + 1) |-> IF s = {} THEN 0 ELSE f[Chosen(s)] + g[s \ {Chosen(s)}]]
  <2>2. \A s \in Small(S, n) : g[s] = h[s]
    <3>1. Small(S, n) \subseteq Small(S, n + 1)
      BY <1>a DEF Small
    <3> QED BY <2>1, <3>1 DEF Adds
  <2>3. \A s \in Small(S, n + 1) : s # {} => s \ {Chosen(s)} \in Small(S, n)
    BY <1>a, OneLess DEF Small
  <2>4. Adds(f, h, Small(S, n + 1))
    BY <2>2, <2>3 DEF Adds
  <2> QED BY <2>4
<1>3. Cardinality(S) \in F
  <2> HIDE DEF F
  <2> QED BY <1>1, <1>2, CountedInduction, FS_CardinalityType
<1>4. Small(S, Cardinality(S)) = SUBSET S
  BY FS_Subset DEF Small
<1> QED BY <1>3, <1>4

LEMMA SumUnique ==
  ASSUME NEW f, NEW S, IsFiniteSet(S), NEW A, A \subseteq S, NEW g, NEW h,
         Adds(f, g, SUBSET S), Adds(f, h, SUBSET A)
  PROVE  \A s \in SUBSET A : g[s] = h[s]
<1> DEFINE F == {n \in Nat : \A s \in SUBSET A : Cardinality(s) <= n => g[s] = h[s]}
<1>a. \A s \in SUBSET A : s \in SUBSET S /\ IsFiniteSet(s) /\ Cardinality(s) \in Nat
  BY FS_Subset, FS_CardinalityType
<1>b. \A s \in SUBSET A : /\ g[s] = IF s = {} THEN 0 ELSE f[Chosen(s)] + g[s \ {Chosen(s)}]
                          /\ h[s] = IF s = {} THEN 0 ELSE f[Chosen(s)] + h[s \ {Chosen(s)}]
  BY <1>a DEF Adds
<1>1. 0 \in F
  BY <1>a, <1>b, FS_EmptySet
<1>2. ASSUME NEW n \in Nat, n \in F PROVE n + 1 \in F
  <2> SUFFICES ASSUME NEW s \in SUBSET A, Cardinality(s) <= n + 1 PROVE g[s] = h[s]
    OBVIOUS
  <2>0. CASE s = {}
    BY <1>b, <2>0
  <2> SUFFICES ASSUME s # {} PROVE g[s] = h[s]
    BY <2>0
  <2>1. Cardinality(s \ {Chosen(s)}) <= n
    BY <1>a, OneLess
  <2>2. g[s \ {Chosen(s)}] = h[s \ {Chosen(s)}]
    BY <1>2, <2>1
  <2> QED BY <1>b, <2>2
<1>3. TAKE s \in SUBSET A
<1>4. Cardinality(s) \in F
  <2> HIDE DEF F
  <2> QED BY <1>1, <1>2, <1>a, CountedInduction
<1> QED BY <1>4

(* A sum is its chosen element and the sum of the others.                  *)
LEMMA SumUnfolds ==
  ASSUME NEW f, NEW S, IsFiniteSet(S)
  PROVE  SumFunctionOnSet(f, S) =
           IF S = {} THEN 0 ELSE f[Chosen(S)] + SumFunctionOnSet(f, S \ {Chosen(S)})
<1> DEFINE A == S \ {Chosen(S)}
           g == CHOOSE x : Adds(f, x, SUBSET S)
           h == CHOOSE x : Adds(f, x, SUBSET A)
<1>1. IsFiniteSet(A)
  BY FS_Subset
<1>2. Adds(f, g, SUBSET S) /\ Adds(f, h, SUBSET A)
  BY <1>1, SumExists
<1>3. g[A] = h[A]
  <2> A \subseteq S
    OBVIOUS
  <2> HIDE DEF A, g, h
  <2> QED BY <1>2, SumUnique
<1>4. g[S] = IF S = {} THEN 0 ELSE f[Chosen(S)] + g[A]
  <2> HIDE DEF g
  <2> QED BY <1>2 DEF Adds
<1>5. SumFunctionOnSet(f, S) = g[S] /\ SumFunctionOnSet(f, A) = h[A]
  BY SumIs
<1> HIDE DEF g, h
<1> QED BY <1>3, <1>4, <1>5

(* Nothing comes to nothing.                                               *)
LEMMA SumEmpty == \A f : SumFunctionOnSet(f, {}) = 0
BY SumUnfolds, FS_EmptySet

(* Sums are of integers.                                                   *)
LEMMA SumType ==
  ASSUME NEW f, NEW S, IsFiniteSet(S), \A x \in S : f[x] \in Int
  PROVE  SumFunctionOnSet(f, S) \in Int
<1> DEFINE G == {s \in SUBSET S : SumFunctionOnSet(f, s) \in Int}
<1>1. {} \in G
  BY SumEmpty
<1>2. ASSUME NEW s \in SUBSET S, s # {}, \A x \in s : s \ {x} \in G PROVE s \in G
  <2>1. IsFiniteSet(s)
    BY FS_Subset
  <2>2. Chosen(s) \in s /\ SumFunctionOnSet(f, s) = f[Chosen(s)] + SumFunctionOnSet(f, s \ {Chosen(s)})
    BY <1>2, <2>1, OneLess, SumUnfolds
  <2>3. SumFunctionOnSet(f, s \ {Chosen(s)}) \in Int /\ f[Chosen(s)] \in Int
    BY <1>2, <2>2
  <2> QED BY <2>2, <2>3
<1>3. S \in G
  <2> HIDE DEF G
  <2> QED BY <1>1, <1>2, FiniteInduction
<1> QED BY <1>3

(* Whichever element is taken first.                                       *)
LEMMA SumTakes ==
  ASSUME NEW f, NEW S, IsFiniteSet(S), \A x \in S : f[x] \in Int
  PROVE  \A x \in S : SumFunctionOnSet(f, S) = f[x] + SumFunctionOnSet(f, S \ {x})
<1> DEFINE Sum(s) == SumFunctionOnSet(f, s)
           G == {s \in SUBSET S : \A x \in s : Sum(s) = f[x] + Sum(s \ {x})}
<1>1. {} \in G
  OBVIOUS
<1>2. ASSUME NEW s \in SUBSET S, s # {}, \A x \in s : s \ {x} \in G PROVE s \in G
  <2> SUFFICES ASSUME NEW x \in s PROVE Sum(s) = f[x] + Sum(s \ {x})
    OBVIOUS
  <2> DEFINE c == Chosen(s)
             r == (s \ {c}) \ {x}
  <2>1. IsFiniteSet(s) /\ IsFiniteSet(r) /\ r \subseteq S
    BY FS_Subset
  <2>2. c \in s /\ Sum(s) = f[c] + Sum(s \ {c})
    BY <2>1, OneLess, SumUnfolds
  <2>3. CASE x # c
    <3>1. Sum(s \ {c}) = f[x] + Sum(r)
      <4>1. s \ {c} \in G /\ x \in s \ {c}
        BY <1>2, <2>2, <2>3
      <4> QED BY <4>1
    <3>2. Sum(s \ {x}) = f[c] + Sum(r)
      <4>1. s \ {x} \in G /\ c \in s \ {x} /\ (s \ {x}) \ {c} = r
        BY <1>2, <2>2, <2>3
      <4> QED BY <4>1
    <3>3. f[x] \in Int /\ f[c] \in Int /\ Sum(r) \in Int
      <4> HIDE DEF r, c
      <4> QED BY <2>1, <2>2, SumType
    <3> HIDE DEF Sum, c, r
    <3> QED BY <2>2, <3>1, <3>2, <3>3
  <2> QED BY <2>2, <2>3
<1>3. S \in G
  <2> HIDE DEF G, Sum
  <2> QED BY <1>1, <1>2, FiniteInduction
<1> QED BY <1>3

(* Opposite terms have opposite sums.                                     *)
LEMMA SumOpposite ==
  ASSUME NEW f, NEW g, NEW S, IsFiniteSet(S), \A x \in S : f[x] \in Int /\ g[x] = -f[x]
  PROVE  SumFunctionOnSet(g, S) = -SumFunctionOnSet(f, S)
<1> DEFINE G == {s \in SUBSET S : SumFunctionOnSet(g, s) = -SumFunctionOnSet(f, s)}
<1>1. {} \in G
  BY SumEmpty
<1>2. ASSUME NEW s \in SUBSET S, NEW x \in s, s \ {x} \in G PROVE s \in G
  <2>1. IsFiniteSet(s) /\ IsFiniteSet(s \ {x})
    BY FS_Subset
  <2>2. SumFunctionOnSet(g, s) = g[x] + SumFunctionOnSet(g, s \ {x})
    BY <2>1, SumTakes
  <2>3. SumFunctionOnSet(f, s) = f[x] + SumFunctionOnSet(f, s \ {x})
    BY <2>1, SumTakes
  <2>4. SumFunctionOnSet(f, s \ {x}) \in Int /\ f[x] \in Int
    BY <2>1, SumType
  <2>5. SumFunctionOnSet(g, s \ {x}) = -SumFunctionOnSet(f, s \ {x}) /\ g[x] = -f[x]
    BY <1>2
  <2>6. SumFunctionOnSet(g, s) = -SumFunctionOnSet(f, s)
    BY <2>2, <2>3, <2>4, <2>5
  <2> QED BY <2>6
<1>3. S \in G
  <2> HIDE DEF G
  <2> QED BY <1>1, <1>2, FiniteInduction
<1> QED BY <1>3

(* A sum over two sets that have no element in common.                     *)
LEMMA SumUnion ==
  ASSUME NEW f, NEW A, NEW B, IsFiniteSet(A), IsFiniteSet(B), A \cap B = {},
         \A x \in A \cup B : f[x] \in Int
  PROVE  SumFunctionOnSet(f, A \cup B) = SumFunctionOnSet(f, A) + SumFunctionOnSet(f, B)
<1> DEFINE G == {s \in SUBSET A : SumFunctionOnSet(f, s \cup B) = SumFunctionOnSet(f, s) + SumFunctionOnSet(f, B)}
<1>0. SumFunctionOnSet(f, B) \in Int
  BY SumType
<1>1. {} \in G
  BY <1>0, SumEmpty
<1>2. ASSUME NEW s \in SUBSET A, NEW x \in s, s \ {x} \in G PROVE s \in G
  <2>1. IsFiniteSet(s) /\ IsFiniteSet(s \cup B) /\ IsFiniteSet(s \ {x})
    BY FS_Subset, FS_Union
  <2>2. SumFunctionOnSet(f, s) = f[x] + SumFunctionOnSet(f, s \ {x})
    BY <2>1, SumTakes
  <2>3. SumFunctionOnSet(f, s \cup B) = f[x] + SumFunctionOnSet(f, (s \cup B) \ {x})
    BY <2>1, SumTakes
  <2>4. (s \cup B) \ {x} = (s \ {x}) \cup B
    OBVIOUS
  <2>5. SumFunctionOnSet(f, s \ {x}) \in Int /\ f[x] \in Int
    BY <2>1, SumType
  <2>6. SumFunctionOnSet(f, (s \ {x}) \cup B) = SumFunctionOnSet(f, s \ {x}) + SumFunctionOnSet(f, B)
    BY <1>2
  <2>7. SumFunctionOnSet(f, s \cup B) = SumFunctionOnSet(f, s) + SumFunctionOnSet(f, B)
    <3> DEFINE r == s \ {x}
               b == SumFunctionOnSet(f, B)
    <3>1. SumFunctionOnSet(f, s \cup B) = f[x] + SumFunctionOnSet(f, r \cup B)
      BY <2>3, <2>4
    <3> HIDE DEF r, b
    <3> QED BY <1>0, <2>2, <2>5, <2>6, <3>1 DEF r, b
  <2> QED BY <2>7
<1>3. A \in G
  <2> HIDE DEF G
  <2>1. \A s \in SUBSET A : s # {} /\ (\A x \in s : s \ {x} \in G) => s \in G
    BY <1>2
  <2> QED BY <1>1, <2>1, FiniteInduction
<1> QED BY <1>3

(* What finitely many elements are sent to is finite.                      *)
LEMMA FiniteImage ==
  ASSUME NEW f, NEW S, IsFiniteSet(S)
  PROVE  IsFiniteSet({f[x] : x \in S})
<1> DEFINE G == {s \in SUBSET S : IsFiniteSet({f[x] : x \in s})}
<1>1. {} \in G
  <2>1. {f[x] : x \in {}} = {}
    OBVIOUS
  <2> QED BY <2>1, FS_EmptySet
<1>2. ASSUME NEW s \in SUBSET S, NEW x \in s, s \ {x} \in G PROVE s \in G
  <2> DEFINE T == {f[y] : y \in s \ {x}}
  <2>1. {f[y] : y \in s} = T \cup {f[x]}
    OBVIOUS
  <2>2. IsFiniteSet(T \cup {f[x]})
    <3>1. IsFiniteSet(T)
      BY <1>2
    <3> HIDE DEF T
    <3> QED BY <3>1, FS_AddElement
  <2> QED BY <2>1, <2>2
<1>3. S \in G
  <2> HIDE DEF G
  <2> QED BY <1>1, <1>2, FiniteInduction
<1> QED BY <1>3

(* A sum is the sum of its parts' sums.                                    *)
LEMMA SumParts ==
  ASSUME NEW f, NEW S, IsFiniteSet(S), \A x \in S : f[x] \in Int,
         NEW K, IsFiniteSet(K), NEW key, \A x \in S : key[x] \in K,
         NEW parts, \A k \in K : parts[k] = {x \in S : key[x] = k},
         NEW g, \A k \in K : g[k] = SumFunctionOnSet(f, parts[k])
  PROVE  SumFunctionOnSet(g, K) = SumFunctionOnSet(f, S)
<1> DEFINE Of(L) == {x \in S : key[x] \in L}
           G == {L \in SUBSET K : SumFunctionOnSet(g, L) = SumFunctionOnSet(f, Of(L))}
<1>0. \A k \in K : g[k] \in Int
  <2> TAKE k \in K
  <2> DEFINE P == {x \in S : key[x] = k}
  <2>1. IsFiniteSet(P) /\ \A x \in P : f[x] \in Int
    BY FS_Subset
  <2>2. SumFunctionOnSet(f, P) \in Int
    <3> HIDE DEF P
    <3> QED BY <2>1, SumType
  <2> QED BY <2>2
<1>1. {} \in G
  <2>1. Of({}) = {}
    OBVIOUS
  <2> QED BY <2>1, SumEmpty
<1>2. ASSUME NEW L \in SUBSET K, NEW k \in L, L \ {k} \in G PROVE L \in G
  <2> DEFINE P == {x \in S : key[x] = k}
             M == L \ {k}
  <2>1. IsFiniteSet(L) /\ IsFiniteSet(P) /\ IsFiniteSet(Of(M)) /\ P \subseteq S /\ Of(M) \subseteq S
    BY FS_Subset
  <2>2. Of(L) = P \cup Of(M) /\ P \cap Of(M) = {}
    OBVIOUS
  <2>3. SumFunctionOnSet(g, L) = g[k] + SumFunctionOnSet(g, M)
    BY <1>0, <2>1, SumTakes
  <2>4. SumFunctionOnSet(f, P \cup Of(M)) = SumFunctionOnSet(f, P) + SumFunctionOnSet(f, Of(M))
    <3> DEFINE R == Of(M)
    <3>1. \A x \in P \cup R : f[x] \in Int
      BY <2>1
    <3> HIDE DEF P, R
    <3>2. IsFiniteSet(P) /\ IsFiniteSet(R) /\ P \cap R = {}
      BY <2>1, <2>2 DEF R
    <3> QED BY <3>1, <3>2, SumUnion DEF R
  <2>5. g[k] = SumFunctionOnSet(f, P)
    OBVIOUS
  <2>6. SumFunctionOnSet(g, M) = SumFunctionOnSet(f, Of(M))
    BY <1>2
  <2>7. SumFunctionOnSet(g, L) = SumFunctionOnSet(f, Of(L))
    <3> HIDE DEF P, Of, M
    <3> QED BY <2>2, <2>3, <2>4, <2>5, <2>6
  <2> QED BY <2>7
<1>3. K \in G
  <2> HIDE DEF G
  <2> QED BY <1>1, <1>2, FiniteInduction
<1>4. Of(K) = S
  OBVIOUS
<1> QED BY <1>3, <1>4

LEMMA SumOne == ASSUME NEW f, NEW x, f[x] \in Int PROVE SumFunctionOnSet(f, {x}) = f[x]
<1>1. IsFiniteSet({x}) /\ {x} \ {x} = {}
  BY FS_Singleton
<1>2. SumFunctionOnSet(f, {x}) = f[x] + SumFunctionOnSet(f, {x} \ {x})
  BY <1>1, SumTakes
<1> QED BY <1>1, <1>2, SumEmpty

LEMMA SumTwo ==
  ASSUME NEW f, NEW x, NEW y, x # y, f[x] \in Int, f[y] \in Int
  PROVE  SumFunctionOnSet(f, {x, y}) = f[x] + f[y]
<1>1. IsFiniteSet({x, y})
  <2>1. IsFiniteSet({x} \cup {y})
    <3>1. IsFiniteSet({x})
      BY FS_Singleton
    <3> QED BY <3>1, FS_AddElement
  <2>2. {x, y} = {x} \cup {y}
    OBVIOUS
  <2> QED BY <2>1, <2>2
<1>2. SumFunctionOnSet(f, {x, y}) = f[x] + SumFunctionOnSet(f, {x, y} \ {x})
  BY <1>1, SumTakes
<1>3. {x, y} \ {x} = {y}
  OBVIOUS
<1> QED BY <1>2, <1>3, SumOne

(***************************************************************************)
(* Types of the tax pack.                                                  *)
(***************************************************************************)

(* A statement that Reconcile has read is there, and has its period.       *)
PeriodsTyped ==
    /\ statement = NoStatement \/
          statement = [start |-> statement.start, end |-> statement.end, from |-> statement.from,
                       to |-> statement.to, source |-> statement.source, status |-> statement.status]
    /\ reconciling # "" => statement # NoStatement

TaxTypes == TaxTypeOK /\ PeriodsTyped

(* What the proofs need of the bounds.                                     *)
LEMMA BoundsOfTax == MaxTaxEdits \in Nat /\ MaxTaxFaults \in Nat
BY TaxConstants

(* At first nothing is filed, and there may be a statement.                *)
LEMMA TaxTypesInit == TaxInit => TaxTypes
<1> SUFFICES ASSUME TaxInit PROVE TaxTypes
  OBVIOUS
<1>1. PICK done \in [Papers -> {"none", "mapped", "posted"}] :
        /\ filed = [p \in Papers |->
                      IF done[p] = "none" THEN NotFiled
                      ELSE [day |-> 1, posted |-> done[p] = "posted",
                            payload |-> [NoPayload EXCEPT !.there = p \in Sheets]]]
        /\ lines = {Row(p, 1, 1, MaxCents, "a", TRUE, done[p] = "posted") :
                      p \in {q \in Sheets : done[q] # "none"}}
  BY DEF TaxInit
<1>2. \A p \in Papers : filed[p].day \in Dates \cup {NoDate} /\ filed[p].posted \in BOOLEAN
  <2> SUFFICES ASSUME NEW p \in Papers
               PROVE  filed[p].day \in Dates \cup {NoDate} /\ filed[p].posted \in BOOLEAN
    OBVIOUS
  <2>1. CASE done[p] = "none"
    BY <1>1, <2>1 DEF NotFiled
  <2>2. CASE done[p] # "none"
    <3> DEFINE pl == [NoPayload EXCEPT !.there = p \in Sheets]
               b  == done[p] = "posted"
    <3>1. filed[p] = [day |-> 1, posted |-> b, payload |-> pl]
      BY <1>1, <2>2
    <3>2. 1 \in Dates /\ b \in BOOLEAN
      BY DEF Dates
    <3> HIDE DEF pl, b
    <3> QED BY <3>1, <3>2
  <2> QED BY <2>1, <2>2
<1>3. \A l \in lines : l.sheet \in Sheets /\ l.day \in Dates /\ l.cents \in Cents
  BY <1>1, TaxConstants DEF Row, Dates, Cents
<1>4. /\ statement = NoStatement \/ (statement.start <= statement.end /\ statement.source \in Sheets)
      /\ PeriodsTyped
  <2>1. statement = NoStatement \/ \E p \in Sheets :
          statement = [start |-> 1, end |-> 2, from |-> 0, to |-> MaxCents, source |-> p,
                       status |-> "reconciled"]
    BY DEF TaxInit
  <2>2. reconciling = ""
    BY DEF TaxInit
  <2>3. CASE statement = NoStatement
    BY <2>2, <2>3 DEF PeriodsTyped
  <2>4. ASSUME NEW p \in Sheets,
               statement = [start |-> 1, end |-> 2, from |-> 0, to |-> MaxCents, source |-> p,
                            status |-> "reconciled"]
        PROVE  statement.start <= statement.end /\ statement.source \in Sheets /\ PeriodsTyped
    <3>1. /\ statement.start = 1 /\ statement.end = 2 /\ statement.from = 0
          /\ statement.to = MaxCents /\ statement.source = p /\ statement.status = "reconciled"
      BY <2>4
    <3>2. PeriodsTyped
      BY <2>2, <2>4, <3>1 DEF PeriodsTyped
    <3> QED BY <3>1, <3>2
  <2> QED BY <2>1, <2>3, <2>4
<1>5. settings \in Profiles /\ tagged \subseteq Uses
  <2>1. settings = Missing \/ settings = [status |-> "complete", uses |-> Uses]
    BY DEF TaxInit
  <2>2. settings \in Profiles
    BY <2>1 DEF Profiles
  <2>3. tagged = settings.uses
    BY DEF TaxInit
  <2>4. settings.uses \subseteq Uses
    BY <2>1 DEF Missing
  <2> QED BY <2>2, <2>3, <2>4
<1>6. edits \in 0 .. MaxTaxEdits /\ taxFaults \in 0 .. MaxTaxFaults
  <2>1. edits = 0 /\ taxFaults = 0
    BY DEF TaxInit
  <2> QED BY <2>1, BoundsOfTax
<1>7. trips = {} /\ rated = {} /\ reconciling = ""
  BY DEF TaxInit
<1> QED BY <1>2, <1>3, <1>4, <1>5, <1>6, <1>7 DEF TaxTypes, TaxTypeOK

(* One more edit of the books, and the paper and the row it writes.        *)
LEMMA EditTyped ==
  ASSUME TaxTypes, Edit
  PROVE  edits' \in 0 .. MaxTaxEdits /\ taxFaults' \in 0 .. MaxTaxFaults
<1>1. edits < MaxTaxEdits /\ edits' = edits + 1 /\ taxFaults' = taxFaults
  BY DEF Edit
<1>2. edits \in 0 .. MaxTaxEdits /\ taxFaults \in 0 .. MaxTaxFaults
  BY DEF TaxTypes, TaxTypeOK
<1> QED BY <1>1, <1>2, BoundsOfTax

(* A paper that is filed, read or removed stays a paper.                   *)
LEMMA PapersTyped ==
  ASSUME TaxTypes, BooksKept, NEW p \in Papers, NEW d \in Dates \cup {NoDate}, NEW b \in BOOLEAN, NEW s,
         filed' = [filed EXCEPT ![p] = [day |-> d, posted |-> b, payload |-> s]]
  PROVE  \A q \in Papers : filed'[q].day \in Dates \cup {NoDate} /\ filed'[q].posted \in BOOLEAN
<1> DEFINE f == [day |-> d, posted |-> b, payload |-> s]
<1>1. f.day = d /\ f.posted = b
  OBVIOUS
<1>2. filed' = [filed EXCEPT ![p] = f]
  OBVIOUS
<1> HIDE DEF f
<1>3. \A q \in Papers : filed'[q] = IF q = p THEN f ELSE filed[q]
  BY <1>2 DEF BooksKept
<1> QED BY <1>1, <1>3 DEF TaxTypes, TaxTypeOK

(* The actions on papers.                                                  *)
LEMMA PaperActionsTyped ==
  ASSUME TaxTypes, TaxInv, NEW p \in Papers,
         (\E d \in {1, 3} : FilePaper(p, d)) \/ PostPaper(p)
  PROVE  TaxTypes'
<1>1. BooksKept /\ Filed(filed[p]) /\ filed[p].day \in Dates \cup {NoDate} /\ filed[p].posted \in BOOLEAN
  BY DEF TaxInv, BooksKept, TaxTypes, TaxTypeOK
<1>2. \A q \in Papers : filed'[q].day \in Dates \cup {NoDate} /\ filed'[q].posted \in BOOLEAN
  <2>1. ASSUME NEW d \in {1, 3}, FilePaper(p, d)
        PROVE  \A q \in Papers : filed'[q].day \in Dates \cup {NoDate} /\ filed'[q].posted \in BOOLEAN
    <3>1. [filed[p] EXCEPT !.day = d] = [day |-> d, posted |-> filed[p].posted, payload |-> filed[p].payload]
      BY <1>1, PaperField, Zenon
    <3>2. filed' = [filed EXCEPT ![p] = [day |-> d, posted |-> filed[p].posted, payload |-> filed[p].payload]]
      BY <2>1, <3>1 DEF FilePaper
    <3>3. d \in Dates \cup {NoDate}
      BY DEF Dates
    <3> QED BY <1>1, <3>2, <3>3, PapersTyped
  <2>2. CASE PostPaper(p)
    <3>1. [filed[p] EXCEPT !.posted = TRUE] = [day |-> filed[p].day, posted |-> TRUE, payload |-> filed[p].payload]
      BY <1>1, PaperField, Zenon
    <3>2. filed' = [filed EXCEPT ![p] = [day |-> filed[p].day, posted |-> TRUE, payload |-> filed[p].payload]]
      BY <2>2, <3>1 DEF PostPaper
    <3> QED BY <1>1, <3>2, PapersTyped
  <2> QED BY <2>1, <2>2
<1>3. Edit /\ UNCHANGED <<lines, statement, settings, tagged, trips, rated, reconciling>>
  BY DEF FilePaper, PostPaper
<1> QED BY <1>2, <1>3, EditTyped DEF TaxTypes, TaxTypeOK, PeriodsTyped

(* What the readiness report and the pack have read of the papers.         *)
LEMMA StoreReadingTyped ==
  ASSUME TaxTypes, TaxInv, NEW p \in Sheets, StoreReading(p) PROVE TaxTypes'
<1>1. p \in Papers /\ BooksKept /\ Filed(filed[p]) /\ filed[p].day \in Dates \cup {NoDate}
      /\ filed[p].posted \in BOOLEAN
  BY DEF TaxInv, BooksKept, TaxTypes, TaxTypeOK, Papers
<1>2. PICK r \in Readings(p) :
        /\ lines' = lines \cup r[1]
        /\ filed' = [filed EXCEPT ![p] = [@ EXCEPT !.payload = [r[2] EXCEPT !.there = TRUE]]]
  BY DEF StoreReading
<1> DEFINE s == [r[2] EXCEPT !.there = TRUE]
<1>3. \A q \in Papers : filed'[q].day \in Dates \cup {NoDate} /\ filed'[q].posted \in BOOLEAN
  <2>0. filed' = [filed EXCEPT ![p] = [filed[p] EXCEPT !.payload = s]]
    BY <1>2
  <2> HIDE DEF s
  <2>1. [filed[p] EXCEPT !.payload = s] = [day |-> filed[p].day, posted |-> filed[p].posted, payload |-> s]
    BY <1>1, PaperField, Zenon
  <2>2. filed' = [filed EXCEPT ![p] = [day |-> filed[p].day, posted |-> filed[p].posted, payload |-> s]]
    BY <2>0, <2>1
  <2> QED BY <1>1, <2>2, PapersTyped
<1>4. \A l \in lines' : l.sheet \in Sheets /\ l.day \in Dates /\ l.cents \in Cents
  <2>1. \A l \in r[1] : l.sheet \in Sheets /\ l.day \in Dates /\ l.cents \in Cents
    BY TaxConstants DEF Readings, Line, Row, Dates, Cents
  <2> QED BY <1>2, <2>1 DEF TaxTypes, TaxTypeOK
<1>5. Edit /\ UNCHANGED <<statement, settings, tagged, trips, rated, reconciling>>
  BY DEF StoreReading
<1> QED BY <1>3, <1>4, <1>5, EditTyped DEF TaxTypes, TaxTypeOK, PeriodsTyped

(* The actions on the rows of the year.                                    *)
LEMMA RowActionsTyped ==
  ASSUME TaxTypes, TaxInv, NEW l \in lines, MapRow(l) \/ PostRow(l) PROVE TaxTypes'
<1>1. l = Row(l.sheet, l.index, l.day, l.cents, l.mark, l.account, l.posted)
      /\ l.sheet \in Sheets /\ l.day \in Dates /\ l.cents \in Cents
  BY DEF TaxInv, BooksKept, TaxTypes, TaxTypeOK
<1>2. PICK m : lines' = (lines \ {l}) \cup {m} /\ m.sheet = l.sheet /\ m.day = l.day /\ m.cents = l.cents
  <2>1. /\ [l EXCEPT !.account = TRUE] = Row(l.sheet, l.index, l.day, l.cents, l.mark, TRUE, l.posted)
        /\ [l EXCEPT !.posted = TRUE] = Row(l.sheet, l.index, l.day, l.cents, l.mark, l.account, TRUE)
    BY <1>1, RowField, Zenon
  <2>2. CASE MapRow(l)
    <3> DEFINE m == Row(l.sheet, l.index, l.day, l.cents, l.mark, TRUE, l.posted)
    <3>1. lines' = (lines \ {l}) \cup {m}
      BY <2>1, <2>2 DEF MapRow
    <3>2. m.sheet = l.sheet /\ m.day = l.day /\ m.cents = l.cents
      BY DEF Row
    <3> HIDE DEF m
    <3> QED BY <3>1, <3>2
  <2>3. CASE PostRow(l)
    <3> DEFINE m == Row(l.sheet, l.index, l.day, l.cents, l.mark, l.account, TRUE)
    <3>1. lines' = (lines \ {l}) \cup {m}
      BY <2>1, <2>3 DEF PostRow
    <3>2. m.sheet = l.sheet /\ m.day = l.day /\ m.cents = l.cents
      BY DEF Row
    <3> HIDE DEF m
    <3> QED BY <3>1, <3>2
  <2> QED BY <2>2, <2>3
<1>3. \A x \in lines' : x.sheet \in Sheets /\ x.day \in Dates /\ x.cents \in Cents
  BY <1>1, <1>2 DEF TaxTypes, TaxTypeOK
<1>4. Edit /\ UNCHANGED <<filed, statement, settings, tagged, trips, rated, reconciling>>
  BY DEF MapRow, PostRow
<1> QED BY <1>3, <1>4, EditTyped DEF TaxTypes, TaxTypeOK, PeriodsTyped

(* The actions on a statement, its reconciliation among them.              *)
LEMMA StatementActionsTyped ==
  ASSUME TaxTypes,
         \/ \E p \in Sheets, r \in Periods, st \in Stati : WriteStatement(r[1], r[2], 0, p, st)
         \/ ReconcileWrites
  PROVE  TaxTypes'
<1>1. CASE \E p \in Sheets, r \in Periods, st \in Stati : WriteStatement(r[1], r[2], 0, p, st)
  <2>1. PICK p \in Sheets, r \in Periods, st \in Stati : WriteStatement(r[1], r[2], 0, p, st)
    BY <1>1
  <2>2. /\ statement' = [start |-> r[1], end |-> r[2], from |-> 0, to |-> 0, source |-> p, status |-> st]
        /\ r[1] <= r[2] /\ Edit /\ UNCHANGED <<filed, lines, settings, tagged, trips, rated, reconciling>>
    BY <2>1 DEF WriteStatement
  <2>3. statement' # NoStatement
    BY <2>2 DEF NoStatement
  <2> QED BY <2>2, <2>3, EditTyped DEF TaxTypes, TaxTypeOK, PeriodsTyped
<1>2. CASE ReconcileWrites
  <2>1. /\ statement # NoStatement /\ statement' = [statement EXCEPT !.status = reconciling]
        /\ reconciling' = "" /\ Edit /\ UNCHANGED <<filed, lines, settings, tagged, trips, rated>>
    BY <1>2 DEF ReconcileWrites, TaxTypes, PeriodsTyped
  <2>2. /\ statement'.start = statement.start /\ statement'.end = statement.end
        /\ statement'.source = statement.source
        /\ statement' = [start |-> statement'.start, end |-> statement'.end, from |-> statement'.from,
                         to |-> statement'.to, source |-> statement'.source, status |-> statement'.status]
    BY <2>1 DEF TaxTypes, PeriodsTyped
  <2> QED BY <2>1, <2>2, EditTyped DEF TaxTypes, TaxTypeOK, PeriodsTyped
<1> QED BY <1>1, <1>2

(* The settings of the tax pack.                                           *)
LEMMA SettingsTyped ==
  ASSUME TaxTypes,
         \/ \E f \in Profiles : handleUpdateEntityTaxSettings(f)
         \/ \E u \in {{}, Uses} : TagAccounts(u)
         \/ \E d \in {1, 2} : handleMileageCreate(d) \/ handleMileageUpdate(d, 3 - d)
                              \/ handleMileageDelete(d) \/ UpsertRate(YearOf(d))
  PROVE  TaxTypes'
<1>1. Edit /\ UNCHANGED <<filed, lines, statement, reconciling>>
  BY DEF handleUpdateEntityTaxSettings, TagAccounts, handleMileageCreate, handleMileageUpdate,
         handleMileageDelete, UpsertRate
<1>2. settings' \in Profiles /\ tagged' \subseteq Uses
  BY DEF handleUpdateEntityTaxSettings, TagAccounts, handleMileageCreate, handleMileageUpdate,
         handleMileageDelete, UpsertRate, TaxTypes, TaxTypeOK
<1>3. \A d \in {1, 2} : d \in Dates /\ 3 - d \in Dates
  BY DEF Dates
<1>4. trips' \subseteq Dates /\ rated' \subseteq {YearOf(d) : d \in Dates}
  BY <1>3 DEF handleUpdateEntityTaxSettings, TagAccounts, handleMileageCreate, handleMileageUpdate,
         handleMileageDelete, UpsertRate, TaxTypes, TaxTypeOK
<1> QED BY <1>1, <1>2, <1>4, EditTyped DEF TaxTypes, TaxTypeOK, PeriodsTyped

(* A report that is being made, and Reconcile's reading, write no books.   *)
LEMMA ReportTyped ==
  ASSUME TaxTypes, UNCHANGED <<books, edits>>, taxFaults' \in 0 .. MaxTaxFaults,
         reconciling' = reconciling \/ (statement # NoStatement /\ reconciling' \in {"needs_review", "reconciled"})
  PROVE  TaxTypes'
BY DEF TaxTypes, TaxTypeOK, PeriodsTyped, books

(* Every step of the papers, the rows and the reports keeps the types.     *)
LEMMA TaxTypesStep == TaxTypes /\ TaxInv /\ [TaxNext]_taxVars => TaxTypes'
<1> SUFFICES ASSUME TaxTypes, TaxInv, [TaxNext]_taxVars PROVE TaxTypes'
  OBVIOUS
<1>f. taxFaults \in 0 .. MaxTaxFaults /\ (Fails => taxFaults' \in 0 .. MaxTaxFaults)
  <2>1. taxFaults \in 0 .. MaxTaxFaults
    BY DEF TaxTypes, TaxTypeOK
  <2> QED BY <2>1, BoundsOfTax DEF Fails
<1>1. CASE \E p \in Papers : (\E d \in {1, 3} : FilePaper(p, d)) \/ PostPaper(p)
  BY <1>1, PaperActionsTyped
<1>2. CASE \E p \in Papers : ReadPaper(p) \/ ReadPaperFails(p)
  BY <1>2, <1>f, ReportTyped DEF ReadPaper, JudgePaper, ReadPaperFails, Reads
<1>3. CASE \E p \in Sheets : StoreReading(p)
  BY <1>3, StoreReadingTyped
<1>4. CASE \/ \E p \in Sheets, r \in Periods, st \in Stati : WriteStatement(r[1], r[2], 0, p, st)
           \/ ReconcileWrites
  BY <1>4, StatementActionsTyped
<1>5. CASE \E l \in lines : MapRow(l) \/ PostRow(l)
  BY <1>5, RowActionsTyped
<1>6. CASE ReconcileReads
  BY <1>6, <1>f, ReportTyped DEF ReconcileReads
<1>7. CASE \/ \E f \in Profiles : handleUpdateEntityTaxSettings(f)
           \/ \E u \in {{}, Uses} : TagAccounts(u)
           \/ \E d \in {1, 2} : handleMileageCreate(d) \/ handleMileageUpdate(d, 3 - d)
                                \/ handleMileageDelete(d) \/ UpsertRate(YearOf(d))
  BY <1>7, SettingsTyped
<1>8. CASE \/ \E listed \in SUBSET Papers : handleReportTaxReadiness(listed)
           \/ Duplicates \/ ReadStatements \/ ReadStatementsFails
  BY <1>8, <1>f, ReportTyped DEF handleReportTaxReadiness, Duplicates, ReadStatements, ReadStatementsFails, Reads
<1>9. CASE \/ ReadProfile(settings, FALSE) /\ UNCHANGED taxFaults
           \/ ReadRoles(settings, {}) /\ UNCHANGED taxFaults
           \/ ReadTags(tagged, FALSE) /\ UNCHANGED taxFaults
           \/ SettingsFail
  BY <1>9, <1>f, ReportTyped DEF ReadProfile, ReadRoles, ReadTags, SettingsFail, Reads
<1>10. CASE UNCHANGED taxVars
  BY <1>10, <1>f, ReportTyped DEF taxVars
<1> QED BY <1>1, <1>2, <1>3, <1>4, <1>5, <1>6, <1>7, <1>8, <1>9, <1>10 DEF TaxNext

(* Papers, rows, the statement, the settings and the reports are of their  *)
(* types, whatever is filed while a report is read.                        *)
THEOREM TaxTypesHold == TaxSpec => []TaxTypeOK
<1>1. TaxTypes => TaxTypeOK
  BY DEF TaxTypes
<1> QED BY <1>1, TaxBegins, TaxStep, TaxTypesInit, TaxTypesStep, PTL DEF TaxSpec

(***************************************************************************)
(* The decisions.  What is answered is what the code computes of one of the*)
(* questions (Asked); for every question that is sound.                    *)
(***************************************************************************)

(* A receipt is ready only past every gate.                                *)
LEMMA RunReady ==
  ASSUME NEW q, Run(q).status = "ready"
  PROVE  /\ Run(q).entry = EntryLines(q) /\ Run(q).vendor = VendorOf(q) /\ BuildEntry(q)
         /\ AsksVendor(q) => ValidateVendorMatch(q.vendor)
         /\ KnownAccount(q) = {} => ValidateClassify(q.classify)
BY DEF Run, Review, Retried, Gate

LEMMA RunIsOfReceipt == \A q : Run(q).about = "receipt"
BY DEF Run, Review, Retried

(* What Run calls ready is sound, whatever the models answered.            *)
LEMMA ReceiptsAreSound ==
  ASSUME NEW q \in Receipts
  PROVE  Run(q).about = "receipt" /\ ReadyIsSound(q, Run(q))
<1> SUFFICES ASSUME Run(q).status = "ready" PROVE ReadyIsSound(q, Run(q))
  BY RunIsOfReceipt DEF ReadyIsSound
<1>1. /\ Run(q).entry = EntryLines(q) /\ Run(q).vendor = VendorOf(q) /\ BuildEntry(q)
      /\ AsksVendor(q) => ValidateVendorMatch(q.vendor)
      /\ KnownAccount(q) = {} => ValidateClassify(q.classify)
  BY RunReady
<1>2. AtMostOne(q.extract.total) /\ q.exact \in Maybe(OfferedVendors)
      /\ q.vendor.id \in Maybe({"known", "plain", "ghost"}) /\ q.named \in BOOLEAN
      /\ q.vendor.proposed \in {"none", "nameless", "patternless", "full"}
  <2>1. CASE q.extract \in Extracts /\ q.exact = {} /\ q.vendor = GoodVendor /\ q.named = FALSE
    <3>1. AtMostOne(q.extract.total)
      BY <2>1, DecisionConstants DEF Amount
    <3>2. q.vendor.id = {"plain"} /\ q.vendor.proposed = "none"
      BY <2>1 DEF GoodVendor
    <3> QED BY <2>1, <3>1, <3>2 DEF Maybe
  <2>2. CASE /\ q.extract = GoodExtract /\ q.exact \in Maybe(OfferedVendors) /\ q.vendor \in Vendors
             /\ q.named \in BOOLEAN
    BY <2>2 DEF GoodExtract, AtMostOne, Vendors
  <2> QED BY <2>1, <2>2 DEF Receipts
<1>3. /\ Debits(Run(q).entry) = Credits(Run(q).entry)
      /\ {Credits(Run(q).entry)} = q.extract.total
  <2>1. Debits(EntryLines(q)) = Credits(EntryLines(q)) /\ Debits(EntryLines(q)) = The(q.extract.total)
    BY <1>1 DEF BuildEntry, AssertBalanced
  <2>2. q.extract.total # {}
    BY <1>1 DEF BuildEntry
  <2>3. {The(q.extract.total)} = q.extract.total
    BY <1>2, <2>2 DEF AtMostOne, The
  <2> QED BY <1>1, <2>1, <2>3
<1>4. MatchedVendor(q) \subseteq OfferedVendors /\ \A v, w \in MatchedVendor(q) : v = w
  BY <1>1, <1>2 DEF MatchedVendor, ValidateVendorMatch, Maybe, OfferedVendors
<1>6. AccountOf(q) \in OfferedAccounts
  <2>1. CASE KnownAccount(q) = {}
    BY <1>1, <2>1 DEF AccountOf, ValidateClassify
  <2>2. CASE KnownAccount(q) # {}
    <3>1. The(KnownAccount(q)) \in KnownAccount(q)
      BY <2>2 DEF The
    <3>2. KnownAccount(q) \subseteq {"rent"}
      BY DEF KnownAccount, DefaultAccountFor
    <3> QED BY <2>2, <3>1, <3>2 DEF AccountOf, OfferedAccounts
  <2> QED BY <2>1, <2>2
<1>7. \A i \in DOMAIN EntryLines(q) : EntryLines(q)[i].account \in OfferedAccounts \cup {"cash", "tax"}
  <2> DEFINE a == AccountOf(q)
             total == [account |-> "cash", debit |-> 0, credit |-> The(q.extract.total)]
  <2> HIDE DEF a
  <2>1. CASE SplitsTax(q)
    <3> DEFINE three == <<[account |-> a, debit |-> The(q.extract.subtotal), credit |-> 0],
                          [account |-> "tax", debit |-> The(q.extract.tax), credit |-> 0], total>>
    <3>1. EntryLines(q) = three
      BY <2>1 DEF EntryLines, a
    <3>2. \A i \in DOMAIN three : three[i].account \in {a, "cash", "tax"}
      OBVIOUS
    <3> QED BY <1>6, <3>1, <3>2 DEF a
  <2>2. CASE ~SplitsTax(q)
    <3> DEFINE two == <<[account |-> a, debit |-> The(q.extract.total), credit |-> 0], total>>
    <3>1. EntryLines(q) = two
      BY <2>2 DEF EntryLines, a
    <3>2. \A i \in DOMAIN two : two[i].account \in {a, "cash", "tax"}
      OBVIOUS
    <3> QED BY <1>6, <3>1, <3>2 DEF a
  <2> QED BY <2>1, <2>2
<1>8. CASE GivesBoth(q)
  <2>1. VendorOf(q) \cap OfferedVendors = {}
    BY <1>8 DEF GivesBoth, VendorOf, OfferedVendors
  <2> QED BY <1>1, <1>3, <1>7, <1>8, <2>1 DEF ReadyIsSound
<1>9. CASE ~ GivesBoth(q)
  <2>1. q.named <=> VendorOf(q) # {}
    <3>1. CASE AsksVendor(q) /\ q.vendor.id = {}
      BY <1>1, <3>1 DEF ValidateVendorMatch, VendorOf, Proposes, AsksVendor
    <3>2. CASE AsksVendor(q) /\ q.vendor.id # {}
      BY <1>9, <3>2 DEF GivesBoth, VendorOf, MatchedVendor, AsksVendor
    <3>3. CASE ~ AsksVendor(q)
      BY <1>2, <3>3 DEF VendorOf, MatchedVendor, Proposes, AsksVendor
    <3> QED BY <3>1, <3>2, <3>3
  <2>2. ASSUME NEW v \in VendorOf(q)
        PROVE  \/ v \in OfferedVendors /\ DefaultAccountFor(v) \subseteq {EntryLines(q)[1].account}
               \/ v = "new" /\ q.vendor.proposed = "full"
    <3>1. CASE Proposes(q)
      <4>1. q.vendor.id = {} /\ q.vendor.proposed = "full"
        BY <1>1, <1>9, <3>1 DEF GivesBoth, MatchedVendor, Proposes, ValidateVendorMatch
      <4> QED BY <2>2, <3>1, <4>1 DEF VendorOf
    <3>2. CASE ~ Proposes(q)
      <4>1. MatchedVendor(q) = {v}
        BY <1>4, <2>2, <3>2 DEF VendorOf
      <4>2. KnownAccount(q) = DefaultAccountFor(v)
        BY <4>1 DEF KnownAccount
      <4>3. DefaultAccountFor(v) \subseteq {AccountOf(q)}
        BY <4>2 DEF AccountOf, DefaultAccountFor, The
      <4>4. EntryLines(q)[1].account = AccountOf(q)
        BY DEF EntryLines
      <4> QED BY <1>4, <4>1, <4>3, <4>4
    <3> QED BY <3>1, <3>2
  <2> QED BY <1>1, <1>3, <1>7, <1>9, <2>1, <2>2 DEF ReadyIsSound
<1> QED BY <1>8, <1>9

(* A month's days are numbered from some day.                              *)
LEMMA DayNumbers ==
  ASSUME NEW y \in Int, NEW m \in 1 .. 12
  PROVE  \E base \in Int : \A d \in Int : DayNumber(y, m, d) = base + d
<1> DEFINE days == [n \in 1 .. m - 1 |-> DaysIn(y, n)]
<1>1. IsFiniteSet(1 .. m - 1) /\ DOMAIN days = 1 .. m - 1 /\ \A n \in 1 .. m - 1 : days[n] \in Int
  BY FS_Interval DEF DaysIn
<1>2. SumFunction(days) \in Int
  <2> HIDE DEF days
  <2> QED BY <1>1, SumType DEF SumFunction
<1> DEFINE base == 365 * y + (y - 1) \div 4 - (y - 1) \div 100 + (y - 1) \div 400 + SumFunction(days)
<1>3. base \in Int
  <2> HIDE DEF days
  <2> QED BY <1>2
<1>4. \A d \in Int : DayNumber(y, m, d) = base + d
  BY DEF DayNumber
<1> HIDE DEF base
<1> QED BY <1>3, <1>4

(* A fiscal year's first day differs from the day after the year before by *)
(* what February lacks in one of the two.                                  *)
LEMMA YearsAreSound ==
  ASSUME NEW q \in FiscalYears
  PROVE  TwoYears(q).about = "year" /\ YearsFollow(q, TwoYears(q))
<1> DEFINE y == q.year
           m == q.month
           d == q.day
           before == ValidFiscalYearStart(y, m, d)
           after  == ValidFiscalYearStart(y + 1, m, d)
<1>1. y \in Int /\ y + 1 \in Int /\ m \in 1 .. 12 /\ d \in 1 .. 31
  <2>1. Years \subseteq Int
    BY DecisionConstants
  <2>2. q.year \in Years /\ q.month \in 1 .. 12 /\ q.day \in 1 .. 31
    BY DEF FiscalYears
  <2>3. q.year \in Int
    BY <2>1, <2>2
  <2> QED BY <2>2, <2>3
<1>2. PICK base \in Int : \A e \in Int : DayNumber(y + 1, m, e) = base + e
  <2> HIDE DEF y, m
  <2> QED BY <1>1, DayNumbers
<1>3. /\ before \in Int /\ after \in Int
      /\ Apart(after, before) <= IF m = 2 /\ d > 28 THEN 1 ELSE 0
  <2> HIDE DEF y, m, d
  <2> QED BY <1>1 DEF before, after, ValidFiscalYearStart, DaysIn, Apart
<1>4. /\ TwoYears(q).about = "year"
      /\ TwoYears(q).this.last = DayNumber(y + 1, m, before) - 1
      /\ TwoYears(q).next.first = DayNumber(y + 1, m, after)
  BY DEF TwoYears, FiscalYearRange
<1>5. TwoYears(q).this.last + 1 = base + before /\ TwoYears(q).next.first = base + after
  <2> HIDE DEF y, m, d, before, after
  <2>1. TwoYears(q).this.last = base + before - 1
    BY <1>2, <1>3, <1>4
  <2> QED BY <1>2, <1>3, <1>4, <2>1
<1>6. Apart(base + after, base + before) = Apart(after, before)
  <2> HIDE DEF before, after
  <2> QED BY <1>2, <1>3 DEF Apart
<1> HIDE DEF before, after, y
<1> QED BY <1>3, <1>4, <1>5, <1>6 DEF YearsFollow, m, d

(* Each side of the draft is the rows of that direction and, account by    *)
(* account, those of the other: the rows parted by account come to all.    *)
LEMMA ImportsAreSound ==
  ASSUME NEW q \in Imports
  PROVE  BuildImportEntries(q).about = "import" /\ ImportIsSound(q, BuildImportEntries(q))
<1> DEFINE U == UsableRows(q)
           A == {i \in U :  q.rows[i].inflow}
           B == {i \in U : ~q.rows[i].inflow}
           K == RowAccounts(q)
           cents == [i \in DOMAIN q.rows |-> q.rows[i].cents]
           key == [i \in U |-> The(RowAccount(q, q.rows[i]))]
           ins  == [a \in K |-> Times(q, a) * In(q, a)]
           outs == [a \in K |-> Times(q, a) * Out(q, a)]
           draft == BuildImportEntries(q)
<1>1. q.rows \in RowLists /\ q.fallback \in Maybe({"rent"})
  BY DEF Imports
<1>2. IsFiniteSet(DOMAIN q.rows) /\ \A i \in DOMAIN q.rows : q.rows[i].cents \in Int /\ AtMostOne(q.rows[i].account)
  BY <1>1, DecisionConstants
<1>3. /\ U \subseteq DOMAIN q.rows /\ IsFiniteSet(U) /\ IsFiniteSet(A) /\ IsFiniteSet(B)
      /\ U = A \cup B /\ A \cap B = {}
  <2>1. U \subseteq DOMAIN q.rows
    BY DEF UsableRows
  <2> HIDE DEF U
  <2> QED BY <1>2, <2>1, FS_Subset
<1>4. \A i \in U : cents[i] \in Int
  <2> HIDE DEF U
  <2> QED BY <1>2, <1>3
<1>5. \A i \in U : RowAccount(q, q.rows[i]) = {key[i]} /\ key[i] \in K
  <2> TAKE i \in U
  <2>1. RowAccount(q, q.rows[i]) # {}
    BY DEF UsableRows
  <2>2. AtMostOne(q.fallback)
    BY <1>1 DEF AtMostOne, Maybe
  <2>3. AtMostOne(q.rows[i].account)
    BY <1>2, <1>3
  <2>4. RowAccount(q, q.rows[i]) = {The(RowAccount(q, q.rows[i]))}
    BY <2>1, <2>2, <2>3 DEF RowAccount, AtMostOne, The
  <2>5. RowAccount(q, q.rows[i]) \subseteq K
    BY DEF RowAccounts
  <2> QED BY <2>4, <2>5
<1>6. IsFiniteSet(K)
  <2>1. K \subseteq {key[i] : i \in U}
    <3> SUFFICES ASSUME NEW i \in U, NEW a \in RowAccount(q, q.rows[i]) PROVE a = key[i]
      BY DEF RowAccounts
    <3> HIDE DEF key, U
    <3> QED BY <1>5
  <2>2. IsFiniteSet({key[i] : i \in U})
    <3> HIDE DEF key, U
    <3> QED BY <1>3, FiniteImage
  <2> HIDE DEF K, key, U
  <2> QED BY <2>1, <2>2, FS_Subset
<1>7. \A a \in K : /\ In(q, a)  = SumFunctionOnSet(cents, {i \in A : key[i] = a})
                   /\ Out(q, a) = SumFunctionOnSet(cents, {i \in B : key[i] = a})
  <2> TAKE a \in K
  <2>1. {i \in U : q.rows[i].inflow /\ RowAccount(q, q.rows[i]) = {a}} = {i \in A : key[i] = a}
    <3> HIDE DEF U, key
    <3> QED BY <1>5
  <2>2. {i \in U : ~q.rows[i].inflow /\ RowAccount(q, q.rows[i]) = {a}} = {i \in B : key[i] = a}
    <3> HIDE DEF U, key
    <3> QED BY <1>5
  <2> QED BY <2>1, <2>2 DEF In, Out, CentsOf
<1>8. \A a \in K : In(q, a) \in Int /\ Out(q, a) \in Int
  <2> TAKE a \in K
  <2> DEFINE P == {i \in A : key[i] = a}
             R == {i \in B : key[i] = a}
  <2>1. P \subseteq U /\ R \subseteq U /\ IsFiniteSet(P) /\ IsFiniteSet(R)
    <3> P \subseteq U /\ R \subseteq U
      OBVIOUS
    <3> HIDE DEF P, R, U
    <3> QED BY <1>3, FS_Subset
  <2>2. SumFunctionOnSet(cents, P) \in Int /\ SumFunctionOnSet(cents, R) \in Int
    <3> HIDE DEF P, R, U, cents
    <3> QED BY <1>4, <2>1, SumType
  <2> QED BY <1>7, <2>2
<1> SUFFICES ASSUME \A a \in K : Times(q, a) = 1
             PROVE  draft.debits = draft.credits /\ draft.debits \in {0, CentsOf(q, U)}
  <2>1. draft.about = "import"
    BY DEF BuildImportEntries
  <2> QED BY <2>1 DEF ImportIsSound
<1>9. \A a \in K : ins[a] = In(q, a) /\ outs[a] = Out(q, a)
  BY <1>8
<1>10. SumFunction(ins) = SumFunctionOnSet(cents, A) /\ SumFunction(outs) = SumFunctionOnSet(cents, B)
  <2>1. DOMAIN ins = K /\ DOMAIN outs = K
    OBVIOUS
  <2> DEFINE of(S) == [a \in K |-> {i \in S : key[i] = a}]
  <2>2. /\ \A a \in K : of(A)[a] = {i \in A : key[i] = a} /\ of(B)[a] = {i \in B : key[i] = a}
        /\ \A a \in K : ins[a] = SumFunctionOnSet(cents, of(A)[a])
        /\ \A a \in K : outs[a] = SumFunctionOnSet(cents, of(B)[a])
        /\ \A i \in A : cents[i] \in Int /\ key[i] \in K
        /\ \A i \in B : cents[i] \in Int /\ key[i] \in K
    <3>1. A \subseteq U /\ B \subseteq U
      OBVIOUS
    <3> HIDE DEF ins, outs, key, K, cents, A, B, U
    <3> QED BY <1>4, <1>5, <1>7, <1>9, <3>1
  <2> HIDE DEF ins, outs, key, K, cents, A, B, of
  <2>3. SumFunctionOnSet(ins, K) = SumFunctionOnSet(cents, A)
    BY <1>3, <1>6, <2>2, SumParts
  <2>4. SumFunctionOnSet(outs, K) = SumFunctionOnSet(cents, B)
    BY <1>3, <1>6, <2>2, SumParts
  <2> QED BY <2>1, <2>3, <2>4 DEF SumFunction
<1>11. /\ SumFunctionOnSet(cents, U) = SumFunctionOnSet(cents, A) + SumFunctionOnSet(cents, B)
       /\ SumFunctionOnSet(cents, A) \in Int /\ SumFunctionOnSet(cents, B) \in Int
  <2> HIDE DEF cents, A, B, U
  <2> QED BY <1>3, <1>4, SumUnion, SumType
<1>12. CASE U = {} \/ q.cash = {}
  BY <1>12 DEF BuildImportEntries
<1>13. CASE ~(U = {} \/ q.cash = {})
  <2>1. /\ draft.debits  = SumFunctionOnSet(cents, A) + SumFunction(outs)
        /\ draft.credits = SumFunctionOnSet(cents, B) + SumFunction(ins)
        /\ CentsOf(q, U) = SumFunctionOnSet(cents, U)
    BY <1>13 DEF BuildImportEntries, CentsOf
  <2> HIDE DEF draft, cents, A, B, U, ins, outs
  <2> QED BY <1>10, <1>11, <2>1
<1> QED BY <1>12, <1>13

LEMMA TypesFinite == IsFiniteSet(TypesSpelled)
<1> DEFINE two == {"asset"} \cup {"liability"}
           three == two \cup {"equity"}
           four == three \cup {"income"}
           five == four \cup {"expense"}
           six == five \cup {"expenses"}
           seven == six \cup {"bank"}
<1>1. IsFiniteSet(two)
  BY FS_Singleton, FS_AddElement
<1>2. IsFiniteSet(three)
  <2> HIDE DEF two
  <2> QED BY <1>1, FS_AddElement
<1>3. IsFiniteSet(four)
  <2> HIDE DEF three
  <2> QED BY <1>2, FS_AddElement
<1>4. IsFiniteSet(five)
  <2> HIDE DEF four
  <2> QED BY <1>3, FS_AddElement
<1>5. IsFiniteSet(six)
  <2> HIDE DEF five
  <2> QED BY <1>4, FS_AddElement
<1>6. IsFiniteSet(seven)
  <2> HIDE DEF six
  <2> QED BY <1>5, FS_AddElement
<1>7. TypesSpelled = seven
  BY DEF TypesSpelled
<1> QED BY <1>6, <1>7

(* A sum over the types, written out.                                      *)
LEMMA SumOfTypes ==
  ASSUME NEW f, \A t \in TypesSpelled : f[t] \in Int
  PROVE  SumFunctionOnSet(f, TypesSpelled) =
           f["asset"] + f["liability"] + f["equity"] + f["income"] + f["expense"] + f["expenses"] + f["bank"]
<1> DEFINE S6 == TypesSpelled \ {"bank"}
           S5 == S6 \ {"expenses"}
           S4 == S5 \ {"expense"}
           S3 == S4 \ {"income"}
           S2 == S3 \ {"equity"}
           S1 == S2 \ {"liability"}
<1>1. /\ IsFiniteSet(S6) /\ IsFiniteSet(S5) /\ IsFiniteSet(S4) /\ IsFiniteSet(S3) /\ IsFiniteSet(S2)
      /\ S6 \subseteq TypesSpelled /\ S5 \subseteq TypesSpelled /\ S4 \subseteq TypesSpelled
      /\ S3 \subseteq TypesSpelled /\ S2 \subseteq TypesSpelled
  BY TypesFinite, FS_Subset
<1>2. /\ "bank" \in TypesSpelled /\ "expenses" \in S6 /\ "expense" \in S5 /\ "income" \in S4
      /\ "equity" \in S3 /\ "liability" \in S2 /\ S1 = {"asset"}
  BY DEF TypesSpelled
<1>3. /\ f["asset"] \in Int /\ f["liability"] \in Int /\ f["equity"] \in Int /\ f["income"] \in Int
      /\ f["expense"] \in Int /\ f["expenses"] \in Int /\ f["bank"] \in Int
  BY DEF TypesSpelled
<1>4. SumFunctionOnSet(f, TypesSpelled) = f["bank"] + SumFunctionOnSet(f, S6)
  BY TypesFinite, <1>2, SumTakes
<1>5. SumFunctionOnSet(f, S6) = f["expenses"] + SumFunctionOnSet(f, S5)
  <2> HIDE DEF S6
  <2> QED BY <1>1, <1>2, SumTakes
<1>6. SumFunctionOnSet(f, S5) = f["expense"] + SumFunctionOnSet(f, S4)
  <2> HIDE DEF S5
  <2> QED BY <1>1, <1>2, SumTakes
<1>7. SumFunctionOnSet(f, S4) = f["income"] + SumFunctionOnSet(f, S3)
  <2> HIDE DEF S4
  <2> QED BY <1>1, <1>2, SumTakes
<1>8. SumFunctionOnSet(f, S3) = f["equity"] + SumFunctionOnSet(f, S2)
  <2> HIDE DEF S3
  <2> QED BY <1>1, <1>2, SumTakes
<1>9. SumFunctionOnSet(f, S2) = f["liability"] + SumFunctionOnSet(f, S1)
  <2> HIDE DEF S2
  <2> QED BY <1>1, <1>2, SumTakes
<1>10. SumFunctionOnSet(f, S1) = f["asset"]
  BY <1>2, <1>3, SumOne
<1> HIDE DEF S6, S5, S4, S3, S2, S1
<1> QED BY <1>3, <1>4, <1>5, <1>6, <1>7, <1>8, <1>9, <1>10

(* What a posting moves of a type.                                         *)
Moved(q, t) == [i \in DOMAIN q.posted |-> (IF q.posted[i].debit = t THEN q.posted[i].cents ELSE 0)
                                          - (IF q.posted[i].credit = t THEN q.posted[i].cents ELSE 0)]

(* The net of an account, posting by posting.                              *)
LEMMA LedgerNets ==
  ASSUME NEW q \in Ledgers
  PROVE  /\ IsFiniteSet(DOMAIN q.posted) /\ \A i \in DOMAIN q.posted : q.posted[i] \in Posting
         /\ \A ps \in SUBSET DOMAIN q.posted : \A t \in TypesSpelled :
               /\ Net(q, t, ps) \in Int
               /\ \A i \in ps : Net(q, t, ps) = Moved(q, t)[i] + Net(q, t, ps \ {i})
<1>1. q.posted \in Books
  BY DEF Ledgers
<1>2. IsFiniteSet(DOMAIN q.posted) /\ \A i \in DOMAIN q.posted : q.posted[i] \in Posting
  BY <1>1, DecisionConstants
<1>3. ASSUME NEW ps \in SUBSET DOMAIN q.posted, NEW t \in TypesSpelled
      PROVE  /\ Net(q, t, ps) \in Int
             /\ \A i \in ps : Net(q, t, ps) = Moved(q, t)[i] + Net(q, t, ps \ {i})
  <2> DEFINE f == Moved(q, t)
  <2>1. \A i \in ps : f[i] \in Int
    BY <1>2 DEF Moved, Posting
  <2>2. IsFiniteSet(ps)
    BY <1>2, FS_Subset
  <2>3. \A s : Net(q, t, s) = SumFunctionOnSet(f, s)
    BY DEF Net, Moved
  <2> HIDE DEF f
  <2>4. SumFunctionOnSet(f, ps) \in Int
    BY <2>1, <2>2, SumType
  <2>5. \A i \in ps : SumFunctionOnSet(f, ps) = f[i] + SumFunctionOnSet(f, ps \ {i})
    BY <2>1, <2>2, SumTakes
  <2> QED BY <2>3, <2>4, <2>5 DEF f
<1> QED BY <1>2, <1>3

Worth(q, ps) ==
    Net(q, "asset", ps) + Net(q, "liability", ps) + Net(q, "equity", ps) + Net(q, "income", ps)
        + Net(q, "expense", ps) + Net(q, "expenses", ps) + Net(q, "bank", ps)

(* Over any postings the nets of the accounts come to nothing.             *)
LEMMA NetsCancel ==
  ASSUME NEW q \in Ledgers, NEW ps \in SUBSET DOMAIN q.posted
  PROVE  Worth(q, ps) = 0
<1> DEFINE G == {s \in SUBSET DOMAIN q.posted : Worth(q, s) = 0}
<1>1. {} \in G
  BY SumEmpty DEF Worth, Net
<1>2. ASSUME NEW s \in SUBSET ps, NEW i \in s, s \ {i} \in G PROVE s \in G
  <2>1. q.posted[i] \in Posting /\ s \in SUBSET DOMAIN q.posted /\ s \ {i} \in SUBSET DOMAIN q.posted
    BY LedgerNets
  <2> DEFINE m(t) == Moved(q, t)[i]
             r == s \ {i}
  <2>2. \A t \in TypesSpelled :
           Net(q, t, s) = m(t) + Net(q, t, r) /\ Net(q, t, r) \in Int
    <3> TAKE t \in TypesSpelled
    <3>1. Net(q, t, r) \in Int
      BY <2>1, LedgerNets
    <3>2. \A j \in s : Net(q, t, s) = Moved(q, t)[j] + Net(q, t, s \ {j})
      BY <2>1, LedgerNets
    <3> QED BY <3>1, <3>2
  <2>3. \A t \in TypesSpelled :
           m(t) = (IF q.posted[i].debit = t THEN q.posted[i].cents ELSE 0)
                  - (IF q.posted[i].credit = t THEN q.posted[i].cents ELSE 0)
    BY <2>1 DEF Moved
  <2>4. /\ \A t \in TypesSpelled : m(t) \in Int
        /\ m("asset") + m("liability") + m("equity") + m("income") + m("expense") + m("expenses") + m("bank") = 0
    <3> DEFINE d == q.posted[i].debit
               c == q.posted[i].credit
               n == q.posted[i].cents
    <3>1. d \in TypesSpelled /\ c \in TypesSpelled /\ n \in Int
      BY <2>1 DEF Posting
    <3> HIDE DEF d, c, n, m
    <3>2. \A t \in TypesSpelled : m(t) = (IF d = t THEN n ELSE 0) - (IF c = t THEN n ELSE 0)
      BY <2>3 DEF d, c, n
    <3> QED BY <3>1, <3>2 DEF TypesSpelled
  <2>5. Worth(q, r) = 0
    BY <1>2
  <2> HIDE DEF m, r
  <2>6. Worth(q, s) = 0
    BY <2>2, <2>4, <2>5 DEF Worth, TypesSpelled
  <2> QED BY <2>1, <2>6
<1>3. IsFiniteSet(ps)
  BY LedgerNets, FS_Subset
<1>4. ps \in G
  <2> HIDE DEF G
  <2> QED BY <1>1, <1>2, <1>3, FiniteInduction
<1> QED BY <1>4

(* Numbers that come to nothing: what is above it is what is below it.     *)
LEMMA AboveAndBelow ==
  ASSUME NEW f, NEW S, IsFiniteSet(S), \A x \in S : f[x] \in Int, SumFunctionOnSet(f, S) = 0
  PROVE  SumFunctionOnSet(f, {x \in S : f[x] > 0}) = -SumFunctionOnSet(f, {x \in S : f[x] < 0})
<1> DEFINE A == {x \in S : f[x] > 0}
           B == {x \in S : f[x] < 0}
           Z == {x \in S : f[x] = 0}
<1>1. /\ IsFiniteSet(A) /\ IsFiniteSet(B) /\ IsFiniteSet(Z) /\ IsFiniteSet(A \cup B)
      /\ S = (A \cup B) \cup Z /\ A \cap B = {} /\ (A \cup B) \cap Z = {}
  <2>1. A \subseteq S /\ B \subseteq S /\ Z \subseteq S /\ A \cup B \subseteq S
    OBVIOUS
  <2>2. S = (A \cup B) \cup Z /\ A \cap B = {} /\ (A \cup B) \cap Z = {}
    OBVIOUS
  <2> HIDE DEF A, B, Z
  <2> QED BY <2>1, <2>2, FS_Subset
<1>2. \A x \in Z : f[x] \in Int /\ f[x] = -f[x]
  OBVIOUS
<1>3. /\ SumFunctionOnSet(f, A) \in Int /\ SumFunctionOnSet(f, B) \in Int /\ SumFunctionOnSet(f, Z) \in Int
      /\ SumFunctionOnSet(f, Z) = -SumFunctionOnSet(f, Z)
  <2> HIDE DEF A, B, Z
  <2> QED BY <1>1, <1>2, SumType, SumOpposite
<1>4. SumFunctionOnSet(f, S) = SumFunctionOnSet(f, A \cup B) + SumFunctionOnSet(f, Z)
  <2> HIDE DEF A, B, Z
  <2> QED BY <1>1, SumUnion
<1>5. SumFunctionOnSet(f, A \cup B) = SumFunctionOnSet(f, A) + SumFunctionOnSet(f, B)
  <2> HIDE DEF A, B, Z
  <2> QED BY <1>1, SumUnion
<1> HIDE DEF A, B, Z
<1>6. SumFunctionOnSet(f, A) = -SumFunctionOnSet(f, B)
  <2> DEFINE a == SumFunctionOnSet(f, A)
             b == SumFunctionOnSet(f, B)
             z == SumFunctionOnSet(f, Z)
  <2>1. 0 = (a + b) + z
    BY <1>4, <1>5
  <2> HIDE DEF a, b, z
  <2>2. a \in Int /\ b \in Int /\ z \in Int /\ z = -z
    BY <1>3 DEF a, b, z
  <2>3. a = -b
    BY <2>1, <2>2
  <2> QED BY <2>3 DEF a, b
<1> QED BY <1>6 DEF A, B

(* The accounts of each type, and on which side they are normally.         *)
LEMMA TypesOf ==
  /\ {t \in TypesSpelled : NormalizeType(t) = "asset"}     = {"asset"}
  /\ {t \in TypesSpelled : NormalizeType(t) = "liability"} = {"liability"}
  /\ {t \in TypesSpelled : NormalizeType(t) = "equity"}    = {"equity"}
  /\ {t \in TypesSpelled : NormalizeType(t) = "income"}    = {"income"}
  /\ {t \in TypesSpelled : NormalizeType(t) = "expense"}   = {"expense", "expenses"}
  /\ {t \in TypesSpelled : NormalizeType(t) = "other"}     = {"bank"}
BY DEF TypesSpelled, NormalizeType

(* The nets cancel, so what the statements leave out is what the types on  *)
(* no statement hold.                                                      *)
LEMMA StatementsAreSound ==
  ASSUME NEW q \in Ledgers
  PROVE  /\ PeriodStatements(q).about = "statements"
         /\ StatementsAgree(q, PeriodStatements(q))
<1> DEFINE ps == {i \in DOMAIN q.posted : q.posted[i].inPeriod}
           T == TrialBalance(q)
           N == [t \in TypesSpelled |-> NormalBalance(t, T[t])]
<1>1. \A t \in TypesSpelled : T[t] = Net(q, t, ps) /\ T[t] \in Int
  <2>1. ps \in SUBSET DOMAIN q.posted
    OBVIOUS
  <2>2. \A t \in TypesSpelled : T[t] = Net(q, t, ps)
    BY DEF TrialBalance
  <2> HIDE DEF ps, T
  <2> QED BY <2>1, <2>2, LedgerNets
<1>2. T["asset"] + T["liability"] + T["equity"] + T["income"] + T["expense"] + T["expenses"] + T["bank"] = 0
  <2>1. Worth(q, ps) = 0
    BY NetsCancel
  <2> HIDE DEF ps, T
  <2> QED BY <1>1, <2>1 DEF Worth, TypesSpelled
<1>3. SumFunctionOnSet(T, {t \in TypesSpelled : T[t] > 0}) = -SumFunctionOnSet(T, {t \in TypesSpelled : T[t] < 0})
  <2> HIDE DEF T
  <2>1. SumFunctionOnSet(T, TypesSpelled) = 0
    BY <1>1, <1>2, SumOfTypes
  <2> QED BY <1>1, <2>1, TypesFinite, AboveAndBelow
<1>4. PeriodStatements(q).columns.debit = PeriodStatements(q).columns.credit
  BY <1>3 DEF PeriodStatements, Columns
<1>5. /\ N["asset"] = T["asset"] /\ N["liability"] = -T["liability"] /\ N["equity"] = -T["equity"]
      /\ N["income"] = -T["income"] /\ N["expense"] = T["expense"] /\ N["expenses"] = T["expenses"]
      /\ N["bank"] = -T["bank"]
  <2> HIDE DEF T
  <2> QED BY DEF NormalBalance, DebitNormal, NormalizeType, TypesSpelled
<1>6. /\ T["asset"] \in Int /\ T["liability"] \in Int /\ T["equity"] \in Int /\ T["income"] \in Int
      /\ T["expense"] \in Int /\ T["expenses"] \in Int /\ T["bank"] \in Int
  BY <1>1 DEF TypesSpelled
<1>7. /\ OfType(q, "asset") = N["asset"] /\ OfType(q, "liability") = N["liability"]
      /\ OfType(q, "equity") = N["equity"] /\ OfType(q, "income") = N["income"]
      /\ OfType(q, "expense") = N["expense"] + N["expenses"] /\ OfType(q, "other") = N["bank"]
  <2>1. \A type : OfType(q, type) = SumFunctionOnSet(N, {t \in TypesSpelled : NormalizeType(t) = type})
    BY DEF OfType
  <2>2. /\ N["asset"] \in Int /\ N["liability"] \in Int /\ N["equity"] \in Int /\ N["income"] \in Int
        /\ N["expense"] \in Int /\ N["expenses"] \in Int /\ N["bank"] \in Int
    <3> HIDE DEF T, N
    <3> QED BY <1>5, <1>6
  <2> HIDE DEF T, N
  <2>3. OfType(q, "asset") = SumFunctionOnSet(N, {"asset"})
    BY <2>1, TypesOf
  <2>4. OfType(q, "liability") = SumFunctionOnSet(N, {"liability"})
    BY <2>1, TypesOf
  <2>5. OfType(q, "equity") = SumFunctionOnSet(N, {"equity"})
    BY <2>1, TypesOf
  <2>6. OfType(q, "income") = SumFunctionOnSet(N, {"income"})
    BY <2>1, TypesOf
  <2>7. OfType(q, "expense") = SumFunctionOnSet(N, {"expense", "expenses"})
    BY <2>1, TypesOf
  <2>8. OfType(q, "other") = SumFunctionOnSet(N, {"bank"})
    BY <2>1, TypesOf
  <2> QED BY <2>2, <2>3, <2>4, <2>5, <2>6, <2>7, <2>8, SumOne, SumTwo
<1>8. LET a == PeriodStatements(q) IN
      a.sheet.assets - a.sheet.liabilities - a.sheet.equity = a.net + OfType(q, "other")
  <2>1. /\ PeriodStatements(q).sheet.assets = OfType(q, "asset")
        /\ PeriodStatements(q).sheet.liabilities = OfType(q, "liability")
        /\ PeriodStatements(q).sheet.equity = OfType(q, "equity")
        /\ PeriodStatements(q).net = OfType(q, "income") - OfType(q, "expense")
    BY DEF PeriodStatements, BalanceSheet, ProfitLoss
  <2> HIDE DEF T, N
  <2> QED BY <1>2, <1>5, <1>6, <1>7, <2>1
<1>9. LET spent == Net(q, "expense", OfVendor(q)) + Net(q, "expenses", OfVendor(q)) IN
      PeriodStatements(q).vendor = (IF spent > 0 THEN spent ELSE 0) \/ Net(q, "expenses", OfVendor(q)) # 0
  <2>1. OfVendor(q) \in SUBSET DOMAIN q.posted /\ "expense" \in TypesSpelled
    BY DEF OfVendor, TypesSpelled
  <2>2. Net(q, "expense", OfVendor(q)) \in Int
    BY <2>1, LedgerNets
  <2>3. PeriodStatements(q).vendor =
          IF Net(q, "expense", OfVendor(q)) > 0 THEN Net(q, "expense", OfVendor(q)) ELSE 0
    BY DEF PeriodStatements, VendorPayments
  <2> QED BY <2>2, <2>3
<1>10. PeriodStatements(q).about = "statements"
  BY DEF PeriodStatements
<1> QED BY <1>4, <1>8, <1>9, <1>10 DEF StatementsAgree

(* What is answered is what the code computes.                             *)
Asked == question \in Questions \cup {Unasked} /\ (answer = Unasked \/ (question \in Questions /\ answer = Answer(question)))

(* Each question is of one kind, and its answer is of the same.            *)
LEMMA AnswerIsSound ==
  ASSUME NEW q \in Questions
  PROVE  LET a == Answer(q) IN
         /\ a.about = q.about
         /\ a.about = "receipt"    => ReadyIsSound(q, a)
         /\ a.about = "import"     => ImportIsSound(q, a)
         /\ a.about = "year"       => YearsFollow(q, a)
         /\ a.about = "statements" => StatementsAgree(q, a)
<1>1. CASE q \in Receipts
  <2>1. q.about = "receipt"
    BY <1>1 DEF Receipts
  <2>2. Answer(q) = Run(q)
    BY <2>1 DEF Answer
  <2> QED BY <1>1, <2>1, <2>2, ReceiptsAreSound
<1>2. CASE q \in Imports
  <2>1. q.about = "import"
    BY <1>2 DEF Imports
  <2>2. Answer(q) = BuildImportEntries(q)
    BY <2>1 DEF Answer
  <2> QED BY <1>2, <2>1, <2>2, ImportsAreSound
<1>3. CASE q \in FiscalYears
  <2>1. q.about = "year"
    BY <1>3 DEF FiscalYears
  <2>2. Answer(q) = TwoYears(q)
    BY <2>1 DEF Answer
  <2> QED BY <1>3, <2>1, <2>2, YearsAreSound
<1>4. CASE q \in Ledgers
  <2>1. q.about = "statements"
    BY <1>4 DEF Ledgers
  <2>2. Answer(q) = PeriodStatements(q)
    BY <2>1 DEF Answer
  <2> QED BY <1>4, <2>1, <2>2, StatementsAreSound
<1> QED BY <1>1, <1>2, <1>3, <1>4 DEF Questions

(* What was asked is answered soundly.                                     *)
LEMMA AskedSuffices == Asked => AnswersAreSound /\ DecisionTypeOK
<1>1. CASE answer = Unasked
  BY <1>1 DEF AnswersAreSound, DecisionTypeOK, Unasked
<1>2. CASE question \in Questions /\ answer = Answer(question)
  BY <1>2, AnswerIsSound DEF AnswersAreSound, DecisionTypeOK
<1> QED BY <1>1, <1>2 DEF Asked

(* A question is asked once, and answered when it is asked.                *)
LEMMA AskedInit == Init => Asked
BY DEF Init, DecideInit, Asked

(* No other part asks or answers.                                          *)
LEMMA AskedStep == Asked /\ [Next]_vars => Asked'
<1> SUFFICES ASSUME Asked, [Next]_vars PROVE Asked'
  OBVIOUS
<1>1. UNCHANGED decisionVars \/ Decide
  BY DEF Next, vars
<1>2. CASE UNCHANGED decisionVars
  BY <1>2 DEF decisionVars, Asked
<1>3. CASE Decide
  BY <1>3 DEF Decide, Asked
<1> QED BY <1>1, <1>2, <1>3

(* A receipt that Run calls ready has an entry that balances and comes to  *)
(* the receipt's total; the draft of an import (BuildImportEntries)        *)
(* balances but where an account has rows of both directions; fiscal years *)
(* (FiscalYearRange) follow each other; and the statements of a period     *)
(* agree, whatever the amounts, the rows, the years and the postings.      *)
THEOREM AnswersStand == Spec => []AnswersAreSound
BY AskedInit, AskedStep, AskedSuffices, PTL DEF Spec

(***************************************************************************)
(* Side by side.                                                           *)
(***************************************************************************)

(* A behaviour of the parts side by side is one of each part, so that what *)
(* is proved of a part holds of what the run checks.                       *)
THEOREM PartsBySide ==
    Spec => AccessSpec /\ MfaSpec /\ VendorSpec /\ StagesSpec /\ TaxSpec /\ SearchSpec
<1>1. Init => AccessInit /\ MfaInit /\ VendorInit /\ StagesInit /\ TaxInit /\ SearchInit
  BY DEF Init
<1>2. [Next]_vars => [AccessNext]_accessVars
  BY DEF Next, vars
<1>3. [Next]_vars => [MfaNext]_mfaVars
  BY DEF Next, vars
<1>4. [Next]_vars => [VendorNext]_vendorVars
  BY DEF Next, vars
<1>5. [Next]_vars => [StagesNext]_stageVars
  BY DEF Next, vars
<1>6. [Next]_vars => [TaxNext]_taxVars
  BY DEF Next, vars
<1>7. [Next]_vars => [SearchNext]_searchVars
  BY DEF Next, vars
<1> QED BY <1>1, <1>2, <1>3, <1>4, <1>5, <1>6, <1>7, PTL
        DEF Spec, AccessSpec, MfaSpec, VendorSpec, StagesSpec, TaxSpec, SearchSpec

(* An answer is about what was asked.                                      *)
LEMMA DecisionTypesHold == Spec => []DecisionTypeOK
BY AskedInit, AskedStep, AskedSuffices, PTL DEF Spec

(* Every part keeps its variables to the values its code writes, whichever *)
(* part the behaviour goes through.                                        *)
THEOREM TypesHold == Spec => []TypeOK
<1>1. AccessTypeOK /\ MfaTypeOK /\ VendorTypeOK /\ StagesTypeOK /\ TaxTypeOK /\ SearchTypeOK /\ DecisionTypeOK
        => TypeOK
  BY DEF TypeOK
<1> QED BY <1>1, PartsBySide, AccessTypesHold, MfaTypesHold, VendorTypesHold, StagesTypesHold, TaxTypesHold,
           SearchTypesHold, DecisionTypesHold, PTL
=============================================================================
