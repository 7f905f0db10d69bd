------------------------ MODULE ImportPostingProofs -------------------------
(***************************************************************************)
(* Theorems about ImportPosting, for any requests, rows, accounts, amounts *)
(* and bounds.                                                             *)
(*                                                                         *)
(* What a request carries from the statements it has made to the ones it   *)
(* will make is the matter: the rows it has read (Listed, AsRead) and the  *)
(* transaction it has created for the first of them (Marking).             *)
(***************************************************************************)
EXTENDS ImportPosting, TLAPS

(* Transactions are numbered apart, in the order they are created.         *)
Numbered ==
    /\ \A t \in journal : t.number <= created
    /\ \A t, u \in journal : t.number = u.number => t = u
    /\ \A n \in reported : n <= created

(* Rows and what was read of them are older than the next replacement, and *)
(* a request has one row of an index, which has an account.                *)
Listed ==
    /\ \A i \in Indexes : rows[i] # NoRow => rows[i].id <= replaces
    /\ \A p \in Posters : \A r, q \in todo[p] : r.index = q.index => r = q
    /\ \A p \in Posters : \A r \in todo[p] : r.id <= replaces /\ r.account # NoAccount

(* A request about to mark its row has created the transaction for it.     *)
Marking ==
    \A p \in Posters : pc[p] = "mark" =>
        /\ posting[p] # 0
        /\ \A r \in todo[p] : Current(p, r) =>
              \E t \in journal : /\ t.number = posting[p] /\ t.index = r.index
                                 /\ t.amount = r.amount /\ t.account = r.account

(* A row that is still the one a request has read says what it said then.  *)
AsRead ==
    \A p \in Posters : \A r \in todo[p] :
        /\ r.index \notin touched
        /\ rows[r.index] # NoRow
        /\ rows[r.index].id = r.id
        => rows[r.index].amount = r.amount /\ rows[r.index].account = r.account

IInv ==
    /\ TypeOK
    /\ Numbered
    /\ Listed
    /\ Marking
    /\ AsRead
    /\ PostedRowsAreBacked
    /\ ReportsAreTrue
    /\ StraysWereFailures
    /\ PostedRowsAgree

-----------------------------------------------------------------------------
LEMMA InitIInv == Init => IInv
  <1> SUFFICES ASSUME Init PROVE IInv
    OBVIOUS
  <1>1. TypeOK
    BY ImportConstants DEF Init, TypeOK
  <1>2. Numbered /\ Listed /\ Marking /\ AsRead
    BY DEF Init, Numbered, Listed, Marking, AsRead
  <1>3. PostedRowsAreBacked /\ ReportsAreTrue /\ StraysWereFailures /\ PostedRowsAgree
    BY DEF Init, PostedRowsAreBacked, ReportsAreTrue, StraysWereFailures, PostedRowsAgree, Posted
  <1>4. QED
    BY <1>1, <1>2, <1>3 DEF IInv

-----------------------------------------------------------------------------
(* What replacing makes of one row.                                        *)
LEMMA ReplacedRow ==
    ASSUME TypeOK, PostedRowsAreBacked, replaces < MaxReplaces,
           NEW i \in Indexes, NEW new \in Parsed \cup {NoRow}, NEW seen,
           NEW r, r = Replaced(i, rows[i], new, seen)
    PROVE  /\ r \in Rows \cup {NoRow}
           /\ r # NoRow => r.index = i
           /\ Stands(rows[i], seen) =>
                /\ r # NoRow /\ r.txn = rows[i].txn /\ r.id = rows[i].id
                /\ new = NoRow => r = rows[i]
           /\ Posted(rows[i]) => r.status = rows[i].status
           /\ ~ Posted(rows[i]) /\ r # NoRow => r.txn = 0 /\ r.status # "posted"
           /\ ~ Stands(rows[i], seen) /\ r # NoRow => r.id = replaces + 1
  <1>1. rows[i] \in Rows \cup {NoRow} /\ (rows[i] # NoRow => rows[i].index = i)
    BY DEF TypeOK
  <1>2. /\ new \in Parsed => Inserted(i, new) \in Rows
        /\ Inserted(i, new).index = i /\ Inserted(i, new).id = replaces + 1
        /\ Inserted(i, new).txn = 0
        /\ Inserted(i, new).status \in {"needs_review", "mapped"}
    BY ImportConstants DEF Inserted, Parsed, Rows, TypeOK
  <1>3. CASE Stands(rows[i], seen) /\ new # NoRow
    <2>0. rows[i] # NoRow /\ rows[i] \in Rows /\ new \in Parsed
      BY <1>1, <1>3 DEF Stands, Posted
    <2> DEFINE a == IF rows[i].account = NoAccount THEN new.account ELSE rows[i].account
               s == IF Posted(rows[i]) THEN rows[i].status ELSE Inserted(i, new).status
    <2>1. r = [rows[i] EXCEPT !.amount = new.amount, !.account = a, !.status = s]
      BY <1>3 DEF Replaced, Rewritten
    <2>2. a \in Accounts \cup {NoAccount} /\ new.amount \in Amounts
          /\ s \in {"needs_review", "mapped", "posted"}
          /\ (Posted(rows[i]) => s = rows[i].status)
          /\ (~ Posted(rows[i]) => s # "posted")
      BY <1>2, <2>0 DEF Parsed, Rows
    <2> HIDE DEF a, s
    <2>3. r \in Rows /\ r.index = i /\ r.txn = rows[i].txn /\ r.id = rows[i].id /\ r.status = s
      BY <1>1, <2>0, <2>1, <2>2 DEF Rows
    <2>4. QED
      BY <1>3, <2>0, <2>2, <2>3, NoRowAssumption DEF Posted
  <1>4. CASE Stands(rows[i], seen) /\ new = NoRow
    BY <1>1, <1>4 DEF Replaced, Stands, Posted, PostedRowsAreBacked
  <1>5. CASE ~ Stands(rows[i], seen) /\ new # NoRow
    <2>1. r = Inserted(i, new) /\ new \in Parsed /\ ~ Posted(rows[i])
      BY <1>5 DEF Replaced, Stands
    <2>2. QED
      BY <1>2, <1>5, <2>1
  <1>6. CASE ~ Stands(rows[i], seen) /\ new = NoRow
    BY <1>6 DEF Replaced, Stands
  <1>7. QED
    BY <1>3, <1>4, <1>5, <1>6

(* A posted row is left where it is, by every action.                      *)
Kept == \A i \in Indexes : Posted(rows[i]) =>
            rows'[i] # NoRow /\ rows'[i].txn = rows[i].txn

(* Rows that keep their transactions keep the reports true and the strays  *)
(* accounted for.                                                          *)
LEMMA KeptIsEnough ==
    ASSUME TypeOK, Kept, UNCHANGED <<journal, reported, strays, pc, posting>>,
           ReportsAreTrue, StraysWereFailures
    PROVE  ReportsAreTrue' /\ StraysWereFailures'
  <1>1. \A t \in journal : t.index \in Indexes /\ t.number # 0
    BY DEF TypeOK, Transactions
  <1>2. ReportsAreTrue'
    BY <1>1 DEF Kept, Posted, ReportsAreTrue
  <1>3. StraysWereFailures'
    BY <1>1 DEF Kept, Posted, StraysWereFailures
  <1>4. QED
    BY <1>2, <1>3

-----------------------------------------------------------------------------
LEMMA ReplaceKeepsIInv ==
    ASSUME IInv, NEW content \in [Indexes -> Parsed \cup {NoRow}], NEW seen,
           ReplaceForReceipt(content, seen)
    PROVE  IInv' /\ Kept
  <1> USE DEF IInv
  <1>1. /\ replaces < MaxReplaces /\ replaces' = replaces + 1
        /\ UNCHANGED <<journal, pc, todo, posting, created, faults, reported, strays>>
        /\ \A i \in Indexes : rows'[i] = Replaced(i, rows[i], content[i], seen)
        /\ touched \subseteq touched' /\ touched' \subseteq touched \cup Indexes
        /\ \A i \in Indexes \ touched' :
              Stands(rows[i], seen) /\ content[i] # NoRow => ~ Posted(rows[i]) /\ ~ InHand(i)
        /\ rows' = [i \in Indexes |-> Replaced(i, rows[i], content[i], seen)]
    BY DEF ReplaceForReceipt, local
  <1>2. \A i \in Indexes :
          /\ rows'[i] \in Rows \cup {NoRow}
          /\ rows'[i] # NoRow => rows'[i].index = i
          /\ Stands(rows[i], seen) =>
                /\ rows'[i] # NoRow /\ rows'[i].txn = rows[i].txn
                /\ rows'[i].id = rows[i].id
                /\ content[i] = NoRow => rows'[i] = rows[i]
          /\ Posted(rows[i]) => rows'[i].status = rows[i].status
          /\ ~ Posted(rows[i]) /\ rows'[i] # NoRow =>
                rows'[i].txn = 0 /\ rows'[i].status # "posted"
          /\ ~ Stands(rows[i], seen) /\ rows'[i] # NoRow => rows'[i].id = replaces + 1
    <2> TAKE i \in Indexes
    <2>1. /\ content[i] \in Parsed \cup {NoRow}
          /\ rows'[i] = Replaced(i, rows[i], content[i], seen)
      BY <1>1
    <2> HIDE DEF IInv
    <2>2. TypeOK /\ PostedRowsAreBacked /\ replaces < MaxReplaces
      BY <1>1 DEF IInv
    <2>3. QED
      BY <2>1, <2>2, ReplacedRow
  <1>3. TypeOK'
    <2>1. /\ rows' \in [Indexes -> Rows \cup {NoRow}]
          /\ \A i \in Indexes : rows'[i] # NoRow => rows'[i].index = i
      BY <1>1, <1>2
    <2>2. replaces' \in 0 .. MaxReplaces /\ touched' \subseteq Indexes
      <3>1. replaces \in Nat /\ MaxReplaces \in Nat /\ touched \subseteq Indexes
        BY ImportConstants DEF TypeOK
      <3>2. replaces' = replaces + 1 /\ replaces < MaxReplaces
        BY <1>1
      <3>3. touched' \subseteq Indexes
        BY <1>1, <3>1
      <3>4. QED
        BY <3>1, <3>2, <3>3
    <2>3. QED
      BY <1>1, <2>1, <2>2 DEF TypeOK
  <1>4. Kept
    BY <1>2 DEF Kept, Stands
  <1>5. ReportsAreTrue' /\ StraysWereFailures'
    BY <1>1, <1>4, KeptIsEnough
  <1>6. Numbered' /\ Marking'
    BY <1>1 DEF Numbered, Marking, Current
  <1>7. \A i \in Indexes : rows'[i] # NoRow => rows'[i].id <= replaces + 1
    <2> TAKE i \in Indexes
    <2>1. replaces \in Int
      BY DEF TypeOK
    <2>2. CASE Stands(rows[i], seen)
      <3>1. rows[i] # NoRow /\ rows[i].id <= replaces /\ rows[i].id \in Int
        BY <2>2 DEF Stands, Posted, Listed, TypeOK, Rows
      <3>2. QED
        BY <1>2, <2>1, <2>2, <3>1
    <2>3. CASE ~ Stands(rows[i], seen)
      BY <1>2, <2>1, <2>3
    <2>4. QED
      BY <2>2, <2>3
  <1>8. Listed'
    <2>1. \A p \in Posters : \A r \in todo[p] : r.id \in Int
      BY DEF TypeOK, Rows
    <2>2. replaces \in Int
      BY DEF TypeOK
    <2>3. QED
      BY <1>1, <1>7, <2>1, <2>2 DEF Listed
  <1>9. AsRead'
    <2> SUFFICES ASSUME NEW p \in Posters, NEW r \in todo[p], r.index \notin touched',
                        rows'[r.index] # NoRow, rows'[r.index].id = r.id
                 PROVE  rows'[r.index].amount = r.amount /\ rows'[r.index].account = r.account
      BY <1>1 DEF AsRead
    <2>1. r.index \in Indexes /\ r.id <= replaces /\ r.id \in Int /\ replaces \in Int
      BY DEF TypeOK, Rows, Listed
    <2>2. Stands(rows[r.index], seen)
      BY <1>2, <2>1
    <2>3. InHand(r.index)
      BY DEF InHand
    <2>4. rows'[r.index] = rows[r.index] /\ rows[r.index] # NoRow
      BY <1>1, <1>2, <2>1, <2>2, <2>3 DEF Stands, Posted
    <2>5. QED
      BY <1>1, <2>4 DEF AsRead
  <1>10. PostedRowsAreBacked'
    <2> SUFFICES ASSUME NEW i \in Indexes, rows'[i] # NoRow
                 PROVE  /\ rows'[i].status = "posted" <=> rows'[i].txn # 0
                        /\ rows'[i].txn # 0 =>
                              \E t \in journal : t.number = rows'[i].txn /\ t.index = i
      BY <1>1 DEF PostedRowsAreBacked
    <2>1. CASE Posted(rows[i])
      BY <1>2, <2>1 DEF PostedRowsAreBacked, Posted, Stands
    <2>2. CASE ~ Posted(rows[i])
      BY <1>2, <2>2
    <2>3. QED
      BY <2>1, <2>2
  <1>11. PostedRowsAgree'
    <2> SUFFICES ASSUME NEW i \in Indexes \ touched', Posted(rows'[i])
                 PROVE  \E t \in journal : /\ t.number = rows'[i].txn
                             /\ t.amount = rows'[i].amount /\ t.account = rows'[i].account
      BY <1>1 DEF PostedRowsAgree, Posted
    <2>1. Posted(rows[i])
      BY <1>2 DEF Posted
    <2>2. rows'[i] = rows[i] /\ i \notin touched
      BY <1>1, <1>2, <2>1 DEF Stands
    <2>3. QED
      BY <2>1, <2>2 DEF PostedRowsAgree
  <1>12. QED
    BY <1>3, <1>4, <1>5, <1>6, <1>8, <1>9, <1>10, <1>11

LEMMA UpdateKeepsIInv ==
    ASSUME IInv, NEW i \in Indexes, NEW a \in Accounts, UpdateAccount(i, a)
    PROVE  IInv' /\ Kept
  <1> USE DEF IInv
  <1>1. /\ rows[i] # NoRow /\ rows[i] \in Rows
        /\ UNCHANGED <<journal, pc, todo, posting, replaces, created, faults, reported, strays>>
        /\ touched \subseteq touched' /\ touched' \subseteq touched \cup {i}
        /\ Posted(rows[i]) \/ (\E p \in Posters : \E r \in todo[p] : r.index = i) => i \in touched'
    BY DEF UpdateAccount, InHand, local, count, TypeOK
  <1>2. /\ rows'[i] \in Rows /\ rows'[i] # NoRow
        /\ rows'[i].index = i /\ rows'[i].id = rows[i].id /\ rows'[i].txn = rows[i].txn
        /\ rows'[i].status = IF rows[i].status = "posted" THEN "posted" ELSE "mapped"
        /\ \A k \in Indexes \ {i} : rows'[k] = rows[k]
        /\ rows' \in [Indexes -> Rows \cup {NoRow}]
    <2>1. /\ rows' = [rows EXCEPT ![i] = rows'[i]]
          /\ rows'[i] = [rows[i] EXCEPT !.account = a,
                             !.status = IF rows[i].status = "posted" THEN "posted" ELSE "mapped"]
      BY DEF UpdateAccount, TypeOK
    <2>2. rows'[i] \in Rows /\ rows'[i].index = rows[i].index /\ rows'[i].id = rows[i].id
          /\ rows'[i].txn = rows[i].txn
          /\ rows'[i].status = IF rows[i].status = "posted" THEN "posted" ELSE "mapped"
      BY <1>1, <2>1 DEF Rows
    <2>3. QED
      BY <1>1, <2>1, <2>2, NoRowAssumption DEF TypeOK
  <1>3. TypeOK'
    BY <1>1, <1>2 DEF TypeOK
  <1>4. Kept
    BY <1>2 DEF Kept, Posted
  <1>5. ReportsAreTrue' /\ StraysWereFailures'
    BY <1>1, <1>4, KeptIsEnough
  <1>6. Numbered' /\ Marking' /\ Listed'
    BY <1>1, <1>2 DEF Numbered, Marking, Current, Listed
  <1>7. AsRead'
    BY <1>1, <1>2 DEF AsRead, TypeOK, Rows
  <1>8. PostedRowsAreBacked'
    BY <1>1, <1>2 DEF PostedRowsAreBacked
  <1>9. PostedRowsAgree'
    BY <1>1, <1>2 DEF PostedRowsAgree, Posted
  <1>10. QED
    BY <1>3, <1>4, <1>5, <1>6, <1>7, <1>8, <1>9

-----------------------------------------------------------------------------
(* A request reads the rows it will post.                                  *)
LEMMA BeginKeepsIInv ==
    ASSUME IInv, NEW p \in Posters, NEW rs, Begin(p, rs),
           rs \subseteq {r \in {rows[i] : i \in Indexes} : Postable(r)}
    PROVE  IInv' /\ Kept
  <1> USE DEF IInv
  <1>1. /\ pc[p] = "idle" /\ pc' = [pc EXCEPT ![p] = "create"]
        /\ todo' = [todo EXCEPT ![p] = rs]
        /\ UNCHANGED <<rows, journal, posting, replaces, created, faults, reported, strays, touched>>
    BY DEF Begin, table, count
  <1>2. \A r \in rs : /\ r \in Rows /\ r.index \in Indexes /\ r = rows[r.index]
                     /\ r.account # NoAccount /\ r # NoRow
    BY DEF Postable, TypeOK, Rows
  <1>3. TypeOK'
    <2>1. /\ todo' \in [Posters -> SUBSET Rows]
          /\ pc' \in [Posters -> {"idle", "create", "mark"}]
      BY <1>1, <1>2 DEF TypeOK
    <2>2. QED
      BY <1>1, <2>1 DEF TypeOK
  <1>4. Kept
    BY <1>1 DEF Kept, Posted
  <1>5. \A q \in Posters : \A r \in todo'[q] : IF q = p THEN r \in rs ELSE r \in todo[q]
    <2>1. todo'[p] = rs /\ \A q \in Posters \ {p} : todo'[q] = todo[q]
      BY <1>1 DEF TypeOK
    <2> TAKE q \in Posters
    <2>2. CASE q = p
      BY <2>1, <2>2
    <2>3. CASE q # p
      BY <2>1, <2>3
    <2>4. QED
      BY <2>2, <2>3
  <1>6. Numbered' /\ PostedRowsAreBacked' /\ PostedRowsAgree' /\ ReportsAreTrue'
    BY <1>1 DEF Numbered, PostedRowsAreBacked, PostedRowsAgree, Posted, ReportsAreTrue
  <1>7. Listed'
    BY <1>1, <1>2, <1>5 DEF Listed
  <1>8. AsRead'
    BY <1>1, <1>2, <1>5 DEF AsRead
  <1>9. Marking'
    BY <1>1 DEF Marking, Current, TypeOK
  <1>10. StraysWereFailures'
    BY <1>1 DEF StraysWereFailures, TypeOK
  <1>11. QED
    BY <1>3, <1>4, <1>6, <1>7, <1>8, <1>9, <1>10

(* A request is done with rows and forgets the transaction it was about to *)
(* mark, which is then a stray unless some row names it.                   *)
Drops(p) ==
    /\ TypeOK'
    /\ \A q \in Posters \ {p} : pc'[q] = pc[q] /\ todo'[q] = todo[q] /\ posting'[q] = posting[q]
    /\ todo'[p] \subseteq todo[p]
    /\ pc'[p] # "mark"
    /\ UNCHANGED <<journal, replaces, created, touched>>

LEMMA DropTypes ==
    ASSUME TypeOK, NEW p \in Posters, NEW r \in todo[p], Leave(p, r)
    PROVE  /\ todo' \in [Posters -> SUBSET Rows]
           /\ pc' \in [Posters -> {"idle", "create", "mark"}]
           /\ posting' \in [Posters -> 0 .. MaxPosts]
           /\ \A q \in Posters \ {p} :
                 pc'[q] = pc[q] /\ todo'[q] = todo[q] /\ posting'[q] = posting[q]
           /\ todo'[p] \subseteq todo[p] /\ pc'[p] # "mark"
  <1>1. MaxPosts \in Nat
    BY ImportConstants
  <1>2. QED
    BY <1>1 DEF TypeOK, Leave

LEMMA DropKeepsIInv ==
    ASSUME IInv, NEW p \in Posters, Drops(p), UNCHANGED <<rows, reported>>,
           strays \subseteq strays', pc[p] = "mark" => posting[p] \in strays'
    PROVE  IInv' /\ Kept
  <1> USE DEF IInv
  <1>1. Kept
    BY DEF Kept, Posted
  <1>2. Numbered' /\ PostedRowsAreBacked' /\ PostedRowsAgree' /\ ReportsAreTrue'
    BY DEF Drops, Numbered, PostedRowsAreBacked, PostedRowsAgree, Posted, ReportsAreTrue
  <1>3. \A q \in Posters : todo'[q] \subseteq todo[q]
    BY DEF Drops
  <1>4. Listed' /\ AsRead'
    BY <1>3 DEF Drops, Listed, AsRead
  <1>5. Marking'
    BY DEF Drops, Marking, Current
  <1>6. StraysWereFailures'
    <2> SUFFICES ASSUME NEW t \in journal
                 PROVE  \/ rows[t.index] # NoRow /\ rows[t.index].txn = t.number
                        \/ \E q \in Posters : pc'[q] = "mark" /\ posting'[q] = t.number
                        \/ t.number \in strays'
      BY DEF Drops, StraysWereFailures
    <2>1. CASE \E q \in Posters : pc[q] = "mark" /\ posting[q] = t.number
      BY <2>1 DEF Drops
    <2>2. QED
      BY <2>1 DEF StraysWereFailures
  <1>7. QED
    BY <1>1, <1>2, <1>4, <1>5, <1>6 DEF Drops

-----------------------------------------------------------------------------
(* A request works at one row at a time.                                   *)
LEMMA OneCurrent ==
    ASSUME TypeOK, Listed, NEW p \in Posters, NEW r \in todo[p], NEW s \in todo[p],
           Current(p, r), Current(p, s)
    PROVE  r = s
  <1>1. r \in Rows /\ s \in Rows
    BY DEF TypeOK
  <1>2. r.index \in Nat /\ s.index \in Nat
    <2>1. r.index \in Indexes /\ s.index \in Indexes
      BY <1>1 DEF Rows
    <2>2. \A k \in Indexes : k \in Nat
      BY ImportConstants
    <2>3. QED
      BY <2>1, <2>2
  <1>3. r.index <= s.index /\ s.index <= r.index
    BY DEF Current
  <1>4. r.index = s.index
    BY <1>2, <1>3
  <1>5. QED
    BY <1>4 DEF Listed

(* The transaction is committed, under a number of its own.                *)
LEMMA CreateKeepsIInv ==
    ASSUME IInv, NEW p \in Posters, Create(p)
    PROVE  IInv' /\ Kept
  <1> USE DEF IInv
  <1>1. PICK r \in todo[p] :
           /\ Current(p, r)
           /\ journal' = journal \cup {[number |-> created + 1, index |-> r.index,
                                         amount |-> r.amount, account |-> r.account]}
    BY DEF Create
  <1> DEFINE new == [number |-> created + 1, index |-> r.index,
                     amount |-> r.amount, account |-> r.account]
  <1>2. /\ pc[p] = "create" /\ created < MaxPosts /\ created' = created + 1
        /\ posting' = [posting EXCEPT ![p] = created + 1]
        /\ pc' = [pc EXCEPT ![p] = "mark"]
        /\ UNCHANGED <<rows, todo, replaces, faults, reported, strays, touched>>
    BY DEF Create
  <1>3. /\ created \in Nat /\ created + 1 \in 1 .. MaxPosts /\ MaxPosts \in Nat
        /\ \A t \in journal : t.number \in Nat /\ t.number <= created /\ t.number # created + 1
    BY <1>2, ImportConstants DEF TypeOK, Transactions, Numbered
  <1>4. r \in Rows /\ r.account \in Accounts
    BY DEF TypeOK, Listed, Rows
  <1>5. new \in Transactions
    BY <1>3, <1>4 DEF Transactions, Rows
  <1>6. TypeOK'
    <2>1. journal' \subseteq Transactions
      BY <1>1, <1>5 DEF TypeOK
    <2>2. created' \in 0 .. MaxPosts /\ created + 1 \in 0 .. MaxPosts
      BY <1>2, <1>3
    <2>3. posting' \in [Posters -> 0 .. MaxPosts] /\ pc' \in [Posters -> {"idle", "create", "mark"}]
      BY <1>2, <2>2 DEF TypeOK
    <2>4. QED
      BY <1>2, <2>1, <2>2, <2>3 DEF TypeOK
  <1>7. Kept
    BY <1>2 DEF Kept, Posted
  <1>8. Numbered'
    <2>1. \A n \in reported : n \in Int
      BY DEF TypeOK
    <2>2. QED
      BY <1>1, <1>2, <1>3, <2>1 DEF Numbered
  <1>9. Listed' /\ AsRead'
    BY <1>2 DEF Listed, AsRead
  <1>10. PostedRowsAreBacked' /\ PostedRowsAgree'
    BY <1>1, <1>2 DEF PostedRowsAreBacked, PostedRowsAgree, Posted
  <1>11. ReportsAreTrue'
    <2>1. created + 1 \notin reported
      BY <1>3 DEF Numbered
    <2>2. QED
      BY <1>1, <1>2, <2>1 DEF ReportsAreTrue
  <1>12. pc'[p] = "mark" /\ posting'[p] = created + 1
         /\ \A q \in Posters \ {p} : pc'[q] = pc[q] /\ posting'[q] = posting[q]
    BY <1>2 DEF TypeOK
  <1>13. Marking'
    <2>0. \A q \in Posters : pc'[q] = "mark" => posting'[q] # 0
      BY <1>3, <1>12 DEF Marking
    <2> SUFFICES ASSUME NEW q \in Posters, NEW s \in todo[q], pc'[q] = "mark", Current(q, s)
                 PROVE  \E t \in journal' : /\ t.number = posting'[q] /\ t.index = s.index
                                             /\ t.amount = s.amount /\ t.account = s.account
      BY <1>2, <2>0 DEF Marking, Current
    <2>1. CASE q # p
      BY <1>1, <1>12, <2>1 DEF Marking
    <2>2. CASE q = p
      <3>1. s \in todo[p] /\ Current(p, s)
        BY <2>2
      <3>2. s = r
        BY <1>1, <3>1, OneCurrent
      <3>3. new \in journal' /\ posting'[q] = created + 1
        BY <1>1, <1>12, <2>2
      <3>4. new.number = created + 1 /\ new.index = r.index /\ new.amount = r.amount
            /\ new.account = r.account
        OBVIOUS
      <3>5. QED
        BY <3>2, <3>3, <3>4
    <2>3. QED
      BY <2>1, <2>2
  <1>14. StraysWereFailures'
    BY <1>1, <1>2, <1>12 DEF StraysWereFailures
  <1>15. QED
    BY <1>6, <1>7, <1>8, <1>9, <1>10, <1>11, <1>13, <1>14

(* What marking makes of the rows.                                         *)
LEMMA MarkedRows ==
    ASSUME TypeOK, NEW p \in Posters, NEW r \in todo[p], StillThere(r), Mark(p, r)
    PROVE  /\ rows' \in [Indexes -> Rows \cup {NoRow}]
           /\ \A k \in Indexes : rows'[k] # NoRow => rows'[k].index = k
           /\ rows'[r.index] # NoRow /\ rows'[r.index].status = "posted"
           /\ rows'[r.index].txn = posting[p] /\ rows'[r.index].id = rows[r.index].id
           /\ rows'[r.index].amount = rows[r.index].amount
           /\ rows'[r.index].account = rows[r.index].account
           /\ \A k \in Indexes \ {r.index} : rows'[k] = rows[k]
  <1> DEFINE i == r.index
  <1>1. i \in Indexes /\ rows[i] # NoRow /\ rows[i] \in Rows /\ rows[i].index = i
    BY DEF StillThere, Markable, TypeOK, Rows
  <1>2. /\ rows' = [rows EXCEPT ![i] = rows'[i]]
        /\ rows'[i] = [rows[i] EXCEPT !.status = "posted", !.txn = posting[p]]
    BY <1>1 DEF Mark, TypeOK
  <1>3. posting[p] \in 0 .. MaxPosts
    BY DEF TypeOK
  <1>4. /\ rows'[i] \in Rows /\ rows'[i].id = rows[i].id /\ rows'[i].status = "posted"
        /\ rows'[i].txn = posting[p] /\ rows'[i].amount = rows[i].amount
        /\ rows'[i].account = rows[i].account /\ rows'[i].index = i
    BY <1>1, <1>2, <1>3 DEF Rows
  <1>5. /\ \A k \in Indexes \ {i} : rows'[k] = rows[k]
        /\ rows' \in [Indexes -> Rows \cup {NoRow}]
    BY <1>1, <1>2, <1>4 DEF TypeOK
  <1>6. \A k \in Indexes : rows'[k] # NoRow => rows'[k].index = k
    BY <1>4, <1>5 DEF TypeOK
  <1>7. QED
    BY <1>1, <1>4, <1>5, <1>6, NoRowAssumption

(* The row is marked with the transaction made for it; the client is told, *)
(* or the reply of the statement is lost.                                  *)
LEMMA MarkKeepsIInv ==
    ASSUME IInv, NEW p \in Posters, NEW r \in todo[p], Current(p, r), pc[p] = "mark",
           StillThere(r), Mark(p, r), Drops(p), UNCHANGED strays,
           reported' \subseteq reported \cup {posting[p]}
    PROVE  IInv' /\ Kept
  <1> USE DEF IInv
  <1> DEFINE i == r.index
  <1>1. /\ i \in Indexes /\ rows[i] # NoRow /\ rows[i] \in Rows
        /\ rows[i].txn = 0 /\ rows[i].id = r.id
    BY DEF StillThere, Markable, TypeOK, Rows
  <1>2. PICK t \in journal : /\ t.number = posting[p] /\ t.index = i
                             /\ t.amount = r.amount /\ t.account = r.account
    BY DEF Marking
  <1>3. t.number \in 1 .. MaxPosts /\ t.number \in Nat \ {0}
    BY ImportConstants DEF TypeOK, Transactions
  <1>4. /\ rows'[i] # NoRow /\ rows'[i].id = r.id /\ rows'[i].status = "posted"
        /\ rows'[i].txn = posting[p] /\ rows'[i].amount = rows[i].amount
        /\ rows'[i].account = rows[i].account
        /\ \A k \in Indexes \ {i} : rows'[k] = rows[k]
    BY <1>1, MarkedRows
  <1>5. TypeOK' /\ UNCHANGED <<journal, replaces, created, touched>>
    BY DEF Drops
  <1>6. Kept
    BY <1>1, <1>4 DEF Kept, Posted
  <1>7. Numbered'
    BY <1>2, <1>5 DEF Numbered
  <1>8. \A q \in Posters : todo'[q] \subseteq todo[q]
    BY DEF Drops
  <1>9. Listed'
    BY <1>1, <1>4, <1>5, <1>8 DEF Listed
  <1>10. AsRead'
    BY <1>1, <1>4, <1>5, <1>8 DEF AsRead, TypeOK, Rows
  <1>11. Marking'
    BY <1>5 DEF Drops, Marking, Current
  <1>12. PostedRowsAreBacked'
    BY <1>1, <1>2, <1>3, <1>4, <1>5 DEF PostedRowsAreBacked
  <1>13. PostedRowsAgree'
    <2> SUFFICES ASSUME NEW k \in Indexes \ touched, Posted(rows'[k])
                 PROVE  \E u \in journal : /\ u.number = rows'[k].txn
                             /\ u.amount = rows'[k].amount /\ u.account = rows'[k].account
      BY <1>5 DEF PostedRowsAgree, Posted
    <2>1. CASE k = i
      <3>1. rows[i].amount = r.amount /\ rows[i].account = r.account
        BY <1>1, <2>1 DEF AsRead
      <3>2. QED
        BY <1>2, <1>4, <2>1, <3>1
    <2>2. CASE k # i
      BY <1>4, <2>2 DEF PostedRowsAgree, Posted
    <2>3. QED
      BY <2>1, <2>2
  <1>14. \A u \in journal : u.index \in Indexes /\ u.number # 0
    BY DEF TypeOK, Transactions
  <1>15. ReportsAreTrue'
    <2> SUFFICES ASSUME NEW u \in journal, u.number \in reported'
                 PROVE  rows'[u.index] # NoRow /\ rows'[u.index].txn = u.number
      BY <1>5 DEF ReportsAreTrue
    <2>1. CASE u.number \in reported
      BY <1>6, <1>14, <2>1 DEF ReportsAreTrue, Kept, Posted
    <2>2. CASE u.number = posting[p]
      BY <1>2, <1>4, <2>2 DEF Numbered
    <2>3. QED
      BY <2>1, <2>2
  <1>16. StraysWereFailures'
    <2> SUFFICES ASSUME NEW u \in journal
                 PROVE  \/ rows'[u.index] # NoRow /\ rows'[u.index].txn = u.number
                        \/ \E q \in Posters : pc'[q] = "mark" /\ posting'[q] = u.number
                        \/ u.number \in strays'
      BY <1>5 DEF StraysWereFailures
    <2>1. CASE rows[u.index] # NoRow /\ rows[u.index].txn = u.number
      BY <1>6, <1>14, <2>1 DEF Kept, Posted
    <2>2. CASE u.number = posting[p]
      BY <1>2, <1>4, <2>2 DEF Numbered
    <2>3. CASE \E q \in Posters \ {p} : pc[q] = "mark" /\ posting[q] = u.number
      BY <2>3 DEF Drops
    <2>4. QED
      BY <2>1, <2>2, <2>3 DEF StraysWereFailures
  <1>17. QED
    BY <1>5, <1>6, <1>7, <1>9, <1>10, <1>11, <1>12, <1>13, <1>15, <1>16

-----------------------------------------------------------------------------
(* The steps of a request that end its work on a row.                      *)
LEMMA UnmarkedKeepsIInv ==
    ASSUME IInv, NEW p \in Posters, RefuseRow(p) \/ CreateFails(p) \/ Crash(p)
    PROVE  IInv' /\ Kept
  <1> USE DEF IInv
  <1>0. MaxPosts \in Nat /\ MaxFaults \in Nat
    BY ImportConstants
  <1>1. CASE RefuseRow(p)
    <2>1. PICK r \in todo[p] : Leave(p, r)
      BY <1>1 DEF RefuseRow
    <2>2. pc[p] # "mark" /\ UNCHANGED <<rows, journal, replaces, created, faults, reported, strays, touched>>
      BY <1>1 DEF RefuseRow, table, count
    <2>3. Drops(p)
      BY <2>1, <2>2, DropTypes DEF Drops, TypeOK
    <2>4. QED
      BY <2>2, <2>3, DropKeepsIInv
  <1>2. CASE CreateFails(p)
    <2>1. PICK r \in todo[p] : Leave(p, r)
      BY <1>2 DEF CreateFails
    <2>2. /\ pc[p] # "mark"
          /\ UNCHANGED <<rows, journal, replaces, created, reported, strays, touched>>
      BY <1>2 DEF CreateFails, table
    <2>3. faults' \in 0 .. MaxFaults
      BY <1>0, <1>2 DEF CreateFails, Fault, TypeOK
    <2>4. Drops(p)
      BY <2>1, <2>2, <2>3, DropTypes DEF Drops, TypeOK
    <2>5. QED
      BY <2>2, <2>4, DropKeepsIInv
  <1>3. CASE Crash(p)
    <2>1. /\ todo' = [todo EXCEPT ![p] = {}]
          /\ posting' = [posting EXCEPT ![p] = 0]
          /\ pc' = [pc EXCEPT ![p] = "idle"]
          /\ strays' = IF pc[p] = "mark" THEN strays \cup {posting[p]} ELSE strays
          /\ UNCHANGED <<rows, journal, replaces, created, reported, touched>>
      BY <1>3 DEF Crash, table
    <2>2. faults' \in 0 .. MaxFaults
      BY <1>0, <1>3 DEF Crash, Fault, TypeOK
    <2>3. /\ todo' \in [Posters -> SUBSET Rows] /\ pc' \in [Posters -> {"idle", "create", "mark"}]
          /\ posting' \in [Posters -> 0 .. MaxPosts]
      BY <1>0, <2>1 DEF TypeOK
    <2>4. strays' \subseteq 1 .. MaxPosts
      <3>1. posting[p] \in 0 .. MaxPosts /\ (pc[p] = "mark" => posting[p] # 0)
        BY DEF Marking, TypeOK
      <3>2. pc[p] = "mark" => posting[p] \in 1 .. MaxPosts
        BY <1>0, <3>1
      <3>3. QED
        BY <2>1, <3>2 DEF TypeOK
    <2>5. Drops(p)
      BY <2>1, <2>2, <2>3, <2>4 DEF Drops, TypeOK
    <2>6. QED
      BY <2>1, <2>5, DropKeepsIInv
  <1>4. QED
    BY <1>1, <1>2, <1>3

(* The statement that marks the row: it marks it, or leaves a stray.       *)
LEMMA MarkPostedKeepsIInv ==
    ASSUME IInv, NEW p \in Posters, MarkPosted(p) \/ MarkPostedFails(p)
    PROVE  IInv' /\ Kept
  <1>0. MaxPosts \in Nat /\ MaxFaults \in Nat
    BY ImportConstants
  <1>1. pc[p] = "mark" /\ UNCHANGED <<journal, replaces, created, touched>>
    BY DEF MarkPosted, MarkPostedFails, count
  <1>2. faults' \in 0 .. MaxFaults
    BY <1>0 DEF MarkPosted, MarkPostedFails, Fault, count, IInv, TypeOK
  <1>3. posting[p] \in 1 .. MaxPosts
    <2>1. posting[p] \in 0 .. MaxPosts /\ posting[p] # 0
      BY <1>1 DEF IInv, Marking, TypeOK
    <2>2. QED
      BY <1>0, <2>1
  <1>4. PICK r \in todo[p] :
          /\ Current(p, r) /\ Leave(p, r)
          /\ \/ /\ strays' = strays \cup {posting[p]}
                /\ UNCHANGED <<rows, reported>>
             \/ /\ StillThere(r) /\ Mark(p, r)
                /\ UNCHANGED strays
                /\ reported' \subseteq reported \cup {posting[p]}
    <2>1. CASE MarkPosted(p)
      BY <2>1 DEF MarkPosted
    <2>2. CASE MarkPostedFails(p)
      BY <2>2 DEF MarkPostedFails
    <2>3. QED
      BY <2>1, <2>2
  <1>5. TypeOK
    BY DEF IInv
  <1>6. /\ todo' \in [Posters -> SUBSET Rows]
        /\ pc' \in [Posters -> {"idle", "create", "mark"}]
        /\ posting' \in [Posters -> 0 .. MaxPosts]
        /\ \A q \in Posters \ {p} :
              pc'[q] = pc[q] /\ todo'[q] = todo[q] /\ posting'[q] = posting[q]
        /\ todo'[p] \subseteq todo[p] /\ pc'[p] # "mark"
    BY <1>4, <1>5, DropTypes
  <1>7. CASE strays' = strays \cup {posting[p]} /\ UNCHANGED <<rows, reported>>
    <2>1. Drops(p)
      BY <1>1, <1>2, <1>3, <1>5, <1>6, <1>7 DEF Drops, TypeOK
    <2>2. QED
      BY <1>7, <2>1, DropKeepsIInv
  <1>8. CASE /\ StillThere(r) /\ Mark(p, r)
             /\ UNCHANGED strays
             /\ reported' \subseteq reported \cup {posting[p]}
    <2>1. /\ rows' \in [Indexes -> Rows \cup {NoRow}]
          /\ \A k \in Indexes : rows'[k] # NoRow => rows'[k].index = k
      BY <1>5, <1>8, MarkedRows
    <2>2. Drops(p)
      BY <1>1, <1>2, <1>3, <1>5, <1>6, <1>8, <2>1 DEF Drops, TypeOK
    <2>3. QED
      BY <1>1, <1>4, <1>8, <2>2, MarkKeepsIInv
  <1>9. QED
    BY <1>4, <1>7, <1>8

-----------------------------------------------------------------------------
LEMMA NextKeepsIInv ==
    ASSUME IInv, [Next]_vars
    PROVE  IInv' /\ Kept
  <1>1. ASSUME NEW content \in [Indexes -> Parsed \cup {NoRow}], NEW seen \in 0 .. replaces,
               ReplaceForReceipt(content, seen)
        PROVE  IInv' /\ Kept
    BY <1>1, ReplaceKeepsIInv
  <1>2. ASSUME NEW i \in Indexes, NEW a \in Accounts, UpdateAccount(i, a)
        PROVE  IInv' /\ Kept
    BY <1>2, UpdateKeepsIInv
  <1>3. ASSUME NEW p \in Posters, NEW i \in Indexes, handleImportRowPost(p, i)
        PROVE  IInv' /\ Kept
    <2> DEFINE rs == {r \in {rows[i]} : Postable(r)}
    <2>1. Begin(p, rs) /\ rs \subseteq {r \in {rows[k] : k \in Indexes} : Postable(r)}
      BY <1>3 DEF handleImportRowPost
    <2> HIDE DEF rs
    <2>2. QED
      BY <2>1, BeginKeepsIInv
  <1>4. ASSUME NEW p \in Posters, handleImportRowsPostMapped(p)
        PROVE  IInv' /\ Kept
    BY <1>4, BeginKeepsIInv DEF handleImportRowsPostMapped
  <1>5. ASSUME NEW p \in Posters, RefuseRow(p) \/ CreateFails(p) \/ Crash(p)
        PROVE  IInv' /\ Kept
    BY <1>5, UnmarkedKeepsIInv
  <1>6. ASSUME NEW p \in Posters, Create(p)
        PROVE  IInv' /\ Kept
    BY <1>6, CreateKeepsIInv
  <1>7. ASSUME NEW p \in Posters, MarkPosted(p) \/ MarkPostedFails(p)
        PROVE  IInv' /\ Kept
    BY <1>7, MarkPostedKeepsIInv
  <1>8. CASE UNCHANGED vars
    <2>1. UNCHANGED <<rows, journal, pc, todo, posting, replaces, created, faults,
                      reported, strays, touched>>
      BY <1>8 DEF vars, table, local, count
    <2>2. (TypeOK' <=> TypeOK) /\ (Numbered' <=> Numbered) /\ (Listed' <=> Listed)
      BY <2>1 DEF TypeOK, Numbered, Listed
    <2>3. (Marking' <=> Marking) /\ (AsRead' <=> AsRead)
      BY <2>1 DEF Marking, AsRead, Current
    <2>4. /\ PostedRowsAreBacked' <=> PostedRowsAreBacked
          /\ ReportsAreTrue' <=> ReportsAreTrue
      BY <2>1 DEF PostedRowsAreBacked, ReportsAreTrue
    <2>5. /\ StraysWereFailures' <=> StraysWereFailures
          /\ PostedRowsAgree' <=> PostedRowsAgree
      BY <2>1 DEF StraysWereFailures, PostedRowsAgree, Posted
    <2>6. Kept
      BY <2>1 DEF Kept, Posted
    <2>7. QED
      BY <2>2, <2>3, <2>4, <2>5, <2>6 DEF IInv
  <1>9. QED
    BY <1>1, <1>2, <1>3, <1>4, <1>5, <1>6, <1>7, <1>8 DEF Next

(* The inductive invariant holds of the specification.                     *)
LEMMA Invariant == Spec => []IInv
  <1>1. IInv /\ [Next]_vars => IInv'
    BY NextKeepsIInv
  <1>2. QED
    BY InitIInv, <1>1, PTL DEF Spec

(* Every variable keeps its type: in particular a row stays at its index   *)
(* of the import, whatever is parsed, mapped or posted.                    *)
THEOREM ImportTypes == Spec => []TypeOK
  <1>1. IInv => TypeOK
    BY DEF IInv
  <1>2. QED
    BY Invariant, <1>1, PTL

(* A row that postImportRow shows as posted names a transaction that was   *)
(* created for a row of its index; a row that is not posted names none.    *)
THEOREM PostedRowsHaveTransactions == Spec => []PostedRowsAreBacked
  <1>1. IInv => PostedRowsAreBacked
    BY DEF IInv
  <1>2. QED
    BY Invariant, <1>1, PTL

(* However many requests post a row side by side, the transaction a client *)
(* gets in reply, once MarkPosted has succeeded, is the one the row names  *)
(* then and ever after.                                                    *)
THEOREM ClientsAreToldTheTruth == Spec => []ReportsAreTrue
  <1>1. IInv => ReportsAreTrue
    BY DEF IInv
  <1>2. QED
    BY Invariant, <1>1, PTL

(* A transaction no row names was left by a MarkPosted that failed or was  *)
(* never made, or is about to be marked.                                   *)
THEOREM StraysAreFailures == Spec => []StraysWereFailures
  <1>1. IInv => StraysWereFailures
    BY DEF IInv
  <1>2. QED
    BY Invariant, <1>1, PTL

(* A posted row has the amount and the account of its transaction, unless  *)
(* ReplaceForReceipt, in place, or UpdateAccount has written it meanwhile. *)
THEOREM PostedRowsMatch == Spec => []PostedRowsAgree
  <1>1. IInv => PostedRowsAgree
    BY DEF IInv
  <1>2. QED
    BY Invariant, <1>1, PTL

(* No suggest run, mapping or posting deletes a posted row or gives it     *)
(* another transaction.                                                    *)
THEOREM PostedRowsAreKept == Spec => PostedRowsStay
  <1>1. IInv /\ [Next]_vars =>
          [\A i \in Indexes : Posted(rows[i]) =>
              rows'[i] # NoRow /\ rows'[i].txn = rows[i].txn]_vars
    BY NextKeepsIInv DEF Kept
  <1>2. QED
    BY Invariant, <1>1, PTL DEF Spec, PostedRowsStay
=============================================================================
