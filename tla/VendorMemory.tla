----------------------------- MODULE VendorMemory -----------------------------
(***************************************************************************)
(* What openb00ks remembers of vendors: the rows of vendors and            *)
(* vendor_aliases, and their mirror, the _vendors collection of the search *)
(* server, from which the pipeline is offered candidates.                  *)
(*                                                                         *)
(* The pipeline writes it (Memoize, RecordResolution), reviewers correct   *)
(* it by posting (LearnAccount), the vendors API edits it.  Each is a few  *)
(* statements without a transaction, the last ones a refresh of the mirror *)
(* that may fail.  One entity; a vendor's name stands for its normalized   *)
(* name; tax id, website and pattern travel with it and are left out.      *)
(***************************************************************************)
EXTENDS Integers, Sequences, FiniteSets

CONSTANTS
    Hands,        \* worker jobs and requests that run side by side
    VendorNames,  \* normalized names
    Expenses,     \* expense accounts
    Raws,         \* receipts, each with its raw vendor string
    MaxVendors, MaxVisits, MaxVendorFaults     \* bounds of the model

ASSUME VendorConstants ==
    MaxVendors \in Nat /\ MaxVisits \in Nat /\ MaxVendorFaults \in Nat

VendorIds == 1 .. MaxVendors
NoVendor  == 0
Unset     == "unset"    \* default_account_id IS NULL
Gone      == [gone |-> TRUE]   \* no row, or no document, of that id

VARIABLES
    vendors,      \* id -> [name, account], or Gone
    issued,       \* ids given out
    alias,        \* vendor_aliases: raw string -> vendor id, or NoVendor
    resolved,     \* receipts.resolved_vendor_id
    chart,        \* the expense accounts there are
    mirror,       \* the document of each id: [name, account, aliases], or Gone
    visit,        \* a caller's remaining statements and locals
    visits, vendorFaults,
    human,        \* history: the account a person last chose for a vendor
    excused       \* history: ids whose document may be behind

rows       == <<vendors, issued, alias, resolved, chart>>
vendorVars == <<rows, mirror, visit, visits, vendorFaults, human, excused>>

Resting_  == [todo |-> <<>>]
AtDesk(p) == visit[p] # Resting_
Existing  == {v \in VendorIds : vendors[v] # Gone}
Aliases(v) == {r \in Raws : alias[r] = v}
Document(row, aliases) == [name |-> row.name, account |-> row.account, aliases |-> aliases]

VendorInit ==
    /\ vendors = [v \in VendorIds |-> Gone]
    /\ issued = 0
    /\ alias = [r \in Raws |-> NoVendor]
    /\ resolved = [r \in Raws |-> NoVendor]
    /\ chart = Expenses
    /\ mirror = [v \in VendorIds |-> Gone]
    /\ visit = [p \in Hands |-> Resting_]
    /\ visits = 0 /\ vendorFaults = 0
    /\ human = [v \in VendorIds |-> Unset]
    /\ excused = {}

-----------------------------------------------------------------------------
(* A visit: [todo, vendor, raw, account, name, row, aliases, late].  "row" *)
(* is the data its document will be built from, "late" that the vendor was *)
(* written again since they were read.                                     *)

Visit(v, raw, name, account, statements) ==
    [todo |-> statements, vendor |-> v, raw |-> raw, name |-> name,
     account |-> account, row |-> Gone, aliases |-> {}, late |-> FALSE]

Refresh == <<"read", "list", "upsert">>     \* IndexRetrieval

Visited == visits < MaxVisits /\ visits' = visits + 1

Arrive(p, x) ==
    /\ ~ AtDesk(p) /\ Visited
    /\ visit' = [visit EXCEPT ![p] = x]
    /\ UNCHANGED <<rows, mirror, vendorFaults, human, excused>>

(* The worker matched a vendor it was offered, or proposes a new one.      *)
ResolveMatch(p, raw, v) ==
    v <= issued /\ Arrive(p, Visit(v, raw, Gone, Unset, <<"record">> \o Refresh \o <<"resolve">>))

ResolveProposal(p, raw, name, account) ==
    /\ account \in chart
    /\ Arrive(p, Visit(NoVendor, raw, name, account,
                       <<"memoize", "record">> \o Refresh \o <<"resolve">>))

(* A slip: the document is refreshed before the alias is reassigned.       *)
LearnThenConfirm(p, raw, account) ==
    /\ resolved[raw] # NoVendor /\ account \in chart
    /\ Arrive(p, Visit(resolved[raw], raw, Gone, account,
                       <<"compare", "set">> \o Refresh \o <<"confirm">>))

(* learnFromPostedReceipt, once a reviewer has posted a receipt's draft.   *)
LearnAccount(p, raw, account) ==
    /\ resolved[raw] # NoVendor /\ account \in chart
    /\ Arrive(p, Visit(resolved[raw], raw, Gone, account,
                       <<"compare", "set", "confirm">> \o Refresh))

(* POST /search/reindex, for the vendors of the entity one by one.         *)
Reindex(p, v) ==
    v \in Existing /\ Arrive(p, Visit(v, Gone, Gone, Unset, Refresh))

handleVendorsDelete(p, v) ==
    v \in Existing /\ Arrive(p, Visit(v, Gone, Gone, Unset, <<"delete", "drop">>))

(* The vendor was written: whoever has read it holds old data.             *)
Touched(vs, p, x) ==
    visit' = [q \in Hands |->
                IF q = p THEN x
                ELSE IF AtDesk(q) /\ visit[q].vendor \in vs /\ visit[q].row # Gone
                     THEN [visit[q] EXCEPT !.late = TRUE] ELSE visit[q]]

Later(x) == IF Len(x.todo) = 1 THEN Resting_ ELSE [x EXCEPT !.todo = Tail(@)]
Next_(p) == Later(visit[p])
On(p, statement) == AtDesk(p) /\ Head(visit[p].todo) = statement

(* A slip: the upsert overwrites what it conflicts with.                   *)
MergedOver(old, new) == new

(* ON CONFLICT (entity_id, normalized_name): the row's values win, and a   *)
(* missing account is filled in.                                           *)
Merged(old, new) == [old EXCEPT !.account = IF @ = Unset THEN new.account ELSE @]

Named(name) == {v \in Existing : vendors[v].name = name}

(* VendorStore.Create, by p with locals x; the caller gets the id and its  *)
(* own data back, which on a conflict are not the row's.                   *)
Create(p, x, new) ==
    LET hit == Named(new.name)
        v   == IF hit = {} THEN issued + 1 ELSE CHOOSE w \in hit : TRUE
        row == IF hit = {} THEN new ELSE Merged(vendors[v], new) IN
    /\ v \in VendorIds
    /\ issued' = IF hit = {} THEN v ELSE issued
    /\ vendors' = [vendors EXCEPT ![v] = row]
    /\ Touched({v}, p, [x EXCEPT !.vendor = v, !.row = new, !.late = (row # new)])
    /\ UNCHANGED <<alias, resolved, chart>>

(* POST /vendors: the document is built from the data of the request.      *)
handleVendorsCreate(p, name, account) ==
    /\ ~ AtDesk(p) /\ Visited /\ account \in chart \cup {Unset}
    /\ Create(p, Visit(NoVendor, Gone, name, account, <<"list", "upsert">>),
              [name |-> name, account |-> account])
    /\ human' = [v \in VendorIds |-> IF vendors'[v] # vendors[v] THEN account ELSE human[v]]
    /\ excused' = excused \cup {v \in VendorIds : vendors'[v] # vendors[v]}
    /\ UNCHANGED <<mirror, vendorFaults>>

(* PATCH /vendors/:id overwrites; another vendor's name is a conflict.     *)
handleVendorsUpdate(p, v, name, account) ==
    /\ ~ AtDesk(p) /\ Visited /\ account \in chart \cup {Unset}
    /\ v \in Existing /\ Named(name) \subseteq {v}
    /\ LET row == [name |-> name, account |-> account] IN
       /\ vendors' = [vendors EXCEPT ![v] = row]
       /\ Touched({v}, p, [Visit(v, Gone, name, account, <<"list", "upsert">>) EXCEPT !.row = row])
    /\ human' = [human EXCEPT ![v] = account]
    /\ UNCHANGED <<issued, alias, resolved, chart, mirror, vendorFaults, excused>>

(* PATCH /receipts/:id/vendor: the reviewer corrects the resolved vendor.  *)
handleReceiptSetVendor(raw, v) ==
    /\ Visited
    /\ v \in Existing \cup {NoVendor}
    /\ resolved' = [resolved EXCEPT ![raw] = v]
    /\ UNCHANGED <<vendors, issued, alias, chart, mirror, visit, vendorFaults, human, excused>>

(* DELETE /accounts/:id of an account without entries: ON DELETE SET NULL, *)
(* and no document is refreshed.                                           *)
handleDeleteAccount(account) ==
    /\ Visited
    /\ account \in chart
    /\ chart' = chart \ {account}
    /\ LET cleared == {v \in Existing : vendors[v].account = account} IN
       /\ vendors' = [v \in VendorIds |->
                        IF v \in cleared THEN [vendors[v] EXCEPT !.account = Unset] ELSE vendors[v]]
       /\ human' = [v \in VendorIds |-> IF human[v] = account THEN Unset ELSE human[v]]
       /\ excused' = excused \cup cleared
       /\ visit' = [q \in Hands |->
            IF AtDesk(q) /\ visit[q].vendor \in cleared THEN [visit[q] EXCEPT !.late = TRUE] ELSE visit[q]]
    /\ UNCHANGED <<issued, alias, resolved, mirror, vendorFaults>>

-----------------------------------------------------------------------------
(* Statements.                                                             *)

Keep == UNCHANGED <<visits, vendorFaults>>

(* Memoize: an upsert like the API's; RecordResolution goes on with its id.*)
Memoize(p) ==
    /\ On(p, "memoize")
    /\ visit[p].account \in chart
    /\ Create(p, Next_(p), [name |-> visit[p].name, account |-> visit[p].account])
    /\ excused' = excused \cup {v \in VendorIds : vendors'[v] # vendors[v]}
    /\ Keep /\ UNCHANGED <<mirror, human>>

(* A foreign key refuses the statement: its vendor or account was deleted. *)
ForeignKeyRefuses(p) ==
    /\ \/ On(p, "memoize") /\ visit[p].account \notin chart
       \/ On(p, "compare") /\ visit[p].vendor \notin Existing
       \/ On(p, "set") /\ (visit[p].vendor \notin Existing \/ visit[p].account \notin chart)
       \/ On(p, "delete") /\ visit[p].vendor \notin Existing
       \/ On(p, "read") /\ visit[p].vendor \notin Existing /\ "resolve" \notin {visit[p].todo[i] : i \in 1 .. Len(visit[p].todo)}
    /\ visit' = [visit EXCEPT ![p] = Resting_]
    /\ Keep /\ UNCHANGED <<rows, mirror, human, excused>>

(* Record: the first vendor a string was seen for keeps it.                *)
Record(p) ==
    /\ On(p, "record")
    /\ LET x == visit[p] IN
       IF x.vendor \in Existing
       THEN /\ alias' = [alias EXCEPT ![x.raw] = IF @ = NoVendor THEN x.vendor ELSE @]
            /\ excused' = IF alias[x.raw] = NoVendor THEN excused \cup {x.vendor} ELSE excused
            /\ Touched({x.vendor}, p, [Next_(p) EXCEPT !.row = Gone, !.late = FALSE])
       ELSE UNCHANGED <<alias, excused>> /\ visit' = [visit EXCEPT ![p] = Next_(p)]
    /\ Keep /\ UNCHANGED <<vendors, issued, resolved, chart, mirror, human>>

(* LearnAccount's GetByID: the account is written only if it differs.      *)
CompareDefault(p) ==
    /\ On(p, "compare") /\ visit[p].vendor \in Existing
    /\ LET x == visit[p]
           same == vendors[x.vendor].account = x.account IN
       /\ visit' = [visit EXCEPT ![p] = IF same THEN Later(Next_(p)) ELSE Next_(p)]
       /\ human' = IF same THEN [human EXCEPT ![x.vendor] = x.account] ELSE human
    /\ Keep /\ UNCHANGED <<rows, mirror, excused>>

SetDefaultAccount(p) ==
    /\ On(p, "set") /\ visit[p].vendor \in Existing /\ visit[p].account \in chart
    /\ LET x == visit[p] IN
       /\ vendors' = [vendors EXCEPT ![x.vendor].account = x.account]
       /\ human' = [human EXCEPT ![x.vendor] = x.account]
       /\ Touched({x.vendor}, p, Next_(p))
    /\ Keep /\ UNCHANGED <<issued, alias, resolved, chart, mirror, excused>>

(* RecordConfirmed reassigns the string; only the new owner is refreshed.  *)
RecordConfirmed(p) ==
    /\ On(p, "confirm")
    /\ LET x == visit[p] IN
       IF x.vendor \in Existing
       THEN /\ alias' = [alias EXCEPT ![x.raw] = x.vendor]
            /\ excused' = excused \cup ({alias[x.raw]} \ {NoVendor, x.vendor})
            /\ Touched({x.vendor, alias[x.raw]}, p, Next_(p))
       ELSE UNCHANGED <<alias, excused>> /\ visit' = [visit EXCEPT ![p] = Next_(p)]
    /\ Keep /\ UNCHANGED <<vendors, issued, resolved, chart, mirror, human>>

ReadVendor(p) ==
    /\ On(p, "read") /\ visit[p].vendor \in Existing
    /\ visit' = [visit EXCEPT ![p] = [Next_(p) EXCEPT !.row = vendors[visit[p].vendor], !.late = FALSE]]
    /\ Keep /\ UNCHANGED <<rows, mirror, human, excused>>

(* The pipeline's vendor was deleted: the refresh is skipped, and          *)
(* SetResolvedVendor, whose foreign key would refuse it, is best-effort.   *)
ReadMisses(p) ==
    /\ On(p, "read") /\ visit[p].vendor \notin Existing
    /\ visit[p].todo = Refresh \o <<"resolve">>
    /\ visit' = [visit EXCEPT ![p] = [@ EXCEPT !.todo = <<"resolve">>]]
    /\ Keep /\ UNCHANGED <<rows, mirror, human, excused>>

ListNormalized(p) ==
    /\ On(p, "list")
    /\ visit' = [visit EXCEPT ![p] = [Next_(p) EXCEPT !.aliases = Aliases(visit[p].vendor)]]
    /\ Keep /\ UNCHANGED <<rows, mirror, human, excused>>

(* The document replaces the one there is, whichever is newer.             *)
UpsertVendor(p) ==
    /\ On(p, "upsert")
    /\ LET x == visit[p] IN
       /\ mirror' = [mirror EXCEPT ![x.vendor] = Document(x.row, x.aliases)]
       /\ excused' = IF x.late THEN excused \cup {x.vendor} ELSE excused \ {x.vendor}
       /\ visit' = [visit EXCEPT ![p] = Next_(p)]
    /\ Keep /\ UNCHANGED <<rows, human>>

(* The search server does not answer, or the caller is stopped.            *)
IndexFails(p) ==
    /\ \/ On(p, "upsert") \/ On(p, "drop")
    /\ vendorFaults < MaxVendorFaults
    /\ vendorFaults' = vendorFaults + 1
    /\ excused' = excused \cup {visit[p].vendor}
    /\ visit' = [visit EXCEPT ![p] = Next_(p)]
    /\ UNCHANGED <<rows, mirror, visits, human>>

SetResolvedVendor(p) ==
    /\ On(p, "resolve")
    /\ LET x == visit[p] IN
       resolved' = IF x.vendor \in Existing THEN [resolved EXCEPT ![x.raw] = x.vendor] ELSE resolved
    /\ visit' = [visit EXCEPT ![p] = Next_(p)]
    /\ Keep /\ UNCHANGED <<vendors, issued, alias, chart, mirror, human, excused>>

(* The row goes, its aliases with it; receipts lose their resolution.      *)
DeleteVendor(p) ==
    /\ On(p, "delete") /\ visit[p].vendor \in Existing
    /\ LET v == visit[p].vendor IN
       /\ vendors' = [vendors EXCEPT ![v] = Gone]
       /\ alias' = [r \in Raws |-> IF alias[r] = v THEN NoVendor ELSE alias[r]]
       /\ resolved' = [r \in Raws |-> IF resolved[r] = v THEN NoVendor ELSE resolved[r]]
       /\ human' = [human EXCEPT ![v] = Unset]
       /\ Touched({v}, p, Next_(p))
    /\ Keep /\ UNCHANGED <<issued, chart, mirror, excused>>

DropDocument(p) ==
    /\ On(p, "drop")
    /\ mirror' = [mirror EXCEPT ![visit[p].vendor] = Gone]
    /\ excused' = excused \ {visit[p].vendor}
    /\ visit' = [visit EXCEPT ![p] = Next_(p)]
    /\ Keep /\ UNCHANGED <<rows, human>>

-----------------------------------------------------------------------------
Visits(p) ==
    \/ \E raw \in Raws :
          \/ \E v \in VendorIds : ResolveMatch(p, raw, v)
          \/ \E n \in VendorNames, a \in Expenses : ResolveProposal(p, raw, n, a)
          \/ \E a \in Expenses : LearnAccount(p, raw, a)
    \/ \E v \in VendorIds :
          \/ Reindex(p, v) \/ handleVendorsDelete(p, v)
          \/ \E n \in VendorNames, a \in Expenses \cup {Unset} : handleVendorsUpdate(p, v, n, a)
    \/ \E n \in VendorNames, a \in Expenses \cup {Unset} : handleVendorsCreate(p, n, a)

VendorNext ==
    \/ \E p \in Hands :
          \/ Visits(p)
          \/ Memoize(p) \/ Record(p) \/ ReadVendor(p) \/ ReadMisses(p) \/ ListNormalized(p)
          \/ UpsertVendor(p) \/ IndexFails(p) \/ SetResolvedVendor(p) \/ CompareDefault(p)
          \/ SetDefaultAccount(p) \/ RecordConfirmed(p) \/ DeleteVendor(p)
          \/ DropDocument(p) \/ ForeignKeyRefuses(p)
    \/ \E raw \in Raws, v \in 0 .. MaxVendors : handleReceiptSetVendor(raw, v)
    \/ \E a \in Expenses : handleDeleteAccount(a)

VendorSpec == VendorInit /\ [][VendorNext]_vendorVars

-----------------------------------------------------------------------------
(* The shortlist the pipeline matches a raw string against (searchRefs):   *)
(* the vendor of that very name from the table, then the documents found   *)
(* by name or alias; without a hit, every vendor of the table.             *)
Hits(name, raw) ==
    {v \in VendorIds : mirror[v] # Gone /\ (mirror[v].name = name \/ raw \in mirror[v].aliases)}

Candidates(name, raw) ==
    IF Hits(name, raw) = {} THEN {[vendor |-> v, account |-> vendors[v].account] : v \in Existing}
    ELSE {[vendor |-> v, account |-> vendors[v].account] : v \in Named(name)} \cup
         {[vendor |-> v, account |-> mirror[v].account] : v \in Hits(name, raw) \ Named(name)}

VendorTypeOK ==
    /\ \A v \in VendorIds : vendors[v] = Gone \/
          vendors[v] \in [name : VendorNames, account : Expenses \cup {Unset}]
    /\ issued \in 0 .. MaxVendors
    /\ alias \in [Raws -> 0 .. MaxVendors] /\ resolved \in [Raws -> 0 .. MaxVendors]
    /\ chart \subseteq Expenses
    /\ \A v \in VendorIds : mirror[v] = Gone \/
          mirror[v] \in [name : VendorNames, account : Expenses \cup {Unset}, aliases : SUBSET Raws]
    /\ visits \in 0 .. MaxVisits /\ vendorFaults \in 0 .. MaxVendorFaults
    /\ human \in [VendorIds -> Expenses \cup {Unset}]
    /\ excused \subseteq VendorIds

Busy(v) == \E p \in Hands : AtDesk(p) /\ visit[p].vendor = v

(* When nobody is at work on a vendor, the pipeline is offered it with its *)
(* present default account and finds it by each of its aliases, and never  *)
(* a deleted one.  The exceptions are the causes that leave a document     *)
(* behind until the next undisturbed refresh: a failed call, a write by    *)
(* another between read and upsert, a create that met an existing vendor,  *)
(* an alias taken away, a deleted account.                                 *)
DocsFollowVendors ==
    /\ \A v \in VendorIds \ excused :
          mirror[v] # Gone /\ ~ Busy(v) =>
             /\ v \in Existing
             /\ mirror[v] = Document(vendors[v], Aliases(v))
    /\ \A n \in VendorNames, r \in Raws : \A c \in Candidates(n, r) :
          Busy(c.vendor) \/ c.vendor \in excused \/
             (c.vendor \in Existing /\ c.account = vendors[c.vendor].account)

(* A person's choice of account outlives every proposal of the AI: only a  *)
(* person, or the deletion of the account, changes it.                     *)
HumanAccountStands ==
    \A v \in Existing : human[v] # Unset => vendors[v].account = human[v]
=============================================================================
