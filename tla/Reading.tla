------------------------------ MODULE Reading ------------------------------
(***************************************************************************)
(* A client of the read endpoints (internal/http/ledger_api.go) while the  *)
(* worker pool of Ledger settles transactions.                             *)
(*                                                                         *)
(* A list is served by two statements, the page and then the count, which  *)
(* see what is committed when each of them runs; the pages of a pass are   *)
(* requests of their own.  The client looks at a transaction or at the     *)
(* balance, then goes through one list with LIMIT and OFFSET until the     *)
(* total it was told is reached, and asks for a page again when it gets a  *)
(* 500.  The endpoints take no lock and change nothing.                    *)
(***************************************************************************)
EXTENDS Ledger, FiniteSets

CONSTANTS
    AskedLimits,    \* values of the limit parameter a client may send
    DefaultLimit,   \* defaultLedgerPageLimit, defaultTransactionPageLimit
    MaxLimit        \* maxLedgerPageLimit, maxTransactionPageLimit

ASSUME LimitsAssumption == /\ AskedLimits \subseteq Int
                           /\ MaxLimit \in Nat /\ DefaultLimit \in 1..MaxLimit

VARIABLES
    at,           \* what the client waits for
    list,         \* the list it goes through
    limit,        \* the page size the service normalised
    offset,       \* where the page it asks for begins
    page,         \* the page a request has read and not answered yet
    shown,        \* what this pass has been shown
    present,      \* history: what the list held at the pass's first page
    finished,     \* history: of a pending list, what was settled by then
    sawCompleted, \* transactions the client saw completed before this pass
    sawBalance,   \* the balance it saw before this pass
    late          \* history: <<t, u>> when pending t is older than u, and
                  \* became visible after it

client == <<at, list, limit, offset, page, shown, present, finished,
            sawCompleted, sawBalance>>

Lists == {"ledger", "all", "pending", "completed", "failed"}

ReadingTypeOK ==
    /\ TypeOK
    /\ at \in {"idle", "page", "count", "done"}
    /\ list \in Lists
    /\ limit \in 1..MaxLimit
    /\ offset \in Nat
    /\ page \subseteq Nat /\ shown \subseteq Nat /\ present \subseteq Nat
    /\ finished \subseteq Txns /\ sawCompleted \subseteq Txns
    /\ sawBalance \in Int64
    /\ late \subseteq Txns \X Txns

ReadingInit ==
    /\ Init
    /\ at = "idle" /\ list = "all" /\ limit = DefaultLimit /\ offset = 0
    /\ page = {} /\ shown = {} /\ present = {} /\ finished = {}
    /\ sawCompleted = {} /\ sawBalance = 0
    /\ late = {}

-----------------------------------------------------------------------------
(* The statements.  An item of a list is the number it is ordered by: the  *)
(* id of a ledger entry, the rank of a transaction in (created_at, id).    *)

Settled == {t \in Txns : rows[t].status \in Terminal}

\* FROM and WHERE.
Items(l) ==
    IF l = "ledger"   THEN {ledger[i].id : i \in 1..Len(ledger)}
    ELSE IF l = "all" THEN {t \in Txns : rows[t].status # "absent"}
    ELSE {t \in Txns : rows[t].status = l}

\* Mutant of Before: ORDER BY ascending.
BeforeAscending(x, y) == x < y

\* ORDER BY id DESC and ORDER BY created_at DESC, id DESC.
Before(x, y) == x > y

\* LIMIT and OFFSET over the items in that order.
Page(items, first, size) ==
    {x \in items : LET position == Cardinality({y \in items : Before(y, x)})
                   IN  first <= position /\ position < first + size}

\* Mutant of Normalized: a missing limit stays 0.
NormalizedNever(asked) == asked

\* normalizeLedgerPagination and normalizeTransactionListQuery; any other
\* limit, a negative offset and an unknown status are answered 400.
Acceptable(asked) == asked >= 0 /\ asked <= MaxLimit
Normalized(asked) == IF asked = 0 THEN DefaultLimit ELSE asked

-----------------------------------------------------------------------------
(* The requests.                                                           *)

\* GET /transactions/{id}: one statement; what is not completed yet, or not
\* found, tells the client nothing it will look for.
GetTransaction(t) ==
    /\ at = "idle"
    /\ rows[t].status = "completed"
    /\ sawCompleted' = sawCompleted \union {t}
    /\ UNCHANGED <<vars, at, list, limit, offset, page, shown, present, finished,
                   sawBalance>>

\* GET /balance: the committed row, or 0 when there is none.
GetBalance ==
    /\ at = "idle"
    /\ sawBalance' = IF hasRow THEN balance ELSE 0
    /\ UNCHANGED <<vars, at, list, limit, offset, page, shown, present, finished,
                   sawCompleted>>

\* Only a pass over the ledger looks for what the client saw before it.
StartPass ==
    /\ at = "idle"
    /\ list' \in Lists
    /\ \E asked \in AskedLimits :
         Acceptable(asked) /\ limit' = Normalized(asked)
    /\ at' = "page"
    /\ IF list' = "ledger" THEN UNCHANGED <<sawCompleted, sawBalance>>
       ELSE sawCompleted' = {} /\ sawBalance' = 0
    /\ UNCHANGED <<vars, offset, page, shown, present, finished>>

\* ListLedgerEntries, ListTransactions.
ReadPage ==
    /\ at = "page"
    /\ page' = Page(Items(list), offset, limit)
    /\ IF offset = 0
       THEN /\ present' = Items(list)
            /\ finished' = IF list = "pending" THEN Settled ELSE {}
       ELSE UNCHANGED <<present, finished>>
    /\ at' = "count"
    /\ UNCHANGED <<vars, list, limit, offset, shown, sawCompleted, sawBalance>>

\* The response, and the client's next request.
Respond(total) ==
    /\ shown' = shown \union page
    /\ page' = {}
    /\ IF offset + Cardinality(page) < total
       THEN offset' = offset + Cardinality(page) /\ at' = "page"
       ELSE offset' = 0 /\ at' = "done"

\* Mutant of ReadCount: the total of the first page serves for the others.
CountOnce ==
    /\ at = "count"
    /\ Respond(Cardinality(present))
    /\ UNCHANGED <<vars, list, limit, present, finished, sawCompleted, sawBalance>>

\* CountLedgerEntries, CountTransactions.
ReadCount ==
    /\ at = "count"
    /\ Respond(Cardinality(Items(list)))
    /\ UNCHANGED <<vars, list, limit, present, finished, sawCompleted, sawBalance>>

\* The count fails: 500, the page is lost and asked for again.
CountFails ==
    /\ at = "count"
    /\ page' = {} /\ at' = "page"
    /\ UNCHANGED <<vars, list, limit, offset, shown, present, finished,
                   sawCompleted, sawBalance>>

\* The client forgets and starts over.
Forget ==
    /\ at = "done"
    /\ at' = "idle" /\ list' = "all" /\ limit' = DefaultLimit
    /\ shown' = {} /\ present' = {} /\ finished' = {}
    /\ sawCompleted' = {} /\ sawBalance' = 0
    /\ UNCHANGED <<vars, offset, page>>

-----------------------------------------------------------------------------
Request == \/ \E t \in Txns : GetTransaction(t)
           \/ GetBalance \/ StartPass \/ ReadPage \/ ReadCount \/ CountFails
           \/ Forget

\* A step of the pool: an older row that becomes visible comes late for every
\* younger one that is there.
Pool ==
    /\ Next
    /\ late' = {p \in Txns \X Txns :
                  /\ rows'[p[1]].status = "pending"
                  /\ \/ p \in late
                     \/ /\ rows[p[1]].status = "absent" /\ p[1] < p[2]
                        /\ rows[p[2]].status # "absent"}
    /\ UNCHANGED client

ReadingNext == (Request /\ UNCHANGED late) \/ Pool

ReadingSpec == ReadingInit /\ [][ReadingNext]_<<vars, client, late>>

-----------------------------------------------------------------------------
(* Properties.                                                             *)

\* A pass over a list that only grows shows everything that was in it when
\* the pass began, whatever is added, in whatever order, between its pages
\* and between a page and its count.
PassIsComplete ==
    at = "done" /\ list # "pending" => present \subseteq shown

\* A pass over the pending transactions may skip one that is still pending,
\* since the ones before it leave the list: but only one that was overtaken,
\* by a younger transaction that was settled during the pass.
MissedWasOvertaken ==
    at = "done" /\ list = "pending" =>
        \A t \in (present \ shown) \intersect Items("pending") :
            \E u \in Settled \ finished : t < u

\* A pass over the ledger explains what the client saw before it: there is an
\* entry for each transaction it saw completed, and one that left the balance
\* it saw.
SeenIsExplained ==
    at = "done" /\ list = "ledger" =>
        LET entries == {ledger[i] : i \in {j \in 1..Len(ledger) : ledger[j].id \in shown}}
        IN  /\ \A t \in sawCompleted : \E e \in entries : e.txn = t
            /\ sawBalance # 0 => \E e \in entries : e.new = sawBalance

\* How far the order may be lost: fewer transactions that are older than a
\* settled one, and were visible before it, are still pending than there are
\* sessions, whatever is retried in between.  One worker settles strictly in
\* the order of what it can see.
OlderPending(t) ==
    {u \in Txns : u < t /\ rows[u].status = "pending" /\ <<u, t>> \notin late}

BoundedOvertaking ==
    \A t \in Txns : rows[t].status \in Terminal =>
        Cardinality(OlderPending(t)) < Cardinality(Workers)

-----------------------------------------------------------------------------
(* The inductive invariant that ReadingProofs proves.                      *)

Existing == {t \in Txns : rows[t].status # "absent"}

\* How many items of a list come before x: the OFFSET that x begins a page at.
Rank(l, x) == Cardinality({y \in Items(l) : Before(y, x)})

Overtaken(x) == list = "pending" /\ \E u \in Settled \ finished : x < u

\* What a pass has yet to show is ahead of it: of the page it asks for, or,
\* when it is not on the page that was read, of the next one.
Ahead ==
    \A x \in (present \ shown) \intersect Items(list) :
        \/ Overtaken(x)
        \/ Rank(list, x) >= IF x \in page THEN offset
                            ELSE offset + Cardinality(page)

PassOK ==
    /\ IsFiniteSet(Existing) /\ IsFiniteSet(page)
    /\ at = "idle" => list = "all" /\ present = {} /\ finished = {}
    /\ at \in {"idle", "done"} => offset = 0
    /\ at # "count" => page = {}
    /\ finished \subseteq Settled
    /\ present \subseteq IF list = "pending" THEN Existing ELSE Items(list)

\* The entries that explain what the client saw, among those with given ids.
Explains(ids) ==
    /\ \A t \in sawCompleted : \E i \in 1..Len(ledger) :
         ledger[i].txn = t /\ ledger[i].id \in ids
    /\ sawBalance # 0 => \E i \in 1..Len(ledger) :
         ledger[i].new = sawBalance /\ ledger[i].id \in ids

SeenOK ==
    /\ Explains(Items("ledger"))
    /\ list = "ledger" /\ (at \in {"count", "done"} \/ offset > 0) => Explains(present)

ReadingIInv ==
    /\ IInv /\ ReadingTypeOK /\ PassOK /\ Ahead /\ SeenOK
    /\ PassIsComplete /\ MissedWasOvertaken
=============================================================================
