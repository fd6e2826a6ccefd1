------------------------------- MODULE Ledger -------------------------------
(***************************************************************************)
(* Settlement of one tenant's transactions by the worker pool              *)
(* (internal/worker/transaction_processor.go) over the tenant's schema in  *)
(* PostgreSQL (migrations/0002_init_tenant_schema.sql).                    *)
(*                                                                         *)
(* A session is a worker goroutine with its database transaction, READ     *)
(* COMMITTED.  It claims the oldest pending row nobody else has locked,    *)
(* locks the balance row, decides, writes, commits, and then calls the     *)
(* webhook before it takes the next job.  What a session wrote stays its   *)
(* own (the new* variables) until Commit installs it; any step of it may   *)
(* fail, the COMMIT may be applied with its answer lost, and the process   *)
(* may die with all its sessions.                                          *)
(***************************************************************************)
EXTENDS Settlement, Sequences, FiniteSets

CONSTANTS
    Workers,     \* sessions of the worker pool
    NoWorker,    \* "nobody", the holder of a free lock
    MaxFaults    \* bound on failed steps, lost answers and crashes

ASSUME NoWorkerAssumption  == NoWorker \notin Workers
ASSUME MaxFaultsAssumption == MaxFaults \in Nat

VARIABLES
    rows,        \* committed: the transactions table
    hasRow,      \* committed: balances has its row, id = 1
    balance,     \* committed: balances.balance
    ledger,      \* committed: ledger_entries, in commit order
    entrySeq,    \* last value taken from the sequence of ledger_entries.id
    owner,       \* the session that holds the balance row (lock or insert)
    pc,          \* where each session is
    claim,       \* the transactions row each session holds locked
    current,     \* currentBalance, the balance a session read
    newBalance,  \* uncommitted: the balance a session's transaction sees
    newEntry,    \* uncommitted: the ledger entry it inserted
    newRow,      \* uncommitted: the transactions row it updated
    faults       \* faults so far

store   == <<rows, hasRow, balance, ledger>>
session == <<pc, claim, current, newBalance, newEntry, newRow>>
vars    == <<store, entrySeq, owner, session, faults>>

Steps == {"idle", "claimed", "seeding", "locked", "applied", "written", "notify"}

TypeOK ==
    /\ rows       \in [Txns -> Row]
    /\ hasRow     \in BOOLEAN
    /\ balance    \in Int64
    /\ ledger     \in Seq(Entry)
    /\ entrySeq   \in Nat
    /\ owner      \in Workers \union {NoWorker}
    /\ pc         \in [Workers -> Steps]
    /\ claim      \in [Workers -> Txns \union {NoTxn}]
    /\ current    \in [Workers -> Int64]
    /\ newBalance \in [Workers -> Int64]
    /\ newEntry   \in [Workers -> Entry]
    /\ newRow     \in [Workers -> Row]
    /\ faults     \in 0..MaxFaults

\* The migration inserts the balances row; the worker does not rely on it.
Init ==
    /\ rows = [t \in Txns |-> AbsentRow]
    /\ hasRow \in BOOLEAN
    /\ balance = 0
    /\ ledger = <<>>
    /\ entrySeq = 0
    /\ owner = NoWorker
    /\ pc = [w \in Workers |-> "idle"]
    /\ claim = [w \in Workers |-> NoTxn]
    /\ current = [w \in Workers |-> 0]
    /\ newBalance = [w \in Workers |-> 0]
    /\ newEntry = [w \in Workers |-> NoEntry]
    /\ newRow = [w \in Workers |-> AbsentRow]
    /\ faults = 0

-----------------------------------------------------------------------------
(* The API's insert.                                                       *)

\* Mutant of Submit: a debit is stored with its sign.
SubmitSigned(t) ==
    /\ rows[t].status = "absent"
    /\ \E type \in Types, amount \in Amounts :
         rows' = [rows EXCEPT ![t] =
                    [status |-> "pending", type |-> type, quoted |-> 0,
                     amount |-> IF type = "credit" THEN amount ELSE -amount]]
    /\ UNCHANGED <<hasRow, balance, ledger, entrySeq, owner, session, faults>>

\* CreatePendingTransaction commits a pending row.  created_at is taken when
\* the insert starts, so a row may become visible after a younger one.
Submit(t) ==
    /\ rows[t].status = "absent"
    /\ \E type \in Types, amount \in Amounts :
         rows' = [rows EXCEPT ![t] = [status |-> "pending", type |-> type,
                                      amount |-> amount, quoted |-> 0]]
    /\ UNCHANGED <<hasRow, balance, ledger, entrySeq, owner, session, faults>>

-----------------------------------------------------------------------------
(* One session.                                                            *)

\* Mutant of Locked: the claim takes no row lock.
NeverLocked(t) == FALSE

Locked(t) == \E v \in Workers : claim[v] = t

\* Mutant of Claimable: no WHERE status = 'pending'.
ClaimableAny == {t \in Txns : rows[t].status # "absent" /\ ~Locked(t)}

\* Pending rows FOR UPDATE SKIP LOCKED may return.
Claimable == {t \in Txns : rows[t].status = "pending" /\ ~Locked(t)}

\* Mutant of Claim: no ORDER BY.
ClaimAny(w) ==
    /\ pc[w] = "idle"
    /\ \E t \in Claimable : claim' = [claim EXCEPT ![w] = t]
    /\ pc' = [pc EXCEPT ![w] = "claimed"]
    /\ UNCHANGED <<store, entrySeq, owner, current, newBalance, newEntry,
                   newRow, faults>>

\* claimPendingTransaction: ORDER BY created_at, id LIMIT 1.
Claim(w) ==
    /\ pc[w] = "idle"
    /\ \E t \in Claimable :
         /\ \A u \in Claimable : t <= u
         /\ claim' = [claim EXCEPT ![w] = t]
    /\ pc' = [pc EXCEPT ![w] = "claimed"]
    /\ UNCHANGED <<store, entrySeq, owner, current, newBalance, newEntry,
                   newRow, faults>>

\* lockCurrentBalance, the first SELECT sees no row (READ COMMITTED: an
\* insert that another session has not committed is invisible).
MissBalanceRow(w) ==
    /\ pc[w] = "claimed"
    /\ ~hasRow
    /\ pc' = [pc EXCEPT ![w] = "seeding"]
    /\ UNCHANGED <<store, entrySeq, owner, claim, current, newBalance,
                   newEntry, newRow, faults>>

\* Mutants of LockBalance: a plain SELECT, which waits for nobody; and a
\* session that takes the row for its own after ON CONFLICT DO NOTHING.
LockNothing(w) ==
    /\ pc[w] \in {"claimed", "seeding"}
    /\ owner' = w
    /\ current' = [current EXCEPT ![w] = balance]
    /\ newBalance' = [newBalance EXCEPT ![w] = balance]
    /\ pc' = [pc EXCEPT ![w] = "locked"]
    /\ UNCHANGED <<store, entrySeq, claim, newEntry, newRow, faults>>

LockOrZero(w) ==
    /\ \/ pc[w] = "claimed" /\ hasRow
       \/ pc[w] = "seeding"
    /\ owner = NoWorker
    /\ owner' = w
    /\ LET read == IF pc[w] = "claimed" THEN balance ELSE 0
       IN  /\ current' = [current EXCEPT ![w] = read]
           /\ newBalance' = [newBalance EXCEPT ![w] = read]
    /\ pc' = [pc EXCEPT ![w] = "locked"]
    /\ UNCHANGED <<store, entrySeq, claim, newEntry, newRow, faults>>

\* INSERT .. ON CONFLICT DO NOTHING waits for another session's insert, and
\* the SELECT .. FOR UPDATE after it for another session's lock; both give
\* the latest committed balance, or 0 when this session inserted the row.
LockBalance(w) ==
    /\ \/ pc[w] = "claimed" /\ hasRow
       \/ pc[w] = "seeding"
    /\ owner = NoWorker
    /\ owner' = w
    /\ LET read == IF hasRow THEN balance ELSE 0
       IN  /\ current' = [current EXCEPT ![w] = read]
           /\ newBalance' = [newBalance EXCEPT ![w] = read]
    /\ pc' = [pc EXCEPT ![w] = "locked"]
    /\ UNCHANGED <<store, entrySeq, claim, newEntry, newRow, faults>>

\* The session's decision about the row it claimed.
Decision(w) == Evaluate(rows[claim[w]], current[w])

\* Mutant of ApplyCompleted: UPDATE balances runs outside the transaction.
ApplyAtOnce(w) ==
    /\ pc[w] = "locked"
    /\ Decision(w).status = "completed"
    /\ balance' = Decision(w).new
    /\ newBalance' = [newBalance EXCEPT ![w] = Decision(w).new]
    /\ entrySeq' = entrySeq + 1
    /\ newEntry' = [newEntry EXCEPT ![w] =
                      [id |-> entrySeq + 1, txn |-> claim[w],
                       change |-> Decision(w).change,
                       prev |-> current[w], new |-> Decision(w).new]]
    /\ pc' = [pc EXCEPT ![w] = "applied"]
    /\ UNCHANGED <<rows, hasRow, ledger, owner, claim, current, newRow,
                   faults>>

\* applyCompletedTransaction: UPDATE balances, INSERT INTO ledger_entries.
\* The id comes from a sequence, which no rollback takes back.
ApplyCompleted(w) ==
    /\ pc[w] = "locked"
    /\ Decision(w).status = "completed"
    /\ newBalance' = [newBalance EXCEPT ![w] = Decision(w).new]
    /\ entrySeq' = entrySeq + 1
    /\ newEntry' = [newEntry EXCEPT ![w] =
                      [id |-> entrySeq + 1, txn |-> claim[w],
                       change |-> Decision(w).change,
                       prev |-> current[w], new |-> Decision(w).new]]
    /\ pc' = [pc EXCEPT ![w] = "applied"]
    /\ UNCHANGED <<store, owner, claim, current, newRow, faults>>

\* Mutant of WriteStatus: UPDATE transactions runs outside the transaction.
WriteStatusAtOnce(w) ==
    /\ \/ pc[w] = "applied"
       \/ pc[w] = "locked" /\ Decision(w).status = "failed"
    /\ newRow' = [newRow EXCEPT ![w] =
                    [rows[claim[w]] EXCEPT !.status = Decision(w).status]]
    /\ rows' = [rows EXCEPT ![claim[w]].status = Decision(w).status]
    /\ pc' = [pc EXCEPT ![w] = "written"]
    /\ UNCHANGED <<hasRow, balance, ledger, entrySeq, owner, claim,
                   current, newBalance, newEntry, faults>>

\* updateTransactionTerminalStatus, with the failure reason of a failed debit.
WriteStatus(w) ==
    /\ \/ pc[w] = "applied"
       \/ pc[w] = "locked" /\ Decision(w).status = "failed"
    /\ newRow' = [newRow EXCEPT ![w] =
                    [rows[claim[w]] EXCEPT
                       !.status = Decision(w).status,
                       !.quoted = IF Decision(w).status = "failed"
                                  THEN current[w] ELSE 0]]
    /\ pc' = [pc EXCEPT ![w] = "written"]
    /\ UNCHANGED <<store, entrySeq, owner, claim, current, newBalance,
                   newEntry, faults>>

\* The server applies the transaction's writes.
Install(w) ==
    /\ rows' = [rows EXCEPT ![claim[w]] = newRow[w]]
    /\ hasRow' = TRUE
    /\ balance' = newBalance[w]
    /\ ledger' = IF newEntry[w] = NoEntry THEN ledger
                 ELSE Append(ledger, newEntry[w])

\* Mutant of Release: the connection goes back to the pool with its
\* transaction open.
ReleaseNothing(w, next) ==
    /\ pc' = [pc EXCEPT ![w] = next]
    /\ UNCHANGED <<owner, claim, current, newBalance, newEntry, newRow>>

\* The end of the transaction frees its locks and forgets its writes.
Release(w, next) ==
    /\ owner' = IF owner = w THEN NoWorker ELSE owner
    /\ claim' = [claim EXCEPT ![w] = NoTxn]
    /\ current' = [current EXCEPT ![w] = 0]
    /\ newBalance' = [newBalance EXCEPT ![w] = 0]
    /\ newEntry' = [newEntry EXCEPT ![w] = NoEntry]
    /\ newRow' = [newRow EXCEPT ![w] = AbsentRow]
    /\ pc' = [pc EXCEPT ![w] = next]

Commit(w) ==
    /\ pc[w] = "written"
    /\ Install(w)
    /\ Release(w, "notify")
    /\ UNCHANGED <<entrySeq, faults>>

\* dispatchTransactionWebhookNow has returned, delivered or given up.
Notified(w) ==
    /\ pc[w] = "notify"
    /\ pc' = [pc EXCEPT ![w] = "idle"]
    /\ UNCHANGED <<store, entrySeq, owner, claim, current, newBalance,
                   newEntry, newRow, faults>>

-----------------------------------------------------------------------------
(* Faults.                                                                 *)

InTransaction(w) == pc[w] \notin {"idle", "notify"}

\* An error or the 10 s timeout in any statement: the deferred Rollback.
Abort(w) ==
    /\ faults < MaxFaults
    /\ faults' = faults + 1
    /\ InTransaction(w)
    /\ Release(w, "idle")
    /\ UNCHANGED <<store, entrySeq>>

\* COMMIT is applied but its answer is lost: the worker sees an error and
\* returns before the webhook.
CommitLost(w) ==
    /\ faults < MaxFaults
    /\ faults' = faults + 1
    /\ pc[w] = "written"
    /\ Install(w)
    /\ Release(w, "idle")
    /\ UNCHANGED entrySeq

\* The worker process dies: the server rolls every open transaction back.
Crash ==
    /\ faults < MaxFaults
    /\ faults' = faults + 1
    /\ \E w \in Workers : pc[w] # "idle"
    /\ owner' = NoWorker
    /\ claim' = [w \in Workers |-> NoTxn]
    /\ current' = [w \in Workers |-> 0]
    /\ newBalance' = [w \in Workers |-> 0]
    /\ newEntry' = [w \in Workers |-> NoEntry]
    /\ newRow' = [w \in Workers |-> AbsentRow]
    /\ pc' = [w \in Workers |-> "idle"]
    /\ UNCHANGED <<store, entrySeq>>

-----------------------------------------------------------------------------
Proceed(w) == \/ MissBalanceRow(w) \/ LockBalance(w) \/ ApplyCompleted(w)
              \/ WriteStatus(w) \/ Commit(w) \/ Notified(w)

Work(w) == Claim(w) \/ Proceed(w)

Next == \/ \E t \in Txns : Submit(t)
        \/ \E w \in Workers : Work(w) \/ Abort(w) \/ CommitLost(w)
        \/ Crash

Spec == Init /\ [][Next]_vars

\* Statements and webhook attempts have timeouts: a session with a job goes on
\* with it.  Nothing is said here of who gets a job.
FairSpec == Spec /\ \A w \in Workers : WF_vars(Proceed(w))

-----------------------------------------------------------------------------
(* Properties.                                                             *)

\* No statement sees its row of balances change under it: while a session
\* holds the balance row (lockCurrentBalance to the end of its transaction),
\* the balance it read is the committed one, and it is the only such session.
ReadsAreCurrent ==
    \A w \in Workers :
        pc[w] \in {"locked", "applied", "written"} =>
            owner = w /\ current[w] = balance

\* The ledger is one unbroken chain from zero to the running balance: every
\* entry starts from the balance the one before it left, and listing by id
\* (ledger_entry_repository.go) gives the order in which they took effect.
LedgerIsChain ==
    /\ balance = IF ledger = <<>> THEN 0 ELSE ledger[Len(ledger)].new
    /\ \A i \in 1..Len(ledger) :
         /\ ledger[i].new = Wrap(ledger[i].prev + ledger[i].change)
         /\ ledger[i].prev = IF i = 1 THEN 0 ELSE ledger[i - 1].new
         /\ \A j \in 1..Len(ledger) : i < j => ledger[i].id < ledger[j].id

\* The signed effect of a transaction on the balance.
Effect(row) == IF row.type = "credit" THEN row.amount ELSE -row.amount

\* A transaction is settled exactly once: a completed one has one ledger
\* entry, for its own amount; a pending or failed one has none, whatever was
\* retried, rolled back or answered into the void.
SettledOnce ==
    \A t \in Txns :
        IF rows[t].status = "completed"
        THEN \E i \in 1..Len(ledger) :
               /\ ledger[i].txn = t
               /\ ledger[i].change = Effect(rows[t])
               /\ \A j \in 1..Len(ledger) : ledger[j].txn = t => j = i
        ELSE \A i \in 1..Len(ledger) : ledger[i].txn # t

\* What the transactions 1 to n have credited minus what they have debited,
\* by the transactions table, with no ledger in sight.
Booked[n \in Nat] ==
    IF n = 0 THEN 0
    ELSE Booked[n - 1] + (IF n \in Txns /\ rows[n].status = "completed"
                          THEN Effect(rows[n]) ELSE 0)

\* The books balance: the running balance is what all the completed
\* transactions have credited minus what they have debited.
BooksBalance ==
    \A n \in Txns :
        (\A t \in Txns : rows[t].status = "completed" => t <= n)
            => balance = Booked[n]

\* A completed or failed transaction never changes again, although two
\* sessions may have seen it pending.
TerminalIsFinal ==
    [][\A t \in Txns : rows[t].status \in Terminal => rows'[t] = rows[t]]_vars

\* Every interleaving, failure and crash of the pool is an execution of the
\* account that settles one transaction at a time in one step.
Account == INSTANCE AccountSpec WITH
    rows <- rows, balance <- balance, ledger <- ledger

ImplementsAccount == Account!Spec

\* The dispatcher goes on serving the tenant: while it has a pending row that
\* nobody holds, some worker has a job of its some day.  That is no fact about
\* every tenant (WorkerRuntime!EveryTenantServed is violated), but one about the
\* oldest active one (WorkerRuntime!OldestServed).
TenantServed == WF_vars(\E w \in Workers : Claim(w))

\* Every accepted transaction of a tenant that is served reaches completed or
\* failed, whatever its sessions skip, lose and repeat: a row that is locked or
\* whose session failed is not forgotten.
EventuallySettled ==
    TenantServed =>
        \A t \in Txns : rows[t].status = "pending" ~> rows[t].status \in Terminal

\* Every pending credit fits: the assumption under which int64 arithmetic is
\* the arithmetic of the account.  Nothing in the code enforces it.
NoOverflow == \A t \in Txns :
    rows[t].status = "pending" /\ rows[t].type = "credit" =>
        balance + rows[t].amount <= MaxInt

\* The running balance never goes below zero.
BalanceNeverNegative == balance >= 0

-----------------------------------------------------------------------------
(* The inductive invariant.                                                *)

HoldsBalance == {"locked", "applied", "written"}

\* A session in a transaction holds one pending row, no two the same, and
\* the balance row has at most one holder.
LocksOK ==
    \A w \in Workers :
        /\ InTransaction(w) <=> claim[w] # NoTxn
        /\ pc[w] \in HoldsBalance <=> owner = w
        /\ InTransaction(w) => rows[claim[w]].status = "pending"
        /\ \A v \in Workers : claim[v] = claim[w] /\ InTransaction(w) => v = w

\* What a session has written so far is what its decision asks for.
Staged(w) ==
    LET completes == Decision(w).status = "completed"
    IN  /\ pc[w] \notin {"applied", "written"} => newEntry[w] = NoEntry
        /\ pc[w] = "locked" => newBalance[w] = current[w]
        /\ pc[w] = "applied" => completes
        /\ pc[w] = "written" =>
             newRow[w] = [rows[claim[w]] EXCEPT
                            !.status = Decision(w).status,
                            !.quoted = IF completes THEN 0 ELSE current[w]]
        /\ pc[w] \in {"applied", "written"} =>
             IF completes
             THEN /\ newBalance[w] = Decision(w).new
                  /\ newEntry[w].id # 0
                  /\ newEntry[w] = [id |-> newEntry[w].id, txn |-> claim[w],
                                    change |-> Decision(w).change,
                                    prev |-> current[w],
                                    new |-> Decision(w).new]
             ELSE newBalance[w] = current[w] /\ newEntry[w] = NoEntry

StagedOK == \A w \in Workers : Staged(w)

\* Ids are taken in the order of the chain: a session's uncommitted entry
\* has an id above every committed one.
IdsOK ==
    /\ \A i \in 1..Len(ledger) : ledger[i].id \in 1..entrySeq
    /\ \A w \in Workers :
         newEntry[w] # NoEntry =>
            /\ newEntry[w].id \in 1..entrySeq
            /\ \A i \in 1..Len(ledger) : ledger[i].id < newEntry[w].id

\* Only a schema nobody has settled anything in lacks its balances row.
BalanceRowOK == ~hasRow => balance = 0

\* Rows that hold no decision quote no balance.
RowsOK == \A t \in Txns : /\ rows[t].status # "failed" => rows[t].quoted = 0
                          /\ rows[t].status # "absent" => rows[t].amount \in Amounts

\* The inductive invariant of the proofs: besides the two results about the
\* ledger it says who holds which lock and what is staged in each session.
IInv == /\ TypeOK /\ LocksOK /\ ReadsAreCurrent /\ StagedOK /\ IdsOK
        /\ BalanceRowOK /\ RowsOK /\ LedgerIsChain /\ SettledOnce
=============================================================================
