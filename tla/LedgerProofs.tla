---------------------------- MODULE LedgerProofs ----------------------------
(***************************************************************************)
(* Proofs about Ledger for any set of transactions, amounts and sessions   *)
(* and any number of faults.                                               *)
(***************************************************************************)
EXTENDS Ledger, FiniteSetTheorems, Induction, TLAPS

-----------------------------------------------------------------------------
(* The decision.                                                           *)

\* evaluateTransaction keeps every value in the range of an int64: a credit
\* wraps, a debit never takes more than the balance it read.
LEMMA EvaluateType ==
    ASSUME NEW row \in Row, NEW cur \in Int64, row.amount \in Amounts
    PROVE  /\ Evaluate(row, cur).status \in Terminal
           /\ Evaluate(row, cur).new \in Int64
           /\ Evaluate(row, cur).change \in Int64
           /\ Evaluate(row, cur).new = Wrap(cur + Evaluate(row, cur).change)
           /\ Evaluate(row, cur).status = "completed" =>
                Evaluate(row, cur).change = Effect(row)
           /\ Evaluate(row, cur).status = "failed" =>
                Evaluate(row, cur).new = cur
<1>1. /\ MaxInt \in Nat /\ row.amount \in 1..MaxInt
      /\ cur \in Int /\ -(MaxInt + 1) <= cur /\ cur <= MaxInt
      /\ row.type \in {"credit", "debit"}
  <2>1. MaxInt \in Nat /\ row.amount \in 1..MaxInt
    BY AmountsAssumption
  <2>2. cur \in Int /\ -(MaxInt + 1) <= cur /\ cur <= MaxInt
    BY <2>1 DEF Int64
  <2>3. row.type \in {"credit", "debit"}
    BY DEF Row, Types
  <2>4. QED
    BY <2>1, <2>2, <2>3
<1>2. CASE ~Covered(row, cur)
  BY <1>1, <1>2 DEF Evaluate, Terminal, Int64, Wrap
<1>3. CASE Covered(row, cur) /\ row.type = "credit"
  BY <1>1, <1>3 DEF Evaluate, Terminal, Int64, Wrap, Effect
<1>4. CASE Covered(row, cur) /\ row.type = "debit"
  BY <1>1, <1>4 DEF Evaluate, Terminal, Int64, Wrap, Effect, Covered
<1>5. QED
  BY <1>1, <1>2, <1>3, <1>4 DEF Covered

-----------------------------------------------------------------------------
(* The initial states.                                                     *)

LEMMA InitIInv == Init => IInv
<1> SUFFICES ASSUME Init PROVE IInv
  OBVIOUS
<1>1. 0 \in Int64 /\ AbsentRow \in Row /\ NoEntry \in Entry
  BY AmountsAssumption DEF Int64, AbsentRow, Row, Types, NoEntry, Entry
<1>2. TypeOK
  BY <1>1, MaxFaultsAssumption DEF Init, TypeOK, Steps
<1>3. LocksOK /\ ReadsAreCurrent
  BY NoWorkerAssumption
  DEF Init, LocksOK, ReadsAreCurrent, InTransaction, HoldsBalance
<1>4. StagedOK
  BY DEF Init, StagedOK, Staged
<1>5. IdsOK /\ BalanceRowOK /\ LedgerIsChain
  BY DEF Init, IdsOK, BalanceRowOK, LedgerIsChain
<1>6. RowsOK /\ SettledOnce
  BY DEF Init, RowsOK, SettledOnce, AbsentRow
<1>7. QED
  BY <1>2, <1>3, <1>4, <1>5, <1>6 DEF IInv

-----------------------------------------------------------------------------
(* One step.                                                               *)

\* A session in a transaction works on a pending row of the table.
LEMMA ClaimedRow ==
    ASSUME TypeOK, LocksOK, RowsOK, NEW w \in Workers, InTransaction(w)
    PROVE  /\ claim[w] \in Txns
           /\ rows[claim[w]] \in Row
           /\ rows[claim[w]].status = "pending"
           /\ rows[claim[w]].amount \in Amounts
           /\ rows[claim[w]].type \in Types
           /\ rows[claim[w]].quoted = 0
<1>1. claim[w] \in Txns /\ rows[claim[w]].status = "pending"
  BY DEF TypeOK, LocksOK
<1>2. rows[claim[w]] \in Row
  BY <1>1 DEF TypeOK
<1>3. rows[claim[w]].type \in Types
  BY <1>2 DEF Row
<1>4. QED
  BY <1>1, <1>2, <1>3 DEF RowsOK

\* What its decision is, once it has read the balance.
LEMMA DecisionFacts ==
    ASSUME TypeOK, LocksOK, RowsOK, NEW w \in Workers, InTransaction(w)
    PROVE  /\ Decision(w).status \in Terminal
           /\ Decision(w).new \in Int64
           /\ Decision(w).change \in Int64
           /\ Decision(w).new = Wrap(current[w] + Decision(w).change)
           /\ Decision(w).status = "completed" =>
                Decision(w).change = Effect(rows[claim[w]])
           /\ Decision(w).status = "failed" => Decision(w).new = current[w]
<1>1. current[w] \in Int64
  BY DEF TypeOK
<1>2. rows[claim[w]] \in Row /\ rows[claim[w]].amount \in Amounts
  BY ClaimedRow
<1>3. QED
  BY <1>1, <1>2, EvaluateType DEF Decision

LEMMA ZeroTypes == 0 \in Int64 /\ AbsentRow \in Row /\ NoEntry \in Entry
BY AmountsAssumption DEF Int64, AbsentRow, Row, Types, NoEntry, Entry

LEMMA TypeStep == ASSUME IInv, [Next]_vars PROVE TypeOK'
<1> USE DEF IInv, store, session
<1>1. ASSUME NEW t \in Txns, Submit(t) PROVE TypeOK'
  <2>1. PICK type \in Types, amount \in Amounts :
          rows' = [rows EXCEPT ![t] = [status |-> "pending", type |-> type,
                                       amount |-> amount, quoted |-> 0]]
    BY <1>1 DEF Submit
  <2>2. [status |-> "pending", type |-> type, amount |-> amount, quoted |-> 0] \in Row
    BY ZeroTypes DEF Row
  <2>3. rows' \in [Txns -> Row]
    BY <2>1, <2>2 DEF TypeOK
  <2>4. QED
    BY <1>1, <2>3 DEF TypeOK, Submit
<1>2. ASSUME NEW w \in Workers, Claim(w) PROVE TypeOK'
  BY <1>2 DEF TypeOK, Claim, Claimable, Steps
<1>3. ASSUME NEW w \in Workers, MissBalanceRow(w) PROVE TypeOK'
  BY <1>3 DEF TypeOK, MissBalanceRow, Steps
<1>4. ASSUME NEW w \in Workers, LockBalance(w) PROVE TypeOK'
  BY <1>4, ZeroTypes DEF TypeOK, LockBalance, Steps
<1>5. ASSUME NEW w \in Workers, ApplyCompleted(w) PROVE TypeOK'
  <2>1. InTransaction(w)
    BY <1>5 DEF ApplyCompleted, InTransaction
  <2>2. claim[w] \in Txns /\ Decision(w).new \in Int64 /\ Decision(w).change \in Int64
    BY <2>1, ClaimedRow, DecisionFacts
  <2>3. [id |-> entrySeq + 1, txn |-> claim[w], change |-> Decision(w).change,
         prev |-> current[w], new |-> Decision(w).new] \in Entry
    BY <2>2 DEF Entry, TypeOK
  <2>4. QED
    BY <1>5, <2>2, <2>3 DEF TypeOK, ApplyCompleted, Steps
<1>6. ASSUME NEW w \in Workers, WriteStatus(w) PROVE TypeOK'
  <2>1. InTransaction(w)
    BY <1>6 DEF WriteStatus, InTransaction
  <2>2. rows[claim[w]] \in Row /\ Decision(w).status \in Terminal
    BY <2>1, ClaimedRow, DecisionFacts
  <2>3. current[w] \in Int64
    BY DEF TypeOK
  <2>4. [rows[claim[w]] EXCEPT
           !.status = Decision(w).status,
           !.quoted = IF Decision(w).status = "failed" THEN current[w] ELSE 0] \in Row
    BY <2>2, <2>3, ZeroTypes DEF Row
  <2>5. QED
    BY <1>6, <2>4 DEF TypeOK, WriteStatus, Steps
<1>7. ASSUME NEW w \in Workers, NEW next \in {"idle", "notify"}, Release(w, next)
      PROVE  /\ owner' \in Workers \union {NoWorker}
             /\ pc' \in [Workers -> Steps]
             /\ claim' \in [Workers -> Txns \union {NoTxn}]
             /\ current' \in [Workers -> Int64]
             /\ newBalance' \in [Workers -> Int64]
             /\ newEntry' \in [Workers -> Entry]
             /\ newRow' \in [Workers -> Row]
  BY <1>7, ZeroTypes DEF TypeOK, Release, Steps
<1>8. ASSUME NEW w \in Workers, pc[w] = "written", Install(w)
      PROVE  /\ rows' \in [Txns -> Row]
             /\ hasRow' \in BOOLEAN
             /\ balance' \in Int64
             /\ ledger' \in Seq(Entry)
  <2>1. newEntry[w] \in Entry /\ newRow[w] \in Row /\ newBalance[w] \in Int64
    BY DEF TypeOK
  <2>2. Append(ledger, newEntry[w]) \in Seq(Entry)
    BY <2>1 DEF TypeOK
  <2>3. ledger' \in Seq(Entry)
    BY <1>8, <2>2 DEF TypeOK, Install
  <2>4. rows' \in [Txns -> Row]
    BY <1>8, <2>1 DEF TypeOK, Install
  <2>5. QED
    BY <1>8, <2>1, <2>3, <2>4 DEF Install
<1>9. ASSUME NEW w \in Workers, Commit(w) PROVE TypeOK'
  BY <1>9, <1>7, <1>8 DEF TypeOK, Commit
<1>10. ASSUME NEW w \in Workers, Notified(w) PROVE TypeOK'
  BY <1>10 DEF TypeOK, Notified, Steps
<1>11. ASSUME NEW w \in Workers, Abort(w) PROVE TypeOK'
  BY <1>11, <1>7, MaxFaultsAssumption DEF TypeOK, Abort
<1>12. ASSUME NEW w \in Workers, CommitLost(w) PROVE TypeOK'
  BY <1>12, <1>7, <1>8, MaxFaultsAssumption DEF TypeOK, CommitLost
<1>13. ASSUME Crash PROVE TypeOK'
  BY <1>13, ZeroTypes, MaxFaultsAssumption DEF TypeOK, Crash, Steps
<1>14. CASE UNCHANGED vars
  BY <1>14 DEF TypeOK, vars
<1>15. QED
  BY <1>1, <1>2, <1>3, <1>4, <1>5, <1>6, <1>9, <1>10, <1>11, <1>12, <1>13,
     <1>14 DEF Next, Work, Proceed

LEMMA LocksStep == ASSUME IInv, [Next]_vars PROVE LocksOK'
<1> USE NoWorkerAssumption, TxnsAssumption
    DEF IInv, store, session, InTransaction, HoldsBalance, NoTxn
<1>1. ASSUME NEW t \in Txns, Submit(t) PROVE LocksOK'
  BY <1>1 DEF Submit, LocksOK, TypeOK
<1>2. ASSUME NEW w \in Workers, Claim(w) PROVE LocksOK'
  BY <1>2 DEF Claim, Claimable, Locked, LocksOK, TypeOK
<1>3. ASSUME NEW w \in Workers, MissBalanceRow(w) PROVE LocksOK'
  BY <1>3 DEF MissBalanceRow, LocksOK, TypeOK
<1>4. ASSUME NEW w \in Workers, LockBalance(w) PROVE LocksOK'
  BY <1>4 DEF LockBalance, LocksOK, TypeOK
<1>5. ASSUME NEW w \in Workers, ApplyCompleted(w) PROVE LocksOK'
  BY <1>5 DEF ApplyCompleted, LocksOK, TypeOK
<1>6. ASSUME NEW w \in Workers, WriteStatus(w) PROVE LocksOK'
  BY <1>6 DEF WriteStatus, LocksOK, TypeOK
<1>7. ASSUME NEW w \in Workers, NEW next \in {"idle", "notify"},
             InTransaction(w), Release(w, next),
             \A t \in Txns : t # claim[w] => rows'[t] = rows[t]
      PROVE  LocksOK'
  BY <1>7 DEF Release, LocksOK, TypeOK
<1>8. ASSUME NEW w \in Workers, pc[w] = "written", Install(w)
      PROVE  \A t \in Txns : t # claim[w] => rows'[t] = rows[t]
  BY <1>8 DEF Install, TypeOK
<1>9. ASSUME NEW w \in Workers, Commit(w) PROVE LocksOK'
  BY <1>9, <1>7, <1>8 DEF Commit
<1>10. ASSUME NEW w \in Workers, Notified(w) PROVE LocksOK'
  BY <1>10 DEF Notified, LocksOK, TypeOK
<1>11. ASSUME NEW w \in Workers, Abort(w) PROVE LocksOK'
  BY <1>11, <1>7 DEF Abort
<1>12. ASSUME NEW w \in Workers, CommitLost(w) PROVE LocksOK'
  BY <1>12, <1>7, <1>8 DEF CommitLost
<1>13. ASSUME Crash PROVE LocksOK'
  BY <1>13 DEF Crash, LocksOK, TypeOK
<1>14. CASE UNCHANGED vars
  BY <1>14 DEF LocksOK, vars
<1>15. QED
  BY <1>1, <1>2, <1>3, <1>4, <1>5, <1>6, <1>9, <1>10, <1>11, <1>12, <1>13,
     <1>14 DEF Next, Work, Proceed

\* The one session that may install a balance is the one that holds it, so
\* no other session's reading becomes stale.
LEMMA ReadsStep == ASSUME IInv, [Next]_vars PROVE ReadsAreCurrent'
<1> USE NoWorkerAssumption
    DEF IInv, store, session, InTransaction, HoldsBalance
<1>1. ASSUME NEW t \in Txns, Submit(t) PROVE ReadsAreCurrent'
  BY <1>1 DEF Submit, ReadsAreCurrent, TypeOK
<1>2. ASSUME NEW w \in Workers, Claim(w) PROVE ReadsAreCurrent'
  BY <1>2 DEF Claim, ReadsAreCurrent, TypeOK
<1>3. ASSUME NEW w \in Workers, MissBalanceRow(w) PROVE ReadsAreCurrent'
  BY <1>3 DEF MissBalanceRow, ReadsAreCurrent, TypeOK
<1>4. ASSUME NEW w \in Workers, LockBalance(w) PROVE ReadsAreCurrent'
  BY <1>4 DEF LockBalance, ReadsAreCurrent, TypeOK, BalanceRowOK
<1>5. ASSUME NEW w \in Workers, ApplyCompleted(w) PROVE ReadsAreCurrent'
  BY <1>5 DEF ApplyCompleted, ReadsAreCurrent, TypeOK
<1>6. ASSUME NEW w \in Workers, WriteStatus(w) PROVE ReadsAreCurrent'
  BY <1>6 DEF WriteStatus, ReadsAreCurrent, TypeOK
<1>7. ASSUME NEW w \in Workers, NEW next \in {"idle", "notify"}, Release(w, next),
             pc[w] = "written" \/ balance' = balance
      PROVE  ReadsAreCurrent'
  BY <1>7 DEF Release, ReadsAreCurrent, LocksOK, TypeOK
<1>8. ASSUME NEW w \in Workers, Commit(w) PROVE ReadsAreCurrent'
  BY <1>8, <1>7 DEF Commit
<1>9. ASSUME NEW w \in Workers, Notified(w) PROVE ReadsAreCurrent'
  BY <1>9 DEF Notified, ReadsAreCurrent, TypeOK
<1>10. ASSUME NEW w \in Workers, Abort(w) PROVE ReadsAreCurrent'
  BY <1>10, <1>7 DEF Abort
<1>11. ASSUME NEW w \in Workers, CommitLost(w) PROVE ReadsAreCurrent'
  BY <1>11, <1>7 DEF CommitLost
<1>12. ASSUME Crash PROVE ReadsAreCurrent'
  BY <1>12 DEF Crash, ReadsAreCurrent, TypeOK
<1>13. CASE UNCHANGED vars
  BY <1>13 DEF ReadsAreCurrent, vars
<1>14. QED
  BY <1>1, <1>2, <1>3, <1>4, <1>5, <1>6, <1>8, <1>9, <1>10, <1>11, <1>12,
     <1>13 DEF Next, Work, Proceed

\* Only Submit and Install change the rows; Install sets hasRow.
LEMMA RowsStep == ASSUME IInv, [Next]_vars PROVE RowsOK' /\ BalanceRowOK'
<1> USE DEF IInv, store, session
<1>1. CASE UNCHANGED store
  BY <1>1 DEF RowsOK, BalanceRowOK
<1>2. ASSUME NEW t \in Txns, Submit(t) PROVE RowsOK' /\ BalanceRowOK'
  BY <1>2 DEF Submit, RowsOK, BalanceRowOK, TypeOK
<1>3. ASSUME NEW w \in Workers, pc[w] = "written", Install(w)
      PROVE  RowsOK' /\ BalanceRowOK'
  <2>1. InTransaction(w)
    BY <1>3 DEF InTransaction
  <2>2. Decision(w).status \in {"completed", "failed"}
    BY <2>1, DecisionFacts DEF Terminal
  <2>3. /\ claim[w] \in Txns /\ rows[claim[w]] \in Row
        /\ rows[claim[w]].amount \in Amounts
    BY <2>1, ClaimedRow
  <2>4. /\ newRow[w].amount \in Amounts
        /\ newRow[w].status # "failed" => newRow[w].quoted = 0
    BY <1>3, <2>2, <2>3 DEF StagedOK, Staged, Row
  <2>5. QED
    BY <1>3, <2>3, <2>4 DEF Install, RowsOK, BalanceRowOK, TypeOK
<1>4. ASSUME NEW w \in Workers, Work(w) \/ Abort(w) \/ CommitLost(w)
      PROVE  RowsOK' /\ BalanceRowOK'
  BY <1>1, <1>3, <1>4
  DEF Work, Proceed, Claim, MissBalanceRow, LockBalance, ApplyCompleted, WriteStatus,
      Commit, Notified, Abort, CommitLost
<1>5. CASE Crash
  BY <1>1, <1>5 DEF Crash
<1>6. QED
  BY <1>1, <1>2, <1>4, <1>5 DEF Next, vars

\* A session's decision depends on its own claim and its own reading, and on
\* a row that nobody else changes while it is locked.
LEMMA StagedStep == ASSUME IInv, [Next]_vars PROVE StagedOK'
<1> USE DEF IInv, store, session
<1>1. ASSUME NEW v \in Workers,
             pc'[v] = pc[v], newEntry'[v] = newEntry[v], newRow'[v] = newRow[v],
             newBalance'[v] = newBalance[v], current'[v] = current[v],
             claim'[v] = claim[v],
             InTransaction(v) => rows'[claim[v]] = rows[claim[v]]
      PROVE  Staged(v)'
  <2>1. Staged(v)
    BY DEF StagedOK
  <2>2. CASE InTransaction(v)
    BY <1>1, <2>1, <2>2 DEF Staged, Decision
  <2>3. CASE ~InTransaction(v)
    BY <1>1, <2>1, <2>3 DEF Staged, InTransaction
  <2>4. QED
    BY <2>2, <2>3
<1>2. ASSUME NEW v \in Workers, pc'[v] \in {"idle", "notify", "claimed", "seeding"},
             newEntry'[v] = NoEntry
      PROVE  Staged(v)'
  BY <1>2 DEF Staged
<1>3. ASSUME NEW t \in Txns, Submit(t) PROVE StagedOK'
  <2>1. ASSUME NEW v \in Workers, InTransaction(v)
        PROVE  rows'[claim[v]] = rows[claim[v]]
    BY <1>3, <2>1, ClaimedRow DEF Submit, TypeOK
  <2>2. QED
    BY <1>1, <1>3, <2>1 DEF Submit, StagedOK
<1>4. ASSUME NEW w \in Workers, UNCHANGED rows,
             Claim(w) \/ MissBalanceRow(w) \/ Notified(w)
      PROVE  StagedOK'
  <2>1. ASSUME NEW v \in Workers, v # w PROVE Staged(v)'
    BY <1>1, <1>4, <2>1 DEF Claim, MissBalanceRow, Notified, TypeOK
  <2>2. Staged(w)'
    BY <1>2, <1>4 DEF Claim, MissBalanceRow, Notified, TypeOK, StagedOK, Staged
  <2>3. QED
    BY <2>1, <2>2 DEF StagedOK
<1>5. ASSUME NEW w \in Workers, LockBalance(w) PROVE StagedOK'
  <2>1. ASSUME NEW v \in Workers, v # w PROVE Staged(v)'
    BY <1>1, <1>5, <2>1 DEF LockBalance, TypeOK
  <2>2. Staged(w)'
    BY <1>5 DEF LockBalance, TypeOK, StagedOK, Staged
  <2>3. QED
    BY <2>1, <2>2 DEF StagedOK
<1>6. ASSUME NEW w \in Workers, ApplyCompleted(w) PROVE StagedOK'
  <2>1. ASSUME NEW v \in Workers, v # w PROVE Staged(v)'
    BY <1>1, <1>6, <2>1 DEF ApplyCompleted, TypeOK
  <2>2. Decision(w)' = Decision(w)
    BY <1>6 DEF ApplyCompleted, Decision
  <2>3. Staged(w)'
    BY <1>6, <2>2 DEF ApplyCompleted, TypeOK, Staged
  <2>4. QED
    BY <2>1, <2>3 DEF StagedOK
<1>7. ASSUME NEW w \in Workers, WriteStatus(w) PROVE StagedOK'
  <2>1. ASSUME NEW v \in Workers, v # w PROVE Staged(v)'
    BY <1>1, <1>7, <2>1 DEF WriteStatus, TypeOK
  <2>2. Decision(w)' = Decision(w)
    BY <1>7 DEF WriteStatus, Decision
  <2>3. Decision(w).status \in {"completed", "failed"}
    BY <1>7, DecisionFacts DEF WriteStatus, InTransaction, Terminal
  <2>4. Staged(w)
    BY DEF StagedOK
  <2>5. Staged(w)'
    BY <1>7, <2>2, <2>3, <2>4 DEF WriteStatus, TypeOK, Staged
  <2>6. QED
    BY <2>1, <2>5 DEF StagedOK
<1>8. ASSUME NEW w \in Workers, NEW next \in {"idle", "notify"}, Release(w, next),
             InTransaction(w), Install(w) \/ rows' = rows
      PROVE  StagedOK'
  <2>1. ASSUME NEW v \in Workers, v # w PROVE Staged(v)'
    <3>1. InTransaction(v) => claim[v] # claim[w] /\ claim[v] \in Txns
      BY <1>8, <2>1, ClaimedRow DEF LocksOK
    <3>2. InTransaction(v) => rows'[claim[v]] = rows[claim[v]]
      BY <1>8, <3>1 DEF Install, TypeOK
    <3>3. QED
      BY <1>1, <1>8, <2>1, <3>2 DEF Release, TypeOK
  <2>2. Staged(w)'
    BY <1>2, <1>8 DEF Release, TypeOK
  <2>3. QED
    BY <2>1, <2>2 DEF StagedOK
<1>9. ASSUME NEW w \in Workers, Commit(w) PROVE StagedOK'
  BY <1>8, <1>9 DEF Commit, InTransaction
<1>10. ASSUME NEW w \in Workers, Abort(w) PROVE StagedOK'
  BY <1>8, <1>10 DEF Abort
<1>11. ASSUME NEW w \in Workers, CommitLost(w) PROVE StagedOK'
  BY <1>8, <1>11 DEF CommitLost, InTransaction
<1>12. ASSUME Crash PROVE StagedOK'
  BY <1>2, <1>12 DEF Crash, StagedOK
<1>13. CASE UNCHANGED vars
  BY <1>1, <1>13 DEF StagedOK, vars
<1>14. QED
  BY <1>3, <1>4, <1>5, <1>6, <1>7, <1>9, <1>10, <1>11, <1>12, <1>13
  DEF Next, Work, Proceed, Claim, MissBalanceRow, Notified

-----------------------------------------------------------------------------
(* What a commit does to the committed state.                              *)

\* The entry a session installs when its transaction completes.
Installed(w) == [id |-> newEntry[w].id, txn |-> claim[w],
                 change |-> Decision(w).change, prev |-> balance,
                 new |-> Decision(w).new]

LEMMA InstallFacts ==
    ASSUME IInv, NEW w \in Workers, pc[w] = "written", Install(w)
    PROVE  /\ claim[w] \in Txns
           /\ rows[claim[w]].status = "pending"
           /\ rows' = [rows EXCEPT ![claim[w]] =
                         [rows[claim[w]] EXCEPT
                            !.status = Decision(w).status,
                            !.quoted = IF Decision(w).status = "completed"
                                       THEN 0 ELSE balance]]
           /\ current[w] = balance
           /\ \/ /\ Decision(w).status = "completed"
                 /\ balance' = Decision(w).new
                 /\ newEntry[w] = Installed(w)
                 /\ newEntry[w] # NoEntry
                 /\ ledger' = Append(ledger, Installed(w))
              \/ /\ Decision(w).status = "failed"
                 /\ balance' = balance
                 /\ newEntry[w] = NoEntry
                 /\ ledger' = ledger
<1> USE DEF IInv
<1>1. InTransaction(w)
  BY DEF InTransaction
<1>2. claim[w] \in Txns /\ rows[claim[w]].status = "pending"
  BY <1>1, ClaimedRow
<1>3. Decision(w).status \in {"completed", "failed"}
  BY <1>1, DecisionFacts DEF Terminal
<1>4. current[w] = balance
  BY DEF ReadsAreCurrent
<1>5. Staged(w)
  BY DEF StagedOK
<1>6. CASE Decision(w).status = "completed"
  <2>1. newBalance[w] = Decision(w).new /\ newEntry[w] = Installed(w)
    BY <1>4, <1>5, <1>6 DEF Staged, Installed
  <2>2. newEntry[w] # NoEntry
    BY <1>5, <1>6 DEF Staged, NoEntry
  <2>3. QED
    BY <1>2, <1>4, <1>5, <1>6, <2>1, <2>2 DEF Install, Staged
<1>7. CASE Decision(w).status = "failed"
  BY <1>2, <1>4, <1>5, <1>7 DEF Install, Staged
<1>8. QED
  BY <1>3, <1>6, <1>7

\* A commit changes the row its session claimed, to completed or failed.
LEMMA InstallSettles ==
    ASSUME IInv, NEW w \in Workers, pc[w] = "written", Install(w)
    PROVE  /\ claim[w] \in Txns
           /\ rows[claim[w]].status = "pending"
           /\ rows'[claim[w]].status \in Terminal
           /\ \A u \in Txns : u # claim[w] => rows'[u] = rows[u]
<1> DEFINE t == claim[w]
<1>1. /\ t \in Txns /\ rows[t].status = "pending" /\ rows[t] \in Row
      /\ rows' = [rows EXCEPT ![t] =
                    [rows[t] EXCEPT
                       !.status = Decision(w).status,
                       !.quoted = IF Decision(w).status = "completed"
                                  THEN 0 ELSE balance]]
  BY InstallFacts, ClaimedRow DEF InTransaction, IInv
<1>2. /\ rows'[t].status = Decision(w).status
      /\ \A u \in Txns : u # t => rows'[u] = rows[u]
  BY <1>1 DEF IInv, TypeOK, Row
<1>3. Decision(w).status \in Terminal
  BY DecisionFacts DEF InTransaction, IInv
<1>4. QED
  BY <1>1, <1>2, <1>3

\* A step that is not a commit leaves the rows that exist, the balance and
\* the ledger as they are.
LEMMA StoreSteps ==
    ASSUME [Next]_vars
    PROVE  \/ UNCHANGED <<rows, balance, ledger>>
           \/ \E t \in Txns : Submit(t)
           \/ \E w \in Workers : pc[w] = "written" /\ Install(w)
                                 /\ (Commit(w) \/ CommitLost(w))
BY DEF Next, Work, Proceed, Claim, MissBalanceRow, LockBalance, ApplyCompleted,
       WriteStatus, Commit, Notified, Abort, CommitLost, Crash, store, vars

LEMMA ChainStep == ASSUME IInv, [Next]_vars PROVE LedgerIsChain'
<1> USE DEF IInv
<1>1. ASSUME NEW w \in Workers, pc[w] = "written", Install(w)
      PROVE  LedgerIsChain'
  <2>1. CASE ledger' = ledger /\ balance' = balance
    BY <2>1 DEF LedgerIsChain
  <2>2. CASE /\ balance' = Decision(w).new
             /\ newEntry[w] = Installed(w) /\ newEntry[w] # NoEntry
             /\ ledger' = Append(ledger, Installed(w))
    <3>1. Installed(w).new = Wrap(Installed(w).prev + Installed(w).change)
      BY <1>1, InstallFacts, DecisionFacts DEF InTransaction, Installed
    <3>2. \A i \in 1..Len(ledger) : ledger[i].id < Installed(w).id
      BY <2>2 DEF IdsOK
    <3>3. /\ Len(ledger') = Len(ledger) + 1 /\ Len(ledger) \in Nat
          /\ \A i \in 1..Len(ledger) : ledger'[i] = ledger[i]
          /\ ledger'[Len(ledger) + 1] = Installed(w)
          /\ ledger' # <<>>
      BY <2>2 DEF TypeOK
    <3>4. Installed(w).prev = balance /\ Installed(w).new = balance'
      BY <2>2 DEF Installed
    <3>5. balance = IF Len(ledger) = 0 THEN 0 ELSE ledger[Len(ledger)].new
      BY DEF LedgerIsChain, TypeOK
    <3>6. ASSUME NEW i \in 1..Len(ledger')
          PROVE  /\ ledger'[i].new = Wrap(ledger'[i].prev + ledger'[i].change)
                 /\ ledger'[i].prev = IF i = 1 THEN 0 ELSE ledger'[i - 1].new
                 /\ \A j \in 1..Len(ledger') :
                      i < j => ledger'[i].id < ledger'[j].id
      <4>1. CASE i \in 1..Len(ledger)
        BY <3>2, <3>3, <4>1 DEF LedgerIsChain
      <4>2. CASE i = Len(ledger) + 1
        BY <3>1, <3>3, <3>4, <3>5, <4>2
      <4>3. QED
        BY <3>3, <4>1, <4>2
    <3>7. QED
      BY <3>3, <3>4, <3>6 DEF LedgerIsChain
  <2>3. QED
    BY <1>1, <2>1, <2>2, InstallFacts
<1>2. ASSUME NEW t \in Txns, Submit(t) PROVE LedgerIsChain'
  BY <1>2 DEF Submit, LedgerIsChain
<1>3. CASE UNCHANGED <<rows, balance, ledger>>
  BY <1>3 DEF LedgerIsChain
<1>4. QED
  BY <1>1, <1>2, <1>3, StoreSteps

LEMMA IdsStep == ASSUME IInv, [Next]_vars PROVE IdsOK'
<1> USE DEF IInv, store, session
<1>1. ASSUME NEW w \in Workers, newEntry[w] # NoEntry PROVE owner = w
  BY <1>1 DEF StagedOK, Staged, LocksOK, HoldsBalance
<1>2. NoEntry.id = 0
  BY DEF NoEntry
<1>3. CASE ledger' = ledger /\ entrySeq' = entrySeq
           /\ \A w \in Workers : newEntry'[w] \in {newEntry[w], NoEntry}
  BY <1>3 DEF IdsOK
<1>4. ASSUME NEW w \in Workers, ApplyCompleted(w) PROVE IdsOK'
  <2>1. /\ newEntry'[w].id = entrySeq + 1 /\ entrySeq' = entrySeq + 1
        /\ ledger' = ledger /\ entrySeq \in Nat
        /\ \A v \in Workers : v # w => newEntry'[v] = newEntry[v]
    BY <1>4 DEF ApplyCompleted, TypeOK
  <2>2. \A i \in 1..Len(ledger) : ledger[i].id \in 1..entrySeq
    BY DEF IdsOK
  <2>3. ASSUME NEW v \in Workers, v # w PROVE newEntry'[v] = NoEntry
    BY <1>1, <1>4, <2>1, <2>3 DEF ApplyCompleted, LocksOK, HoldsBalance
  <2>4. QED
    BY <2>1, <2>2, <2>3 DEF IdsOK
<1>5. ASSUME NEW w \in Workers, pc[w] = "written", Install(w),
             NEW next \in {"idle", "notify"}, Release(w, next), entrySeq' = entrySeq
      PROVE  IdsOK'
  <2>1. ASSUME NEW v \in Workers PROVE newEntry'[v] = NoEntry
    BY <1>1, <1>5 DEF Release, TypeOK, LocksOK, HoldsBalance
  <2>2. CASE ledger' = ledger
    BY <1>5, <2>1, <2>2 DEF IdsOK
  <2>3. CASE ledger' = Append(ledger, newEntry[w]) /\ newEntry[w] # NoEntry
    BY <1>5, <2>1, <2>3 DEF IdsOK, TypeOK
  <2>4. QED
    BY <1>5, <2>2, <2>3 DEF Install
<1>6. ASSUME NEW w \in Workers, Commit(w) \/ CommitLost(w) PROVE IdsOK'
  BY <1>5, <1>6 DEF Commit, CommitLost
<1>7. ASSUME NEW w \in Workers,
             Claim(w) \/ MissBalanceRow(w) \/ LockBalance(w) \/ WriteStatus(w)
               \/ Notified(w)
      PROVE  IdsOK'
  BY <1>3, <1>7
  DEF Claim, MissBalanceRow, LockBalance, WriteStatus, Notified
<1>8. ASSUME NEW w \in Workers, Abort(w) PROVE IdsOK'
  BY <1>3, <1>8 DEF Abort, Release, TypeOK
<1>9. CASE Crash
  BY <1>3, <1>9 DEF Crash
<1>10. ASSUME NEW t \in Txns, Submit(t) PROVE IdsOK'
  BY <1>3, <1>10 DEF Submit
<1>11. CASE UNCHANGED vars
  BY <1>3, <1>11 DEF vars
<1>12. QED
  BY <1>4, <1>6, <1>7, <1>8, <1>9, <1>10, <1>11 DEF Next, Work, Proceed

LEMMA SettledStep == ASSUME IInv, [Next]_vars PROVE SettledOnce'
<1> USE DEF IInv
<1>1. ASSUME NEW w \in Workers, pc[w] = "written", Install(w)
      PROVE  SettledOnce'
  <2> DEFINE t == claim[w]
  <2>1. /\ t \in Txns /\ rows[t].status = "pending" /\ rows[t] \in Row
        /\ rows' = [rows EXCEPT ![t] =
                      [rows[t] EXCEPT
                         !.status = Decision(w).status,
                         !.quoted = IF Decision(w).status = "completed"
                                    THEN 0 ELSE balance]]
    BY <1>1, InstallFacts, ClaimedRow DEF InTransaction
  <2>2. /\ rows'[t].status = Decision(w).status
        /\ rows'[t].type = rows[t].type /\ rows'[t].amount = rows[t].amount
        /\ \A u \in Txns : u # t => rows'[u] = rows[u]
    BY <2>1 DEF TypeOK, Row
  <2>3. \A i \in 1..Len(ledger) : ledger[i].txn # t
    BY <2>1 DEF SettledOnce
  <2>4. CASE Decision(w).status = "failed" /\ ledger' = ledger
    BY <2>2, <2>3, <2>4 DEF SettledOnce, Effect
  <2>5. CASE Decision(w).status = "completed"
             /\ ledger' = Append(ledger, Installed(w))
    <3>1. Installed(w).txn = t /\ Installed(w).change = Effect(rows[t])
      BY <1>1, <2>5, DecisionFacts DEF Installed, InTransaction
    <3>2. /\ Len(ledger') = Len(ledger) + 1 /\ Len(ledger) \in Nat
          /\ \A i \in 1..Len(ledger) : ledger'[i] = ledger[i]
          /\ ledger'[Len(ledger) + 1] = Installed(w)
      BY <2>5 DEF TypeOK
    <3>3. ASSUME NEW u \in Txns, u # t, rows[u].status = "completed"
          PROVE  \E i \in 1..Len(ledger') :
                   /\ ledger'[i].txn = u
                   /\ ledger'[i].change = Effect(rows'[u])
                   /\ \A j \in 1..Len(ledger') : ledger'[j].txn = u => j = i
      <4>1. PICK i \in 1..Len(ledger) :
              /\ ledger[i].txn = u
              /\ ledger[i].change = Effect(rows[u])
              /\ \A j \in 1..Len(ledger) : ledger[j].txn = u => j = i
        BY <3>3 DEF SettledOnce
      <4>2. /\ i \in 1..Len(ledger') /\ ledger'[i].txn = u
            /\ ledger'[i].change = Effect(rows'[u])
        BY <2>2, <3>2, <3>3, <4>1
      <4>3. ASSUME NEW j \in 1..Len(ledger'), ledger'[j].txn = u
            PROVE  j = i
        BY <3>1, <3>2, <3>3, <4>1, <4>3
      <4>4. QED
        BY <4>2, <4>3
    <3>4. ASSUME NEW u \in Txns, u # t, rows[u].status # "completed"
          PROVE  \A i \in 1..Len(ledger') : ledger'[i].txn # u
      BY <3>1, <3>2, <3>4 DEF SettledOnce
    <3>5. /\ Len(ledger') \in 1..Len(ledger')
          /\ ledger'[Len(ledger')].txn = t
          /\ ledger'[Len(ledger')].change = Effect(rows'[t])
          /\ \A j \in 1..Len(ledger') : ledger'[j].txn = t => j = Len(ledger')
      BY <2>2, <2>3, <3>1, <3>2 DEF Effect
    <3>6. QED
      BY <2>2, <2>5, <3>3, <3>4, <3>5 DEF SettledOnce
  <2>6. QED
    BY <1>1, <2>4, <2>5, InstallFacts
<1>2. ASSUME NEW t \in Txns, Submit(t) PROVE SettledOnce'
  <2>1. /\ rows[t].status = "absent" /\ rows'[t].status = "pending"
        /\ \A u \in Txns : u # t => rows'[u] = rows[u]
        /\ ledger' = ledger
    BY <1>2 DEF Submit, TypeOK
  <2>2. QED
    BY <2>1 DEF SettledOnce, Effect
<1>3. CASE UNCHANGED <<rows, balance, ledger>>
  BY <1>3 DEF SettledOnce
<1>4. QED
  BY <1>1, <1>2, <1>3, StoreSteps

-----------------------------------------------------------------------------
(* Theorems.                                                               *)

\* IInv holds in every reachable state.
THEOREM Invariance == Spec => []IInv
<1>1. IInv /\ [Next]_vars => IInv'
  BY TypeStep, LocksStep, ReadsStep, StagedStep, IdsStep, RowsStep, ChainStep,
     SettledStep DEF IInv
<1>2. QED
  BY <1>1, InitIInv, PTL DEF Spec

\* Every variable keeps its type: no balance leaves the range of a BIGINT.
THEOREM TypeCorrect == Spec => []TypeOK
<1>1. IInv => TypeOK
  BY DEF IInv
<1>2. QED
  BY <1>1, Invariance, PTL

\* The balance a session read under lockCurrentBalance is never stale.
THEOREM NoStaleRead == Spec => []ReadsAreCurrent
<1>1. IInv => ReadsAreCurrent
  BY DEF IInv
<1>2. QED
  BY <1>1, Invariance, PTL

\* The entries written by applyCompletedTransaction form one chain, in the
\* order of their ids, that ends in the running balance.
THEOREM Chain == Spec => []LedgerIsChain
<1>1. IInv => LedgerIsChain
  BY DEF IInv
<1>2. QED
  BY <1>1, Invariance, PTL

\* No retry, rollback, lost answer or crash settles a transaction twice or
\* leaves a completed one without its entry.
THEOREM ExactlyOnce == Spec => []SettledOnce
<1>1. IInv => SettledOnce
  BY DEF IInv
<1>2. QED
  BY <1>1, Invariance, PTL

\* A transaction that reached completed or failed keeps its row for ever.
THEOREM Finality == Spec => TerminalIsFinal
<1> DEFINE Final == \A t \in Txns : rows[t].status \in Terminal => rows'[t] = rows[t]
<1>1. IInv /\ [Next]_vars => [Final]_vars
  <2> SUFFICES ASSUME IInv, [Next]_vars PROVE Final
    OBVIOUS
  <2>1. ASSUME NEW t \in Txns, Submit(t) PROVE Final
    BY <2>1 DEF Submit, Terminal, IInv, TypeOK
  <2>2. ASSUME NEW w \in Workers, pc[w] = "written", Install(w) PROVE Final
    BY <2>2, InstallFacts DEF Terminal, IInv, TypeOK
  <2>3. QED
    BY <2>1, <2>2, StoreSteps
<1>2. QED
  BY <1>1, Invariance, PTL DEF Spec, TerminalIsFinal

\* As long as every pending credit fits, each step of the pool is a step of
\* the account or leaves it unchanged.
LEMMA StepRefines ==
    ASSUME IInv, NoOverflow, [Next]_vars
    PROVE  [Account!Next]_(Account!vars)
<1> USE DEF IInv
<1>1. ASSUME NEW t \in Txns, Submit(t) PROVE Account!Submit(t)
  BY <1>1 DEF Submit, Account!Submit, Types, Account!Types
<1>2. ASSUME NEW w \in Workers, pc[w] = "written", Install(w)
      PROVE  \E t \in Txns : Account!Credit(t) \/ Account!Debit(t) \/ Account!Reject(t)
  <2> DEFINE t == claim[w]
  <2>1. /\ t \in Txns /\ rows[t].status = "pending" /\ rows[t] \in Row
        /\ rows[t].amount \in 1..MaxInt /\ rows[t].type \in {"credit", "debit"}
        /\ rows[t].quoted = 0 /\ current[w] = balance
        /\ Decision(w) = Evaluate(rows[t], balance)
    BY <1>2, InstallFacts, ClaimedRow, AmountsAssumption
    DEF InTransaction, Decision, Types
  <2>2. balance \in Int /\ MaxInt \in Nat /\ -(MaxInt + 1) <= balance
    BY AmountsAssumption DEF TypeOK, Int64
  <2>3. rows' = [rows EXCEPT ![t] =
                   [rows[t] EXCEPT !.status = Decision(w).status,
                                   !.quoted = IF Decision(w).status = "completed"
                                              THEN 0 ELSE balance]]
    BY <1>2, InstallFacts
  <2>4. CASE Decision(w).status = "failed"
    <3>1. ~Covered(rows[t], balance)
      BY <2>1, <2>4 DEF Evaluate
    <3>2. rows[t].type = "debit" /\ rows[t].amount > balance
      BY <2>1, <2>2, <3>1 DEF Covered
    <3>3. balance' = balance /\ ledger' = ledger
      BY <1>2, <2>4, InstallFacts
    <3>4. rows' = [rows EXCEPT ![t].status = "failed", ![t].quoted = balance]
      BY <2>1, <2>3, <2>4 DEF TypeOK, Row
    <3>5. QED
      BY <2>1, <3>2, <3>3, <3>4 DEF Account!Reject
  <2>5. CASE Decision(w).status = "completed"
    <3> DEFINE change == Decision(w).change
    <3>1. Covered(rows[t], balance)
      BY <2>1, <2>5 DEF Evaluate
    <3>2. balance' = balance + change /\ Decision(w).new = balance + change
      <4>1. balance' = Decision(w).new
        BY <1>2, <2>5, InstallFacts
      <4>2. Decision(w).new = balance + change
        BY <2>1, <2>2, <3>1 DEF Evaluate, Wrap, NoOverflow
      <4>3. QED
        BY <4>1, <4>2
    <3>3. ledger' = Append(ledger, Installed(w))
      BY <1>2, <2>5, InstallFacts
    <3>4. rows' = [rows EXCEPT ![t].status = "completed"]
      BY <2>1, <2>3, <2>5 DEF TypeOK, Row
    <3>5. Installed(w) = [id |-> newEntry[w].id, txn |-> t, change |-> change,
                          prev |-> balance, new |-> balance']
      BY <3>2 DEF Installed
    <3>6. newEntry[w].id > Account!LastId
      <4>1. newEntry[w] # NoEntry
        BY <1>2, <2>5, InstallFacts
      <4>2. /\ newEntry[w].id \in 1..entrySeq
            /\ \A i \in 1..Len(ledger) : ledger[i].id < newEntry[w].id
            /\ \A i \in 1..Len(ledger) : ledger[i].id \in 1..entrySeq
        BY <4>1 DEF IdsOK
      <4>3. ledger # <<>> => Len(ledger) \in 1..Len(ledger)
        BY DEF TypeOK
      <4>4. QED
        BY <4>2, <4>3 DEF Account!LastId, TypeOK
    <3>7. Account!Complete(t, change)
      <4>1. Len(ledger') = Len(ledger) + 1
            /\ ledger'[Len(ledger')] = Installed(w)
        BY <3>3 DEF TypeOK
      <4>2. ledger'[Len(ledger')].id = newEntry[w].id
        BY <3>5, <4>1
      <4>3. QED
        BY <3>2, <3>3, <3>4, <3>5, <3>6, <4>1, <4>2 DEF Account!Complete
    <3>8. CASE rows[t].type = "credit"
      <4>1. change = rows[t].amount
        BY <2>1, <3>1, <3>8 DEF Evaluate
      <4>2. QED
        BY <2>1, <3>7, <3>8, <4>1 DEF Account!Credit
    <3>9. CASE rows[t].type = "debit"
      <4>1. change = -rows[t].amount /\ rows[t].amount <= balance
        BY <2>1, <2>2, <3>1, <3>9 DEF Evaluate, Covered
      <4>2. QED
        BY <2>1, <3>7, <3>9, <4>1 DEF Account!Debit
    <3>10. QED
      BY <2>1, <3>8, <3>9
  <2>6. QED
    BY <1>2, <2>4, <2>5, DecisionFacts DEF InTransaction, Terminal
<1>3. CASE UNCHANGED <<rows, balance, ledger>>
  BY <1>3 DEF Account!vars
<1>4. QED
  BY <1>1, <1>2, <1>3, StoreSteps DEF Account!Next

\* The worker pool implements the account that settles one transaction at a
\* time in a single step.
THEOREM Refinement == Spec /\ []NoOverflow => ImplementsAccount
<1>1. Init => Account!Init
  BY DEF Init, Account!Init, AbsentRow, Account!AbsentRow
<1>2. QED
  BY <1>1, StepRefines, Invariance, PTL
  DEF Spec, ImplementsAccount, Account!Spec

\* Without overflow the balance never goes below zero: a debit is covered by
\* the very balance it is taken from.
THEOREM Solvency == Spec /\ []NoOverflow => []BalanceNeverNegative
<1>1. Init => BalanceNeverNegative
  BY DEF Init, BalanceNeverNegative
<1>2. IInv /\ BalanceNeverNegative /\ NoOverflow /\ [Next]_vars => BalanceNeverNegative'
  <2> SUFFICES ASSUME IInv, BalanceNeverNegative, NoOverflow, [Next]_vars
               PROVE  BalanceNeverNegative'
    OBVIOUS
  <2>1. ASSUME NEW w \in Workers, pc[w] = "written", Install(w)
        PROVE  BalanceNeverNegative'
    <3>1. /\ claim[w] \in Txns /\ rows[claim[w]].status = "pending"
          /\ rows[claim[w]].amount \in 1..MaxInt
          /\ rows[claim[w]].type \in {"credit", "debit"}
          /\ Decision(w) = Evaluate(rows[claim[w]], balance)
          /\ balance' \in {balance, Decision(w).new}
      BY <2>1, InstallFacts, ClaimedRow, AmountsAssumption
      DEF IInv, InTransaction, Decision, Types
    <3>2. balance \in Int /\ MaxInt \in Nat
      BY AmountsAssumption DEF IInv, TypeOK, Int64
    <3>3. Decision(w).new >= 0
      BY <3>1, <3>2 DEF Evaluate, Covered, Wrap, NoOverflow, BalanceNeverNegative
    <3>4. QED
      BY <3>1, <3>2, <3>3 DEF BalanceNeverNegative
  <2>2. ASSUME NEW t \in Txns, Submit(t) PROVE BalanceNeverNegative'
    BY <2>2 DEF Submit, BalanceNeverNegative
  <2>3. CASE UNCHANGED <<rows, balance, ledger>>
    BY <2>3 DEF BalanceNeverNegative
  <2>4. QED
    BY <2>1, <2>2, <2>3, StoreSteps
<1>3. QED
  BY <1>1, <1>2, Invariance, PTL DEF Spec

-----------------------------------------------------------------------------
(* The books.                                                              *)

\* What row n of a table adds to the balance.
Adds(table, n) ==
    IF n \in Txns /\ table[n].status = "completed" THEN Effect(table[n]) ELSE 0

\* g is the running total of what the rows add.
Totals(g, table) ==
    /\ g \in [Nat -> Int]
    /\ g[0] = 0
    /\ \A n \in Nat : g[n + 1] = g[n] + Adds(table, n + 1)

LEMMA AddsType ==
    ASSUME NEW table \in [Txns -> Row], NEW n
    PROVE  Adds(table, n) \in Int
<1>1. CASE n \in Txns
  <2>1. table[n] \in Row /\ \A a \in Amounts \union {0} : a \in Int
    BY <1>1, AmountsAssumption
  <2>2. table[n].amount \in Int
    BY <2>1 DEF Row
  <2>3. QED
    BY <2>2 DEF Adds, Effect
<1>2. CASE n \notin Txns
  BY <1>2 DEF Adds
<1>3. QED
  BY <1>1, <1>2

\* Booked is the running total of the table.
LEMMA BookedTotals == TypeOK => Totals(Booked, rows)
<1> SUFFICES ASSUME TypeOK PROVE Totals(Booked, rows)
  OBVIOUS
<1> DEFINE step == [p \in Nat \X Int |-> p[2] + Adds(rows, p[1] + 1)]
<1>1. step \in [Nat \X Int -> Int]
  <2>1. \A n : Adds(rows, n) \in Int
    BY AddsType DEF TypeOK
  <2>2. QED
    BY <2>1
<1>2. 0 \in Int
  OBVIOUS
<1>3. PICK g : Follows(g, Int, 0, step)
  <2> HIDE DEF step
  <2>1. QED
    BY <1>1, <1>2, Recursion
<1>4. Totals(g, rows)
  <2>1. g \in [Nat -> Int] /\ g[0] = 0 /\ \A n \in Nat : g[n + 1] = step[<<n, g[n]>>]
    BY <1>3 DEF Follows
  <2>2. ASSUME NEW n \in Nat PROVE g[n + 1] = g[n] + Adds(rows, n + 1)
    <3>1. <<n, g[n]>> \in Nat \X Int
      BY <2>1
    <3>2. QED
      BY <2>1, <3>1
  <2>3. QED
    BY <2>1, <2>2 DEF Totals
<1>5. g = [n \in Nat |->
             IF n = 0 THEN 0
             ELSE g[n - 1] + (IF n \in Txns /\ rows[n].status = "completed"
                              THEN Effect(rows[n]) ELSE 0)]
  <2>1. ASSUME NEW n \in Nat, n # 0 PROVE g[n] = g[n - 1] + Adds(rows, n)
    <3>1. n - 1 \in Nat /\ (n - 1) + 1 = n
      BY <2>1
    <3>2. QED
      BY <1>4, <3>1 DEF Totals
  <2>2. QED
    BY <1>4, <2>1 DEF Totals, Adds
<1>6. Booked = [n \in Nat |->
                  IF n = 0 THEN 0
                  ELSE Booked[n - 1] + (IF n \in Txns /\ rows[n].status = "completed"
                                        THEN Effect(rows[n]) ELSE 0)]
  <2>1. \E f : f = [n \in Nat |->
                      IF n = 0 THEN 0
                      ELSE f[n - 1] + (IF n \in Txns /\ rows[n].status = "completed"
                                       THEN Effect(rows[n]) ELSE 0)]
    BY <1>5
  <2>2. QED
    BY <2>1 DEF Booked
<1>7. /\ Booked[0] = 0
      /\ \A n \in Nat : n # 0 => Booked[n] = Booked[n - 1] + Adds(rows, n)
  BY <1>6 DEF Adds
<1>8. ASSUME NEW n \in Nat PROVE Booked[n + 1] = Booked[n] + Adds(rows, n + 1)
  <2>1. n + 1 \in Nat /\ n + 1 # 0 /\ (n + 1) - 1 = n
    OBVIOUS
  <2>2. QED
    BY <1>7, <2>1
<1>9. \A n \in Nat : Booked[n] \in Int
  <2> DEFINE Good == {n \in Nat : Booked[n] \in Int}
  <2>1. 0 \in Good /\ Good \in SUBSET Nat
    BY <1>7
  <2>2. ASSUME NEW n \in Good PROVE n + 1 \in Good
    <3>1. Adds(rows, n + 1) \in Int
      BY AddsType DEF TypeOK
    <3>2. QED
      BY <1>8, <3>1
  <2>3. Good = Nat
    <3> HIDE DEF Good
    <3>1. QED
      BY <2>1, <2>2, Every
  <2>4. QED
    BY <2>3
<1>10. Booked \in [Nat -> Int]
  <2>1. \E body : Booked = [n \in Nat |-> body[n]]
    <3>1. DOMAIN Booked = Nat /\ Booked = [n \in Nat |-> Booked[n]]
      BY <1>6
    <3>2. QED
      BY <3>1
  <2>2. QED
    BY <1>9, <2>1
<1>11. QED
  BY <1>7, <1>8, <1>10 DEF Totals

LEMMA BookedTotalsNext == (TypeOK => Totals(Booked, rows))'
BY BookedTotals, PTL

\* Where one row adds e more than before, so do the totals from it on.
LEMMA OneMore ==
    ASSUME NEW table \in [Txns -> Row], NEW later \in [Txns -> Row],
           NEW g, Totals(g, table), NEW h, Totals(h, later),
           NEW t \in Nat \ {0}, NEW e \in Int,
           Adds(later, t) = Adds(table, t) + e,
           \A n \in Nat : n # t => Adds(later, n) = Adds(table, n)
    PROVE  \A n \in Nat : h[n] = g[n] + (IF t <= n THEN e ELSE 0)
<1> DEFINE Good == {n \in Nat : h[n] = g[n] + (IF t <= n THEN e ELSE 0)}
<1>1. 0 \in Good /\ Good \in SUBSET Nat
  BY DEF Totals
<1>2. ASSUME NEW n \in Good PROVE n + 1 \in Good
  <2>1. /\ n \in Nat /\ n + 1 \in Nat
        /\ g[n] \in Int /\ g[n + 1] = g[n] + Adds(table, n + 1)
        /\ h[n] \in Int /\ h[n + 1] = h[n] + Adds(later, n + 1)
    BY DEF Totals
  <2>2. Adds(table, n + 1) \in Int /\ Adds(later, n + 1) \in Int
    BY AddsType
  <2>3. h[n] = g[n] + (IF t <= n THEN e ELSE 0)
    OBVIOUS
  <2>4. CASE t = n + 1
    <3>1. ~(t <= n) /\ t <= n + 1
      BY <2>1, <2>4
    <3>2. Adds(later, n + 1) = Adds(table, n + 1) + e
      BY <2>4
    <3>3. QED
      BY <2>1, <2>2, <2>3, <3>1, <3>2
  <2>5. CASE t # n + 1
    <3>1. t <= n <=> t <= n + 1
      BY <2>1, <2>5
    <3>2. Adds(later, n + 1) = Adds(table, n + 1)
      BY <2>1, <2>5
    <3>3. QED
      BY <2>1, <2>2, <2>3, <3>1, <3>2
  <2>6. QED
    BY <2>4, <2>5
<1>3. Good = Nat
  <2> HIDE DEF Good
  <2>1. QED
    BY <1>1, <1>2, Every
<1>4. QED
  BY <1>3

\* BooksBalance for every number above the completed transactions (an
\* unbounded set of them has no greatest one to start from), and the same up
\* to the width of an int64.
CompletedUpTo(n) == \A t \in Txns : rows[t].status = "completed" => t <= n

Balanced == \A n \in Nat : CompletedUpTo(n) => balance = Booked[n]

Width == 2 * (MaxInt + 1)

BalancedModulo ==
    \A n \in Nat : CompletedUpTo(n) => \E k \in Int : Booked[n] = balance + k * Width

LEMMA InitBalanced == Init => Balanced
<1> SUFFICES ASSUME Init PROVE Balanced
  OBVIOUS
<1>1. Totals(Booked, rows)
  BY InitIInv, BookedTotals DEF IInv
<1>2. \A n \in Nat : Adds(rows, n) = 0
  BY DEF Adds, Init, AbsentRow
<1> DEFINE Good == {n \in Nat : Booked[n] = 0}
<1>3. 0 \in Good /\ Good \in SUBSET Nat
  BY <1>1 DEF Totals
<1>4. ASSUME NEW n \in Good PROVE n + 1 \in Good
  BY <1>1, <1>2 DEF Totals
<1>5. Good = Nat
  <2> HIDE DEF Good
  <2>1. QED
    BY <1>3, <1>4, Every
<1>6. QED
  BY <1>5 DEF Balanced, Init

\* Row t changes, and adds e more.
Adding(t, e) ==
    /\ rows[t].status # "completed"
    /\ rows'[t].status = "completed" \/ e = 0
    /\ Adds(rows', t) = Adds(rows, t) + e
    /\ \A u \in Txns : u # t => rows'[u] = rows[u]

\* So do the totals of the completed transactions, old and new.
LEMMA AddingTotals ==
    ASSUME TypeOK, TypeOK', NEW t \in Txns, NEW e \in Int, Adding(t, e),
           NEW n \in Nat, CompletedUpTo(n)'
    PROVE  /\ CompletedUpTo(n) /\ Booked'[n] = Booked[n] + e
           /\ Booked[n] \in Int /\ Booked'[n] \in Int
<1>1. Totals(Booked, rows) /\ Totals(Booked', rows')
  BY BookedTotals, BookedTotalsNext DEF Totals
<1>2. rows \in [Txns -> Row] /\ rows' \in [Txns -> Row] /\ t \in Nat \ {0}
  BY TxnsAssumption DEF TypeOK
<1>3. \A m \in Nat : m # t => Adds(rows', m) = Adds(rows, m)
  BY DEF Adding, Adds, Effect
<1>4. Booked'[n] = Booked[n] + (IF t <= n THEN e ELSE 0)
  BY <1>1, <1>2, <1>3, OneMore DEF Adding
<1>5. Booked[n] \in Int /\ Booked'[n] \in Int
  BY <1>1 DEF Totals
<1>6. CompletedUpTo(n)
  BY DEF CompletedUpTo, Adding
<1>7. CASE e = 0
  BY <1>4, <1>5, <1>6, <1>7
<1>8. CASE rows'[t].status = "completed"
  <2>1. t <= n
    BY <1>8 DEF CompletedUpTo
  <2>2. QED
    BY <1>4, <1>5, <1>6, <2>1
<1>9. QED
  BY <1>7, <1>8 DEF Adding

\* Every step leaves rows and balance alone or changes one row and adds to the
\* balance, as an int64, what that row adds.
LEMMA StepAdds ==
    ASSUME IInv, [Next]_vars
    PROVE  \/ UNCHANGED <<rows, balance>>
           \/ \E t \in Txns, e \in Int :
                /\ Adding(t, e)
                /\ \/ balance' = balance + e
                   \/ ~NoOverflow /\ balance' = balance + e - Width
<1> USE DEF IInv
<1>1. balance \in Int /\ MaxInt \in Nat
  BY AmountsAssumption DEF TypeOK, Int64
<1>2. ASSUME NEW t \in Txns, Submit(t)
      PROVE  Adding(t, 0) /\ balance' = balance + 0
  <2>1. /\ rows[t].status = "absent" /\ rows'[t].status = "pending"
        /\ \A u \in Txns : u # t => rows'[u] = rows[u]
        /\ balance' = balance
    BY <1>2 DEF Submit, TypeOK
  <2>2. Adds(rows', t) = 0 /\ Adds(rows, t) = 0
    BY <2>1 DEF Adds
  <2>3. QED
    BY <1>1, <2>1, <2>2 DEF Adding
<1>3. ASSUME NEW w \in Workers, pc[w] = "written", Install(w)
      PROVE  \E t \in Txns, e \in Int :
                /\ Adding(t, e)
                /\ \/ balance' = balance + e
                   \/ ~NoOverflow /\ balance' = balance + e - Width
  <2> DEFINE t == claim[w]
  <2>1. /\ t \in Txns /\ rows[t].status = "pending" /\ rows[t] \in Row
        /\ rows[t].amount \in 1..MaxInt /\ rows[t].type \in {"credit", "debit"}
        /\ Decision(w) = Evaluate(rows[t], balance)
        /\ rows' = [rows EXCEPT ![t] =
                      [rows[t] EXCEPT !.status = Decision(w).status,
                                      !.quoted = IF Decision(w).status = "completed"
                                                 THEN 0 ELSE balance]]
    BY <1>3, InstallFacts, ClaimedRow, AmountsAssumption
    DEF InTransaction, Decision, Types
  <2>2. /\ rows'[t].status = Decision(w).status
        /\ rows'[t].type = rows[t].type /\ rows'[t].amount = rows[t].amount
        /\ \A u \in Txns : u # t => rows'[u] = rows[u]
    BY <2>1 DEF TypeOK, Row
  <2>3. CASE Decision(w).status = "failed"
    <3>1. balance' = balance
      BY <1>3, <2>3, InstallFacts
    <3>2. Adds(rows', t) = 0 /\ Adds(rows, t) = 0
      BY <2>1, <2>2, <2>3 DEF Adds
    <3>3. Adding(t, 0) /\ balance' = balance + 0
      BY <1>1, <2>1, <2>2, <3>1, <3>2 DEF Adding
    <3>4. QED
      BY <2>1, <3>3
  <2>4. CASE Decision(w).status = "completed"
    <3> DEFINE e == Effect(rows[t])
    <3>1. Covered(rows[t], balance)
      BY <2>1, <2>4 DEF Evaluate
    <3>2. e \in Int /\ Effect(rows'[t]) = e
      BY <2>1, <2>2 DEF Effect
    <3>3. Adds(rows', t) = e /\ Adds(rows, t) = 0
      BY <2>1, <2>2, <2>4, <3>2 DEF Adds
    <3>4. Adding(t, e)
      BY <2>1, <2>2, <2>4, <3>2, <3>3 DEF Adding
    <3>5. balance' = Decision(w).new
      BY <1>3, <2>4, InstallFacts
    <3>6. \/ Decision(w).new = balance + e
          \/ ~NoOverflow /\ Decision(w).new = balance + e - Width
      BY <1>1, <2>1, <3>1 DEF Evaluate, Wrap, NoOverflow, Effect, Width
    <3>7. QED
      BY <2>1, <3>2, <3>4, <3>5, <3>6
  <2>5. QED
    BY <1>3, <2>3, <2>4, DecisionFacts DEF InTransaction, Terminal
<1>4. 0 \in Int
  OBVIOUS
<1>5. QED
  BY <1>2, <1>3, <1>4, StoreSteps

\* A step that leaves the rows alone leaves the totals alone.
LEMMA SameTotals ==
    ASSUME UNCHANGED rows, NEW n
    PROVE  Booked'[n] = Booked[n] /\ (CompletedUpTo(n)' <=> CompletedUpTo(n))
BY DEF Booked, CompletedUpTo

LEMMA NextBalanced ==
    ASSUME IInv, IInv', NoOverflow, Balanced, [Next]_vars
    PROVE  Balanced'
<1> SUFFICES ASSUME NEW n \in Nat, CompletedUpTo(n)' PROVE balance' = Booked'[n]
  BY DEF Balanced
<1>1. CASE UNCHANGED <<rows, balance>>
  BY <1>1, SameTotals DEF Balanced
<1>2. ASSUME NEW t \in Txns, NEW e \in Int, Adding(t, e), balance' = balance + e
      PROVE  balance' = Booked'[n]
  <2>1. CompletedUpTo(n) /\ Booked'[n] = Booked[n] + e
    BY <1>2, AddingTotals DEF IInv
  <2>2. QED
    BY <1>2, <2>1 DEF Balanced
<1>3. QED
  BY <1>1, <1>2, StepAdds

LEMMA NextBalancedModulo ==
    ASSUME IInv, IInv', BalancedModulo, [Next]_vars
    PROVE  BalancedModulo'
<1> SUFFICES ASSUME NEW n \in Nat, CompletedUpTo(n)'
             PROVE  \E k \in Int : Booked'[n] = balance' + k * Width
  BY DEF BalancedModulo
<1>1. CASE UNCHANGED <<rows, balance>>
  <2>1. PICK k \in Int : Booked[n] = balance + k * Width
    BY <1>1, SameTotals DEF BalancedModulo
  <2>2. Booked'[n] = balance' + k * Width
    BY <1>1, <2>1, SameTotals
  <2>3. QED
    BY <2>2
<1>2. ASSUME NEW t \in Txns, NEW e \in Int, Adding(t, e),
             balance' = balance + e \/ balance' = balance + e - Width
      PROVE  \E k \in Int : Booked'[n] = balance' + k * Width
  <2>1. CompletedUpTo(n) /\ Booked'[n] = Booked[n] + e /\ Booked[n] \in Int
    BY <1>2, AddingTotals DEF IInv
  <2>2. PICK k \in Int : Booked[n] = balance + k * Width
    BY <2>1 DEF BalancedModulo
  <2>3. balance \in Int /\ Width \in Int
    BY AmountsAssumption DEF IInv, TypeOK, Int64, Width
  <2>4. k * Width \in Int /\ (k + 1) * Width = k * Width + Width
    <3>1. \A i \in Int, j \in Int : i * j \in Int /\ (i + 1) * j = i * j + j
      OBVIOUS
    <3>2. QED
      BY <2>3, <3>1
  <2>5. CASE balance' = balance + e
    <3>1. Booked'[n] = balance' + k * Width
      BY <2>1, <2>2, <2>3, <2>4, <2>5
    <3>2. QED
      BY <3>1
  <2>6. CASE balance' = balance + e - Width
    <3>1. Booked'[n] = balance' + (k + 1) * Width
      BY <2>1, <2>2, <2>3, <2>4, <2>6
    <3>2. k + 1 \in Int
      OBVIOUS
    <3>3. QED
      BY <3>1, <3>2
  <2>7. QED
    BY <1>2, <2>5, <2>6
<1>3. QED
  BY <1>1, <1>2, StepAdds

\* As long as every pending credit fits, the running balance is what the
\* completed rows of the transactions table add up to, however many sessions
\* settled them, in whatever order and after whatever retries.
THEOREM TheBooksBalance == Spec /\ []NoOverflow => []BooksBalance
<1>1. Init => Balanced
  BY InitBalanced
<1>2. IInv /\ IInv' /\ NoOverflow /\ Balanced /\ [Next]_vars => Balanced'
  BY NextBalanced
<1>3. Balanced => BooksBalance
  BY TxnsAssumption DEF Balanced, BooksBalance, CompletedUpTo
<1>4. QED
  BY <1>1, <1>2, <1>3, Invariance, PTL DEF Spec

\* With no assumption on what clients ask for: the running balance is off by
\* whole widths of an int64 and by nothing else, so a wrapped credit is the
\* only way in which it can be wrong.
THEOREM OnlyWrapped == Spec => []BalancedModulo
<1>1. Init => BalancedModulo
  <2> SUFFICES ASSUME Init, NEW n \in Nat, CompletedUpTo(n)
               PROVE  \E k \in Int : Booked[n] = balance + k * Width
    BY DEF BalancedModulo
  <2>1. Booked[n] = balance /\ balance = 0
    BY InitBalanced DEF Balanced, Init
  <2>2. 0 * Width = 0 /\ 0 \in Int
    BY AmountsAssumption DEF Width
  <2>3. Booked[n] = balance + 0 * Width
    BY <2>1, <2>2
  <2>4. QED
    BY <2>2, <2>3
<1>2. IInv /\ IInv' /\ BalancedModulo /\ [Next]_vars => BalancedModulo'
  BY NextBalancedModulo
<1>3. QED
  BY <1>1, <1>2, Invariance, PTL DEF Spec

\* N transactions of at most A each do not add up to more than N * A, and to
\* less by A where one of them is still to be settled.
LEMMA TotalsBounded ==
    ASSUME NEW table \in [Txns -> Row], NEW g, Totals(g, table),
           NEW A \in Nat, Amounts \subseteq 0..A,
           NEW t \in Txns, table[t].status # "completed"
    PROVE  \A n \in Nat : g[n] <= (IF t <= n THEN n - 1 ELSE n) * A
<1> DEFINE Others(n) == IF t <= n THEN n - 1 ELSE n
           Good == {n \in Nat : g[n] <= Others(n) * A}
<1>1. t \in Nat /\ t >= 1
  BY TxnsAssumption
<1>2. 0 \in Good
  <2>1. Others(0) = 0 /\ 0 * A = 0
    BY <1>1
  <2>2. g[0] = 0
    BY DEF Totals
  <2>3. QED
    BY <2>1, <2>2
<1>3. ASSUME NEW n PROVE Adds(table, n) <= A /\ (n = t => Adds(table, n) = 0)
  <2>1. CASE n \in Txns
    <3>1. table[n].amount \in 0..A
      <4>1. table[n].amount \in Amounts \union {0}
        BY <2>1 DEF Row
      <4>2. \A a \in Amounts \union {0} : a \in 0..A
        OBVIOUS
      <4>3. QED
        BY <4>1, <4>2
    <3>2. QED
      BY <3>1 DEF Adds, Effect
  <2>2. CASE n \notin Txns
    BY <2>2 DEF Adds
  <2>3. QED
    BY <2>1, <2>2
<1>4. ASSUME NEW n \in Good PROVE n + 1 \in Good
  <2>1. /\ n \in Nat /\ g[n] \in Int /\ Others(n) \in Int /\ g[n] <= Others(n) * A
        /\ Adds(table, n + 1) \in Int /\ g[n + 1] = g[n] + Adds(table, n + 1)
    BY <1>1, AddsType DEF Totals
  <2>2. \A i \in Int : i * A \in Int /\ (i + 1) * A = i * A + A
    OBVIOUS
  <2>3. CASE t = n + 1
    <3>1. Others(n + 1) = Others(n)
      BY <1>1, <2>3
    <3>2. Adds(table, n + 1) = 0
      BY <1>3, <2>3
    <3> HIDE DEF Others
    <3>3. g[n + 1] <= Others(n + 1) * A
      BY <2>1, <3>1, <3>2
    <3>4. QED
      BY <2>1, <3>3
  <2>4. CASE t # n + 1
    <3>1. Others(n + 1) = Others(n) + 1
      BY <1>1, <2>1, <2>4
    <3>2. Adds(table, n + 1) <= A
      BY <1>3
    <3> HIDE DEF Others
    <3>3. Others(n + 1) * A = Others(n) * A + A /\ Others(n) * A \in Int
      BY <2>1, <2>2, <3>1
    <3>4. g[n + 1] <= Others(n + 1) * A
      BY <2>1, <3>2, <3>3
    <3>5. QED
      BY <2>1, <3>4
  <2>5. QED
    BY <2>3, <2>4
<1>5. Good = Nat
  <2>1. Good \in SUBSET Nat
    OBVIOUS
  <2> HIDE DEF Good
  <2>2. QED
    BY <1>2, <1>4, <2>1, Every
<1>6. QED
  BY <1>5

\* When NoOverflow is no assumption: a tenant whose transactions together
\* cannot ask for more than an int64 holds.
THEOREM RoomForAll ==
    ASSUME NEW N \in Nat, Txns \subseteq 1..N,
           NEW A \in Nat, Amounts \subseteq 0..A, N * A <= MaxInt
    PROVE  Spec => []NoOverflow
<1>1. IInv /\ Balanced => NoOverflow
  <2> SUFFICES ASSUME IInv, Balanced, NEW t \in Txns,
                      rows[t].status = "pending", rows[t].type = "credit"
               PROVE  balance + rows[t].amount <= MaxInt
    BY DEF NoOverflow
  <2>1. CompletedUpTo(N)
    <3>1. \A u \in Txns : u \in 1..N
      OBVIOUS
    <3>2. \A u \in 1..N : u <= N
      OBVIOUS
    <3>3. QED
      BY <3>1, <3>2, Zenon DEF CompletedUpTo
  <2>2. balance = Booked[N]
    BY <2>1 DEF Balanced
  <2>3. rows \in [Txns -> Row] /\ Totals(Booked, rows)
    BY BookedTotals DEF IInv, TypeOK
  <2>4. t <= N /\ t \in Nat
    BY TxnsAssumption
  <2>5. balance <= (N - 1) * A
    BY <2>2, <2>3, <2>4, TotalsBounded
  <2>6. rows[t].amount \in 0..A /\ balance \in Int /\ MaxInt \in Nat
    <3>1. rows[t].amount \in Amounts
      BY DEF IInv, RowsOK
    <3>2. \A a \in Amounts : a \in 0..A
      OBVIOUS
    <3>3. balance \in Int /\ MaxInt \in Nat
      BY AmountsAssumption DEF IInv, TypeOK, Int64
    <3>4. QED
      BY <3>1, <3>2, <3>3
  <2>7. (N - 1) * A \in Int /\ (N - 1) * A + A = N * A
    <3>1. \A i \in Int, j \in Int : (i - 1) * j \in Int /\ (i - 1) * j + j = i * j
      OBVIOUS
    <3>2. QED
      BY <3>1
  <2>8. N * A \in Int
    OBVIOUS
  <2>9. QED
    BY <2>5, <2>6, <2>7, <2>8
<1>2. Init => Balanced
  BY InitBalanced
<1>3. IInv /\ IInv' /\ NoOverflow /\ Balanced /\ [Next]_vars => Balanced'
  BY NextBalanced
<1>4. QED
  BY <1>1, <1>2, <1>3, Invariance, PTL DEF Spec
=============================================================================
