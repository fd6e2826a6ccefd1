----------------------------- MODULE Settlement -----------------------------
(***************************************************************************)
(* The data of one tenant schema (migrations/0002_init_tenant_schema.sql)  *)
(* and the pure decision the worker takes about one transaction            *)
(* (worker/transaction_processor.go, evaluateTransaction).                 *)
(***************************************************************************)
EXTENDS Integers

CONSTANTS
    Txns,      \* transactions; the number is the rank in (created_at, id)
    Amounts,   \* amounts a client may ask for, in minor units
    MaxInt     \* largest int64 / BIGINT; the smallest is -(MaxInt + 1)

ASSUME TxnsAssumption == Txns \subseteq Nat \ {0}

\* The service and the CHECK of the table both refuse amount <= 0.
ASSUME AmountsAssumption == MaxInt \in Nat /\ Amounts \subseteq 1..MaxInt

NoTxn == 0     \* "no transaction" where one is expected

Types    == {"credit", "debit"}
Terminal == {"completed", "failed"}

\* The values of an int64 variable and of a BIGINT column.
Int64 == -(MaxInt + 1)..MaxInt

(***************************************************************************)
(* A row of transactions.  "absent" is a row that was not inserted yet;    *)
(* quoted is the available balance that failure_reason names (0 while the  *)
(* column is NULL).                                                        *)
(***************************************************************************)
Row == [status : {"absent", "pending"} \union Terminal,
        type   : Types,
        amount : Amounts \union {0},
        quoted : Int64]

AbsentRow == [status |-> "absent", type |-> "credit", amount |-> 0, quoted |-> 0]

\* A row of ledger_entries; id is its BIGSERIAL key.
Entry == [id : Nat, txn : Txns \union {NoTxn},
          change : Int64, prev : Int64, new : Int64]

NoEntry == [id |-> 0, txn |-> NoTxn, change |-> 0, prev |-> 0, new |-> 0]

\* Go's int64 addition, for the one direction a credit can leave the range.
Wrap(n) == IF n > MaxInt THEN n - 2 * (MaxInt + 1) ELSE n

\* Mutant of Covered: > for >=.
CoveredStrictly(row, current) == row.type = "credit" \/ current > row.amount

Covered(row, current) == row.type = "credit" \/ current >= row.amount

\* evaluateTransaction: the terminal status, the new balance, the change.
Evaluate(row, current) ==
    IF ~Covered(row, current)
    THEN [status |-> "failed", new |-> current, change |-> 0]
    ELSE IF row.type = "credit"
         THEN [status |-> "completed", new |-> Wrap(current + row.amount),
               change |-> row.amount]
         ELSE [status |-> "completed", new |-> current - row.amount,
               change |-> -row.amount]
=============================================================================
