---------------------------- MODULE AccountSpec ----------------------------
(***************************************************************************)
(* What a tenant is promised, with no worker, lock or crash in sight: an   *)
(* account whose pending transactions are settled one at a time, each in a *)
(* single step, over unbounded integers.  The balance covers every debit   *)
(* that completes, and every change of it leaves exactly one entry that    *)
(* names the balance before and after.                                     *)
(***************************************************************************)
EXTENDS Settlement, Sequences

VARIABLES
    rows,      \* the transactions table
    balance,   \* the running balance
    ledger     \* the ledger entries in the order of their ids

vars == <<rows, balance, ledger>>

Init == /\ rows = [t \in Txns |-> AbsentRow]
        /\ balance = 0
        /\ ledger = <<>>

Submit(t) ==
    /\ rows[t].status = "absent"
    /\ \E type \in Types, amount \in Amounts :
         rows' = [rows EXCEPT ![t] = [status |-> "pending", type |-> type,
                                      amount |-> amount, quoted |-> 0]]
    /\ UNCHANGED <<balance, ledger>>

\* The ids of the entries grow, with gaps where a settlement was rolled back.
LastId == IF ledger = <<>> THEN 0 ELSE ledger[Len(ledger)].id

Complete(t, change) ==
    /\ balance' = balance + change
    /\ rows' = [rows EXCEPT ![t].status = "completed"]
    /\ Len(ledger') = Len(ledger) + 1
    /\ LET id == ledger'[Len(ledger')].id
       IN  /\ id > LastId
           /\ ledger' = Append(ledger, [id |-> id, txn |-> t, change |-> change,
                                        prev |-> balance, new |-> balance'])

Credit(t) == /\ rows[t].status = "pending" /\ rows[t].type = "credit"
             /\ Complete(t, rows[t].amount)

Debit(t) == /\ rows[t].status = "pending" /\ rows[t].type = "debit"
            /\ rows[t].amount <= balance
            /\ Complete(t, -rows[t].amount)

Reject(t) == /\ rows[t].status = "pending" /\ rows[t].type = "debit"
             /\ rows[t].amount > balance
             /\ rows' = [rows EXCEPT ![t].status = "failed", ![t].quoted = balance]
             /\ UNCHANGED <<balance, ledger>>

Next == \E t \in Txns : Submit(t) \/ Credit(t) \/ Debit(t) \/ Reject(t)

Spec == Init /\ [][Next]_vars
=============================================================================
