--------------------------- MODULE ReferenceSpec ---------------------------
(***************************************************************************)
(* What a client is promised about one reference, with no key, handler or  *)
(* failed call in sight.  A transaction is created for it at least the TTL *)
(* (less Slack, the time a submission takes) after the one before, but for *)
(* one time for each deceit: of the database, the network or the cache.  A *)
(* submission that is accepted is answered, once, with a transaction that  *)
(* is there and younger than twice the TTL and Slack.                      *)
(***************************************************************************)
EXTENDS Integers, Sequences, FiniteSets

CONSTANTS Requests, TTL, Slack

VARIABLES
    now,       \* the clock
    created,   \* when each transaction with this reference was created
    bound,     \* the transaction each submission was answered with, 0 for none
    deceits    \* deceits so far

vars == <<now, created, bound, deceits>>

Init == /\ now = 0
        /\ created = <<>>
        /\ bound = [r \in Requests |-> 0]
        /\ deceits = 0

Repeats == {i \in 2..Len(created) : created[i] - created[i - 1] < TTL - Slack}

\* The creation may be the deceit: its submission is told that it failed.
Create ==
    /\ created' = Append(created, now)
    /\ deceits' \in {deceits, deceits + 1}
    /\ Cardinality(Repeats') <= deceits'
    /\ UNCHANGED <<now, bound>>

Deceive == deceits' = deceits + 1 /\ UNCHANGED <<now, created, bound>>

Accept(r) ==
    /\ bound[r] = 0
    /\ \E i \in 1..Len(created) :
         /\ now - created[i] < 2 * TTL + Slack
         /\ bound' = [bound EXCEPT ![r] = i]
    /\ UNCHANGED <<now, created, deceits>>

Tick == now' = now + 1 /\ UNCHANGED <<created, bound, deceits>>

Next == Create \/ Deceive \/ (\E r \in Requests : Accept(r)) \/ Tick

Spec == Init /\ [][Next]_vars
=============================================================================
