------------------------------ MODULE Webhook ------------------------------
(***************************************************************************)
(* The callback about a settled transaction of one tenant                  *)
(* (internal/worker/webhook_processor.go).  The worker that committed the  *)
(* transaction reads the tenant's configuration, posts the result until    *)
(* the endpoint accepts it or the attempts are used up, and sleeps between *)
(* attempts; it takes no other job meanwhile, and nothing of it is stored. *)
(*                                                                         *)
(* How a transaction is settled is Ledger.tla; here it is one step.        *)
(***************************************************************************)
EXTENDS Integers

CONSTANTS
    Txns, NoTxn, Workers,
    Urls,             \* endpoints an operator may configure
    NoUrl,            \* webhook_url is missing, null or blank
    MaxRetry,         \* webhookMaxRetry
    ConfigTimeout,    \* webhookConfigLoadTimeout, in seconds
    RequestTimeout,   \* webhookRequestTimeout, in seconds
    MaxSeconds,       \* longest time.Duration, in seconds
    MaxChanges,       \* bound on changes of the configuration
    MaxFaults         \* bound on crashes and other failures of the worker

ASSUME NothingAssumption == NoUrl \notin Urls /\ NoTxn \notin Txns
ASSUME RetryAssumption == MaxRetry \in Nat \ {0}
ASSUME TimeAssumption  == /\ {ConfigTimeout, RequestTimeout} \subseteq Nat
                          /\ MaxSeconds \in Nat \ {0}
ASSUME BoundsAssumption == {MaxChanges, MaxFaults} \subseteq Nat

VARIABLES
    status,      \* committed status of each transaction
    config,      \* public.tenant_configs of the tenant
    received,    \* what an endpoint got: transaction, status, endpoint
    outcome,     \* how each transaction's callback ended
    call,        \* each worker's call of dispatchTransactionWebhookNow
    tries,       \* history: how many attempts each transaction had
    seen,        \* history: configurations in force since the settlement
    changes, faults

vars == <<status, config, received, outcome, call, tries, seen, changes, faults>>

Terminal == {"completed", "failed"}

\* webhook_enabled may be any JSON, so not a bool; missing is "off".
Config == [enabled : {"on", "off", "garbled"}, url : Urls \union {NoUrl}]

\* busy is the longest time the call can have taken at the end of its step.
Call == [step : {"idle", "load", "send", "sleep"}, txn : Txns \union {NoTxn},
         status : Terminal, url : Urls \union {NoUrl}, attempt : 1..MaxRetry,
         busy : Nat]

NoCall == [step |-> "idle", txn |-> NoTxn, status |-> "failed", url |-> NoUrl,
           attempt |-> 1, busy |-> 0]

TypeOK ==
    /\ status \in [Txns -> {"pending"} \union Terminal]
    /\ config \in Config
    /\ received \subseteq [txn : Txns, status : Terminal, url : Urls]
    /\ outcome \in [Txns -> {"none", "skipped", "delivered", "gaveUp", "lost"}]
    /\ call \in [Workers -> Call]
    /\ tries \in [Txns -> 0..MaxRetry]
    /\ seen \in [Txns -> SUBSET Config]
    /\ changes \in 0..MaxChanges /\ faults \in 0..MaxFaults

Init ==
    /\ status = [t \in Txns |-> "pending"]
    /\ config \in Config
    /\ received = {}
    /\ outcome = [t \in Txns |-> "none"]
    /\ call = [w \in Workers |-> NoCall]
    /\ tries = [t \in Txns |-> 0]
    /\ seen = [t \in Txns |-> {}]
    /\ changes = 0
    /\ faults = 0

-----------------------------------------------------------------------------
(* fibonacciRetryBackoff.                                                  *)

\* prev and curr after the loop has reached i; curr stays at MaxSeconds once
\* the sum would pass it.
Loop[i \in Nat] ==
    IF i <= 1 THEN [prev |-> 1, curr |-> 1]
    ELSE LET last == Loop[i - 1]
         IN  [prev |-> last.curr,
              curr |-> IF last.curr > MaxSeconds - last.prev THEN MaxSeconds
                       ELSE last.prev + last.curr]

\* Mutant of Backoff: one attempt behind.
BackoffBehind(n) == IF n <= 1 THEN 1 ELSE Loop[n - 1].curr

Backoff(n) == IF n <= 1 THEN 1 ELSE Loop[n].curr

-----------------------------------------------------------------------------
(* The world: settlement, an operator's SQL.                               *)

Fault == faults < MaxFaults /\ faults' = faults + 1

Commit(t, result) ==
    /\ status[t] = "pending"
    /\ status' = [status EXCEPT ![t] = result]
    /\ seen' = [seen EXCEPT ![t] = {config}]

\* Mutant of Settle: the call comes before a COMMIT that may fail.
SettleLater(w, t) ==
    /\ call[w] = NoCall
    /\ \E result \in Terminal :
         /\ \/ Commit(t, result)
            \/ status[t] = "pending" /\ UNCHANGED <<status, seen>>
         /\ call' = [call EXCEPT ![w] =
              [NoCall EXCEPT !.step = "load", !.txn = t, !.status = result,
                             !.busy = ConfigTimeout]]
    /\ UNCHANGED <<config, received, outcome, tries, changes, faults>>

\* The worker has committed and calls dispatchTransactionWebhookNow.
Settle(w, t) ==
    /\ call[w] = NoCall
    /\ \E result \in Terminal :
         /\ Commit(t, result)
         /\ call' = [call EXCEPT ![w] =
              [NoCall EXCEPT !.step = "load", !.txn = t, !.status = result,
                             !.busy = ConfigTimeout]]
    /\ UNCHANGED <<config, received, outcome, tries, changes, faults>>

\* The commit is applied and its answer lost: no callback for this one.
SettleUnseen(t) ==
    /\ Fault
    /\ \E result \in Terminal : Commit(t, result)
    /\ outcome' = [outcome EXCEPT ![t] = "lost"]
    /\ UNCHANGED <<config, received, call, tries, changes>>

Reconfigure ==
    /\ changes < MaxChanges
    /\ changes' = changes + 1
    /\ config' \in Config \ {config}
    /\ seen' = [t \in Txns |-> IF status[t] = "pending" THEN {}
                               ELSE seen[t] \union {config'}]
    /\ UNCHANGED <<status, received, outcome, call, tries, faults>>

-----------------------------------------------------------------------------
(* dispatchTransactionWebhookNow.                                          *)

\* The call returns, and its worker takes the next job.
Return(w, how) ==
    /\ outcome' = [outcome EXCEPT ![call[w].txn] = how]
    /\ call' = [call EXCEPT ![w] = NoCall]

Goto(w, step, attempt, seconds) ==
    call' = [call EXCEPT ![w].step = step, ![w].attempt = attempt,
                         ![w].busy = @ + seconds]

\* cfg.Enabled and a URL that is not blank.
Deliverable(c) == c.enabled = "on" /\ c.url # NoUrl

\* Mutant of Load: the call waits until the webhook is switched on.
LoadWhenOn(w) ==
    /\ call[w].step = "load"
    /\ Deliverable(config)
    /\ call' = [call EXCEPT ![w].step = "send", ![w].url = config.url,
                            ![w].busy = @ + RequestTimeout]
    /\ UNCHANGED <<status, config, received, outcome, tries, seen, changes, faults>>

\* loadWebhookConfigForDelivery, one statement: a value that does not parse
\* is an error, and the callback is dropped like a disabled one.
Load(w) ==
    /\ call[w].step = "load"
    /\ IF Deliverable(config)
       THEN /\ call' = [call EXCEPT ![w].step = "send", ![w].url = config.url,
                                    ![w].busy = @ + RequestTimeout]
            /\ UNCHANGED outcome
       ELSE Return(w, "skipped")
    /\ UNCHANGED <<status, config, received, tries, seen, changes, faults>>

\* The statement fails or times out: logged, no callback.
LoadFails(w) ==
    /\ Fault
    /\ call[w].step = "load"
    /\ Return(w, "lost")
    /\ UNCHANGED <<status, config, received, tries, seen, changes>>

\* The endpoint gets the payload.
Deliver(w) ==
    received' = received \union
        {[txn |-> call[w].txn, status |-> call[w].status, url |-> call[w].url]}

Try(w) == /\ call[w].step = "send"
          /\ tries' = [tries EXCEPT ![call[w].txn] = @ + 1]

\* sendWebhook: an answer below 400.
Accepted(w) ==
    /\ Try(w)
    /\ Deliver(w)
    /\ Return(w, "delivered")
    /\ UNCHANGED <<status, config, seen, changes, faults>>

\* Mutants of Refused: attempts counted from 0, and an error status that is
\* not retried.
RefusedOnceMore(w) ==
    /\ Try(w)
    /\ Deliver(w) \/ UNCHANGED received
    /\ IF call[w].attempt > MaxRetry
       THEN Return(w, "gaveUp")
       ELSE /\ Goto(w, "sleep", call[w].attempt, Backoff(call[w].attempt))
            /\ UNCHANGED outcome
    /\ UNCHANGED <<status, config, seen, changes, faults>>

RefusedForGood(w) ==
    /\ Try(w)
    /\ Deliver(w) \/ UNCHANGED received
    /\ Return(w, "gaveUp")
    /\ UNCHANGED <<status, config, seen, changes, faults>>

\* An error status, no connection, or a timeout after the endpoint got it.
Refused(w) ==
    /\ Try(w)
    /\ Deliver(w) \/ UNCHANGED received
    /\ IF call[w].attempt = MaxRetry
       THEN Return(w, "gaveUp")
       ELSE /\ Goto(w, "sleep", call[w].attempt, Backoff(call[w].attempt))
            /\ UNCHANGED outcome
    /\ UNCHANGED <<status, config, seen, changes, faults>>

\* Mutant of Wake: the endpoint is read again before every attempt.
WakeAndReload(w) ==
    /\ call[w].step = "sleep"
    /\ call' = [call EXCEPT ![w].step = "send", ![w].attempt = @ + 1,
                            ![w].url = config.url, ![w].busy = @ + RequestTimeout]
    /\ UNCHANGED <<status, config, received, outcome, tries, seen, changes, faults>>

\* waitWithContext, with a context nobody cancels, is over.
Wake(w) ==
    /\ call[w].step = "sleep"
    /\ Goto(w, "send", call[w].attempt + 1, RequestTimeout)
    /\ UNCHANGED <<status, config, received, outcome, tries, seen, changes, faults>>

\* The process dies, also when a shutdown outlasts the grace it is given.
Crash ==
    /\ Fault
    /\ \E w \in Workers : call[w] # NoCall
    /\ outcome' = [t \in Txns |-> IF \E w \in Workers : call[w].txn = t
                                  THEN "lost" ELSE outcome[t]]
    /\ call' = [w \in Workers |-> NoCall]
    /\ UNCHANGED <<status, config, received, tries, seen, changes>>

-----------------------------------------------------------------------------
Callback(w) == Load(w) \/ Accepted(w) \/ Refused(w) \/ Wake(w)

Next == \/ \E w \in Workers : \/ \E t \in Txns : Settle(w, t)
                              \/ Callback(w) \/ LoadFails(w)
        \/ \E t \in Txns : SettleUnseen(t)
        \/ Reconfigure \/ Crash

Spec == Init /\ [][Next]_vars

\* Every statement, request and sleep ends by its timeout.
FairSpec == Spec /\ \A w \in Workers : WF_vars(Callback(w))

-----------------------------------------------------------------------------
(* Properties.                                                             *)

\* What an endpoint is told is what was committed, and it was committed first.
TellsTheTruth == \A m \in received : status[m.txn] = m.status

\* An endpoint is told of a transaction only if it was the configured one at
\* some moment after the transaction was settled, and all attempts for one
\* transaction go to one endpoint, whatever is reconfigured meanwhile.
RightEndpoint ==
    \A m \in received :
        /\ \E c \in seen[m.txn] : Deliverable(c) /\ c.url = m.url
        /\ \A n \in received : n.txn = m.txn => n.url = m.url

\* How a callback ended is what happened: nothing is sent where it was
\* skipped, and a tenant whose webhook was on all the time is not skipped;
\* giving up is preceded by all the attempts.
HonestOutcome ==
    \A t \in Txns :
        /\ outcome[t] = "skipped" =>
             tries[t] = 0 /\ \E c \in seen[t] : ~Deliverable(c)
        /\ outcome[t] = "delivered" => \E m \in received : m.txn = t
        /\ outcome[t] = "gaveUp" => tries[t] = MaxRetry

\* The Fibonacci numbers 1, 1, 2, 3, 5, ...
Fib[n \in Nat] == IF n <= 2 THEN 1 ELSE Fib[n - 1] + Fib[n - 2]

\* The Fibonacci number after that of the attempt, cut off at the longest
\* duration, summed over n attempts.
Slept[n \in Nat] ==
    IF n = 0 THEN 0
    ELSE Slept[n - 1] + (IF Fib[n + 1] <= MaxSeconds THEN Fib[n + 1] ELSE MaxSeconds)

\* A callback takes its worker away for a bounded time: at most MaxRetry
\* requests, and between them Fibonacci backoffs, also where the sum of the
\* next one would overflow.
BusyBounded ==
    \A w \in Workers :
        call[w].step \in {"send", "sleep"} =>
            /\ call[w].attempt <= MaxRetry
            /\ call[w].busy =
                 ConfigTimeout + call[w].attempt * RequestTimeout
                 + Slept[IF call[w].step = "sleep" THEN call[w].attempt
                         ELSE call[w].attempt - 1]

\* Every settled transaction's callback ends: delivered, skipped, given up
\* after all attempts, or lost with the process or the answer to its commit.
EveryCallbackEnds ==
    \A t \in Txns : status[t] \in Terminal ~> outcome[t] # "none"

-----------------------------------------------------------------------------
(* The inductive invariants that WebhookProofs proves: IInv says nothing   *)
(* of busy, Clocked is inductive with it.                                  *)

Fields == {"step", "txn", "status", "url", "attempt", "busy"}

TypeButBusy ==
    /\ status \in [Txns -> {"pending"} \union Terminal]
    /\ config \in Config
    /\ received \subseteq [txn : Txns, status : Terminal, url : Urls]
    /\ outcome \in [Txns -> {"none", "skipped", "delivered", "gaveUp", "lost"}]
    /\ tries \in [Txns -> 0..MaxRetry]
    /\ seen \in [Txns -> SUBSET Config]
    /\ DOMAIN call = Workers /\ call = [w \in Workers |-> call[w]]
    /\ \A w \in Workers :
         /\ DOMAIN call[w] = Fields /\ call[w] = [f \in Fields |-> call[w][f]]
         /\ call[w].step \in {"idle", "load", "send", "sleep"}
         /\ call[w].attempt \in 1..MaxRetry
         /\ call[w].step = "idle" => call[w] = NoCall

Calling(w) == call[w].step # "idle"

\* A call is about a settled transaction of its own whose callback is open.
CallsOwn ==
    \A w \in Workers : Calling(w) =>
        /\ call[w].txn \in Txns
        /\ status[call[w].txn] = call[w].status /\ call[w].status \in Terminal
        /\ outcome[call[w].txn] = "none"
        /\ \A v \in Workers : Calling(v) /\ call[v].txn = call[w].txn => v = w

\* What has not been settled has not been told of.
Unsettled ==
    \A t \in Txns :
        /\ status[t] = "pending" =>
             outcome[t] = "none" /\ tries[t] = 0 /\ \A m \in received : m.txn # t
        /\ status[t] # "pending" => config \in seen[t]

\* How far a call has come.
Attempts ==
    \A w \in Workers :
        LET c == call[w]
        IN  /\ c.step = "load" =>
                 tries[c.txn] = 0 /\ c.attempt = 1 /\ \A m \in received : m.txn # c.txn
            /\ c.step \in {"send", "sleep"} =>
                 /\ tries[c.txn] = IF c.step = "send" THEN c.attempt - 1 ELSE c.attempt
                 /\ c.url \in Urls
                 /\ \E k \in seen[c.txn] : Deliverable(k) /\ k.url = c.url
                 /\ \A m \in received : m.txn = c.txn => m.url = c.url
            /\ c.step = "sleep" => c.attempt < MaxRetry

IInv == /\ TypeButBusy /\ CallsOwn /\ Unsettled /\ Attempts
        /\ TellsTheTruth /\ RightEndpoint /\ HonestOutcome

\* What a call has taken, from its first statement on.
Clocked ==
    /\ call \in [Workers -> Call]
    /\ changes \in 0..MaxChanges /\ faults \in 0..MaxFaults
    /\ \A w \in Workers : call[w].step = "load" => call[w].busy = ConfigTimeout
    /\ BusyBounded
=============================================================================
