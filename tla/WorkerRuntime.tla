--------------------------- MODULE WorkerRuntime ---------------------------
(***************************************************************************)
(* The goroutines of the worker process (internal/worker/runtime.go): one  *)
(* refreshes the list of active tenants, one dispatches a job per tenant   *)
(* into a bounded channel every two seconds, the workers take one job each *)
(* and settle one pending transaction of its tenant, and run waits for all *)
(* of them after the shutdown signal.                                      *)
(*                                                                         *)
(* What a job does to the ledger is Ledger.tla; here it is one transaction *)
(* less that is pending.                                                   *)
(***************************************************************************)
EXTENDS Integers, Sequences, FiniteSets

CONSTANTS
    Tenants,             \* tenants, numbered in the order of created_at
    Workers,             \* worker goroutines (WORKER_COUNT)
    JobQueueMultiplier,  \* jobQueueMultiplier, 8 in the code
    MaxPending,          \* bound on the pending transactions of a tenant
    MaxChanges,          \* bound on suspensions and activations
    MaxFaults,           \* bound on jobs that fail
    SlowJobsOnly         \* TRUE: only a job that settles outlasts a tick

ASSUME TenantsAssumption  == Tenants \subseteq Nat \ {0} /\ IsFiniteSet(Tenants)
ASSUME WorkersAssumption  == IsFiniteSet(Workers) /\ Workers # {}
ASSUME QueueAssumption    == JobQueueMultiplier \in Nat \ {0}
ASSUME BoundsAssumption   == {MaxPending, MaxChanges, MaxFaults} \subseteq Nat
ASSUME SlowJobsAssumption == SlowJobsOnly \in BOOLEAN

VARIABLES
    active,     \* database: tenants whose status is active
    pending,    \* database: pending transactions per tenant
    tenants,    \* r.tenants, the list the last refresh read
    refresher,  \* the refresh loop: "looping" or "returned"
    dispatcher, \* the dispatch loop: "waiting", "sending" or "returned"
    snapshot,   \* tenants the current dispatch has yet to enqueue
    jobs,       \* the channel
    closed,     \* the dispatcher closed the channel
    worker,     \* each worker: "receiving", "working", "settled", "returned"
    job,        \* the tenant of each worker's job
    shutdown,   \* ctx is done
    stopped,    \* run returned
    changes, faults

database == <<active, pending, changes>>
pool     == <<worker, job>>
vars     == <<database, tenants, refresher, dispatcher, snapshot, jobs, closed,
              pool, shutdown, stopped, faults>>

QueueSize == Cardinality(Workers) * JobQueueMultiplier
NoTenant  == 0

TypeOK ==
    /\ active \subseteq Tenants
    /\ pending \in [Tenants -> 0..MaxPending]
    /\ tenants \in Seq(Tenants) /\ snapshot \in Seq(Tenants) /\ jobs \in Seq(Tenants)
    /\ refresher \in {"looping", "returned"}
    /\ dispatcher \in {"waiting", "sending", "returned"}
    /\ closed \in BOOLEAN /\ shutdown \in BOOLEAN /\ stopped \in BOOLEAN
    /\ worker \in [Workers -> {"receiving", "working", "settled", "returned"}]
    /\ job \in [Workers -> Tenants \union {NoTenant}]
    /\ changes \in 0..MaxChanges /\ faults \in 0..MaxFaults

\* refreshActiveTenants: the active tenants, oldest first (one such list).
ActiveLists ==
    {list \in [1..Cardinality(active) -> active] :
        \A i, j \in 1..Cardinality(active) : i < j => list[i] < list[j]}

\* The initial refresh of run has succeeded and the goroutines are started.
Init ==
    /\ active \in SUBSET Tenants
    /\ pending = [t \in Tenants |-> 0]
    /\ tenants \in ActiveLists
    /\ refresher = "looping"
    /\ dispatcher = "waiting"
    /\ snapshot = <<>>
    /\ jobs = <<>>
    /\ closed = FALSE
    /\ worker = [w \in Workers |-> "receiving"]
    /\ job = [w \in Workers |-> NoTenant]
    /\ shutdown = FALSE
    /\ stopped = FALSE
    /\ changes = 0
    /\ faults = 0

-----------------------------------------------------------------------------
(* The world: the API accepts, an operator suspends and activates with     *)
(* SQL, a signal arrives.                                                  *)

\* A submission that was let in while its tenant was active may be inserted
\* after the suspension.
Submit(t) ==
    /\ pending[t] < MaxPending
    /\ pending' = [pending EXCEPT ![t] = @ + 1]
    /\ UNCHANGED <<active, changes, tenants, refresher, dispatcher, snapshot,
                   jobs, closed, pool, shutdown, stopped, faults>>

ChangeStatus(t) ==
    /\ changes < MaxChanges
    /\ changes' = changes + 1
    /\ active' = IF t \in active THEN active \ {t} ELSE active \union {t}
    /\ UNCHANGED <<pending, tenants, refresher, dispatcher, snapshot, jobs,
                   closed, pool, shutdown, stopped, faults>>

\* Mutant of Signal: the signal handler closes the channel itself.
SignalCloses ==
    /\ ~shutdown
    /\ shutdown' = TRUE
    /\ closed' = TRUE
    /\ UNCHANGED <<database, tenants, refresher, dispatcher, snapshot, jobs,
                   pool, stopped, faults>>

Signal ==
    /\ ~shutdown
    /\ shutdown' = TRUE
    /\ UNCHANGED <<database, tenants, refresher, dispatcher, snapshot, jobs,
                   closed, pool, stopped, faults>>

-----------------------------------------------------------------------------
(* tenantRefreshLoop.  A refresh that fails keeps the old list.            *)

\* Mutant of Refresh: an empty result is taken for a failed query.
RefreshUnlessEmpty ==
    /\ refresher = "looping"
    /\ ~shutdown
    /\ tenants' \in IF active = {} THEN {tenants} ELSE ActiveLists
    /\ UNCHANGED <<database, refresher, dispatcher, snapshot, jobs, closed,
                   pool, shutdown, stopped, faults>>

Refresh ==
    /\ refresher = "looping"
    /\ ~shutdown
    /\ tenants' \in ActiveLists
    /\ UNCHANGED <<database, refresher, dispatcher, snapshot, jobs, closed,
                   pool, shutdown, stopped, faults>>

RefresherReturns ==
    /\ refresher = "looping"
    /\ shutdown
    /\ refresher' = "returned"
    /\ UNCHANGED <<database, tenants, dispatcher, snapshot, jobs, closed,
                   pool, shutdown, stopped, faults>>

-----------------------------------------------------------------------------
(* dispatchLoop and enqueueTenantJobs.                                     *)

\* A worker that only has to receive, or to find that nothing is pending or
\* that its statement failed, needs far less than the two seconds of a tick.
Prompt(w) == \/ worker[w] = "receiving" /\ jobs # <<>>
             \/ worker[w] = "working"

\* Mutant of Dispatch: the newest tenant first.
DispatchReversed ==
    /\ dispatcher = "waiting"
    /\ SlowJobsOnly => \A w \in Workers : ~Prompt(w)
    /\ tenants # <<>>
    /\ dispatcher' = "sending"
    /\ snapshot' = [i \in 1..Len(tenants) |-> tenants[Len(tenants) + 1 - i]]
    /\ UNCHANGED <<database, tenants, refresher, jobs, closed, pool, shutdown,
                   stopped, faults>>

\* A tick, the first one at once: snapshotTenants.  With the signal and a
\* tick both ready, select may take either.
Dispatch ==
    /\ dispatcher = "waiting"
    /\ SlowJobsOnly => \A w \in Workers : ~Prompt(w)
    /\ tenants # <<>>
    /\ dispatcher' = "sending"
    /\ snapshot' = tenants
    /\ UNCHANGED <<database, tenants, refresher, jobs, closed, pool, shutdown,
                   stopped, faults>>

Enqueue ==
    /\ dispatcher = "sending"
    /\ snapshot # <<>>
    /\ Len(jobs) < QueueSize
    /\ jobs' = Append(jobs, Head(snapshot))
    /\ snapshot' = Tail(snapshot)
    /\ UNCHANGED <<database, tenants, refresher, dispatcher, closed, pool,
                   shutdown, stopped, faults>>

\* Every tenant has its job, the queue is full, or ctx is done: the rest of
\* the snapshot is dropped, and the next tick starts from the head again.
EndDispatch ==
    /\ dispatcher = "sending"
    /\ snapshot = <<>> \/ Len(jobs) = QueueSize \/ shutdown
    /\ dispatcher' = "waiting"
    /\ snapshot' = <<>>
    /\ UNCHANGED <<database, tenants, refresher, jobs, closed, pool, shutdown,
                   stopped, faults>>

\* Mutant of DispatcherReturns: no deferred close.
DispatcherLeaves ==
    /\ dispatcher = "waiting"
    /\ shutdown
    /\ dispatcher' = "returned"
    /\ UNCHANGED <<database, tenants, refresher, snapshot, jobs, closed, pool,
                   shutdown, stopped, faults>>

DispatcherReturns ==
    /\ dispatcher = "waiting"
    /\ shutdown
    /\ dispatcher' = "returned"
    /\ closed' = TRUE
    /\ UNCHANGED <<database, tenants, refresher, snapshot, jobs, pool,
                   shutdown, stopped, faults>>

-----------------------------------------------------------------------------
(* transactionWorkerLoop.                                                  *)

Receive(w) ==
    /\ worker[w] = "receiving"
    /\ jobs # <<>>
    /\ job' = [job EXCEPT ![w] = Head(jobs)]
    /\ jobs' = Tail(jobs)
    /\ worker' = [worker EXCEPT ![w] = "working"]
    /\ UNCHANGED <<database, tenants, refresher, dispatcher, snapshot, closed,
                   shutdown, stopped, faults>>

\* Mutant of Settle: a job counts for one transaction, found or not.
SettleUnchecked(w) ==
    /\ worker[w] = "working"
    /\ pending' = [pending EXCEPT ![job[w]] = @ - 1]
    /\ worker' = [worker EXCEPT ![w] = "settled"]
    /\ UNCHANGED <<active, changes, tenants, refresher, dispatcher, snapshot,
                   jobs, closed, job, shutdown, stopped, faults>>

\* processNextPendingTransaction commits, and goes on to the webhook.
Settle(w) ==
    /\ worker[w] = "working"
    /\ pending[job[w]] > 0
    /\ pending' = [pending EXCEPT ![job[w]] = @ - 1]
    /\ worker' = [worker EXCEPT ![w] = "settled"]
    /\ UNCHANGED <<active, changes, tenants, refresher, dispatcher, snapshot,
                   jobs, closed, job, shutdown, stopped, faults>>

\* The job is over: webhook done, nothing was pending, or it failed.
EndJob(w) ==
    /\ \/ worker[w] = "settled" /\ UNCHANGED faults
       \/ worker[w] = "working" /\ pending[job[w]] = 0 /\ UNCHANGED faults
       \/ worker[w] = "working" /\ faults < MaxFaults /\ faults' = faults + 1
    /\ worker' = [worker EXCEPT ![w] = "receiving"]
    /\ job' = [job EXCEPT ![w] = NoTenant]
    /\ UNCHANGED <<database, tenants, refresher, dispatcher, snapshot, jobs,
                   closed, shutdown, stopped>>

\* Mutant of WorkerReturns: workers watch ctx instead of the channel.
WorkerQuits(w) ==
    /\ worker[w] = "receiving"
    /\ shutdown
    /\ worker' = [worker EXCEPT ![w] = "returned"]
    /\ UNCHANGED <<database, tenants, refresher, dispatcher, snapshot, jobs,
                   closed, job, shutdown, stopped, faults>>

\* range over a closed channel ends when the channel is empty.
WorkerReturns(w) ==
    /\ worker[w] = "receiving"
    /\ closed /\ jobs = <<>>
    /\ worker' = [worker EXCEPT ![w] = "returned"]
    /\ UNCHANGED <<database, tenants, refresher, dispatcher, snapshot, jobs,
                   closed, job, shutdown, stopped, faults>>

\* run: wg.Wait after the signal.
RunReturns ==
    /\ ~stopped
    /\ shutdown
    /\ refresher = "returned" /\ dispatcher = "returned"
    /\ \A w \in Workers : worker[w] = "returned"
    /\ stopped' = TRUE
    /\ UNCHANGED <<database, tenants, refresher, dispatcher, snapshot, jobs,
                   closed, pool, shutdown, faults>>

-----------------------------------------------------------------------------
RefreshLoop   == Refresh \/ RefresherReturns
DispatchLoop  == Dispatch \/ Enqueue \/ EndDispatch \/ DispatcherReturns
WorkerLoop(w) == Receive(w) \/ Settle(w) \/ EndJob(w) \/ WorkerReturns(w)

Next == \/ \E t \in Tenants : Submit(t) \/ ChangeStatus(t)
        \/ Signal \/ RefreshLoop \/ DispatchLoop \/ RunReturns
        \/ \E w \in Workers : WorkerLoop(w)

Spec == Init /\ [][Next]_vars

\* Tickers keep firing, a select that finds ctx.Done ready again and again
\* takes it in the end (Go chooses at random), calls have timeouts.
FairSpec ==
    /\ Spec
    /\ WF_vars(Refresh) /\ WF_vars(RefresherReturns)
    /\ WF_vars(DispatchLoop) /\ SF_vars(DispatcherReturns)
    /\ \A w \in Workers : WF_vars(WorkerLoop(w))
    /\ WF_vars(RunReturns)

-----------------------------------------------------------------------------
(* Properties.                                                             *)

\* Graceful shutdown: when run returns, every job that was enqueued was
\* taken and finished, and no worker is in the middle of one.
GracefulStop ==
    stopped => jobs = <<>> /\ \A w \in Workers : job[w] = NoTenant

\* The inductive invariant behind it: who has returned has left nothing.
IInv ==
    /\ TypeOK
    /\ closed <=> dispatcher = "returned"
    /\ \A w \in Workers :
         /\ worker[w] \in {"receiving", "returned"} <=> job[w] = NoTenant
         /\ worker[w] = "returned" => closed /\ jobs = <<>>
    /\ stopped => \A w \in Workers : worker[w] = "returned"

\* A send on a closed channel would panic: nothing is enqueued after close.
NoSendAfterClose == [][closed => Len(jobs') <= Len(jobs)]_vars

\* The signal leads to the end of run, however full the queue is.
ShutdownCompletes == shutdown ~> stopped

\* A tenant that stays suspended stops having jobs (unless the process is
\* told to stop), although list, snapshot and queue may still name it.
SuspensionTakesHold ==
    \A t \in Tenants :
        (<>[](t \notin active)) =>
            <>[](shutdown \/ \A w \in Workers : job[w] # t)

Served(t) == [](pending[t] > 0 =>
                <>(pending[t] = 0 \/ t \notin active \/ shutdown
                   \/ \E w \in Workers : worker[w] = "settled" /\ job[w] = t))

\* The oldest tenant is at the head of every dispatch: its pending
\* transactions are always picked up in the end.
OldestServed == \A t \in Tenants : (\A u \in Tenants : t <= u) => Served(t)

\* Every active tenant's pending transactions are picked up in the end.
EveryTenantServed == \A t \in Tenants : Served(t)
=============================================================================
