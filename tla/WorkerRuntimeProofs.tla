------------------------ MODULE WorkerRuntimeProofs ------------------------
(***************************************************************************)
(* The worker process stops gracefully and never sends on its closed       *)
(* channel, for every number of tenants and workers and every size of the  *)
(* queue.                                                                  *)
(***************************************************************************)
EXTENDS WorkerRuntime, FiniteSetTheorems, TLAPS

\* A list of active tenants is a list of tenants.
LEMMA ActiveListType ==
    ASSUME active \subseteq Tenants, NEW list \in ActiveLists
    PROVE  list \in Seq(Tenants)
<1>1. Cardinality(active) \in Nat
  BY TenantsAssumption, FS_Subset, FS_CardinalityType
<1>2. list \in [1..Cardinality(active) -> Tenants]
  BY DEF ActiveLists
<1>3. QED
  BY <1>1, <1>2

LEMMA InitIInv == Init => IInv
<1> SUFFICES ASSUME Init PROVE IInv
  OBVIOUS
<1>1. tenants \in Seq(Tenants)
  BY ActiveListType DEF Init
<1>2. NoTenant \notin Tenants
  BY TenantsAssumption DEF NoTenant
<1>3. TypeOK
  <2>1. <<>> \in Seq(Tenants) /\ active \subseteq Tenants
    BY DEF Init
  <2>2. 0 \in 0..MaxPending /\ 0 \in 0..MaxChanges /\ 0 \in 0..MaxFaults
    BY BoundsAssumption
  <2>3. pending \in [Tenants -> 0..MaxPending]
    BY <2>2 DEF Init
  <2>4. /\ worker \in [Workers -> {"receiving", "working", "settled", "returned"}]
        /\ job \in [Workers -> Tenants \union {NoTenant}]
    BY DEF Init
  <2>5. QED
    BY <1>1, <2>1, <2>2, <2>3, <2>4 DEF Init, TypeOK
<1>4. QED
  BY <1>2, <1>3 DEF Init, IInv

LEMMA TypeStep == ASSUME IInv, [Next]_vars PROVE TypeOK'
<1> USE DEF IInv, TypeOK, database, pool
<1>1. ASSUME NEW t \in Tenants, Submit(t) PROVE TypeOK'
  BY <1>1, BoundsAssumption DEF Submit
<1>2. ASSUME NEW t \in Tenants, ChangeStatus(t) PROVE TypeOK'
  BY <1>2, BoundsAssumption DEF ChangeStatus
<1>3. CASE Signal
  BY <1>3 DEF Signal
<1>4. CASE Refresh
  BY <1>4, ActiveListType DEF Refresh
<1>5. CASE RefresherReturns
  BY <1>5 DEF RefresherReturns
<1>6. CASE Dispatch
  BY <1>6 DEF Dispatch
<1>7. CASE Enqueue
  BY <1>7 DEF Enqueue
<1>8. CASE EndDispatch
  BY <1>8 DEF EndDispatch
<1>9. CASE DispatcherReturns
  BY <1>9 DEF DispatcherReturns
<1>10. ASSUME NEW w \in Workers, Receive(w) PROVE TypeOK'
  BY <1>10 DEF Receive
<1>11. ASSUME NEW w \in Workers, Settle(w) PROVE TypeOK'
  <2>1. job[w] \in Tenants /\ pending[job[w]] - 1 \in 0..MaxPending
    BY <1>11, BoundsAssumption DEF Settle
  <2>2. QED
    BY <1>11, <2>1 DEF Settle
<1>12. ASSUME NEW w \in Workers, EndJob(w) PROVE TypeOK'
  <2>1. faults' \in 0..MaxFaults
    BY <1>12, BoundsAssumption DEF EndJob
  <2>2. QED
    BY <1>12, <2>1 DEF EndJob
<1>13. ASSUME NEW w \in Workers, WorkerReturns(w) PROVE TypeOK'
  BY <1>13 DEF WorkerReturns
<1>14. CASE RunReturns
  BY <1>14 DEF RunReturns
<1>15. CASE UNCHANGED vars
  BY <1>15 DEF vars
<1>16. QED
  BY <1>1, <1>2, <1>3, <1>4, <1>5, <1>6, <1>7, <1>8, <1>9, <1>10, <1>11, <1>12,
     <1>13, <1>14, <1>15 DEF Next, RefreshLoop, DispatchLoop, WorkerLoop

\* Who has returned has left nothing behind.
LEMMA ReturnStep == ASSUME IInv, [Next]_vars PROVE IInv'
<1> USE DEF database, pool
<1>1. TypeOK'
  BY TypeStep
<1>2. NoTenant \notin Tenants
  BY TenantsAssumption DEF NoTenant
<1>3. CASE UNCHANGED <<dispatcher, closed, worker, job, jobs, stopped>>
  BY <1>1, <1>3 DEF IInv
<1>4. CASE Enqueue
  BY <1>1, <1>4 DEF Enqueue, IInv
<1>5. CASE Dispatch \/ EndDispatch \/ DispatcherReturns
  BY <1>1, <1>5 DEF Dispatch, EndDispatch, DispatcherReturns, IInv
<1>6. ASSUME NEW w \in Workers, Receive(w) PROVE IInv'
  <2>1. Head(jobs) \in Tenants
    BY <1>6 DEF Receive, IInv, TypeOK
  <2>2. worker'[w] = "working" /\ job'[w] # NoTenant
    BY <1>2, <1>6, <2>1 DEF Receive, IInv, TypeOK
  <2>3. QED
    BY <1>1, <1>6, <2>2 DEF Receive, IInv, TypeOK
<1>7. ASSUME NEW w \in Workers, Settle(w) \/ EndJob(w) \/ WorkerReturns(w)
      PROVE  IInv'
  BY <1>1, <1>7 DEF Settle, EndJob, WorkerReturns, IInv, TypeOK
<1>8. CASE RunReturns
  BY <1>1, <1>8 DEF RunReturns, IInv
<1>9. QED
  BY <1>3, <1>4, <1>5, <1>6, <1>7, <1>8
  DEF Next, RefreshLoop, DispatchLoop, WorkerLoop, Submit, ChangeStatus, Signal,
      Refresh, RefresherReturns, vars

\* The inductive invariant holds in every reachable state.
THEOREM Invariance == Spec => []IInv
BY InitIInv, ReturnStep, PTL DEF Spec

\* The queue holds tenants, every job in a worker's hands is of a tenant, and
\* no tenant's pending count leaves 0..MaxPending (a settled job was pending).
THEOREM TypeCorrect == Spec => []TypeOK
<1>1. IInv => TypeOK
  BY DEF IInv
<1>2. QED
  BY <1>1, Invariance, PTL

\* run returns only when every enqueued job was taken and finished.
THEOREM Graceful == Spec => []GracefulStop
<1>1. IInv => GracefulStop
  BY WorkersAssumption DEF IInv, GracefulStop
<1>2. QED
  BY <1>1, Invariance, PTL

\* The channel only shrinks once it is closed.
THEOREM NoPanic == Spec => NoSendAfterClose
<1> DEFINE Shrinks == closed => Len(jobs') <= Len(jobs)
<1>1. IInv /\ [Next]_vars => [Shrinks]_vars
  <2> SUFFICES ASSUME IInv, Next PROVE Shrinks
    OBVIOUS
  <2>1. jobs \in Seq(Tenants) /\ (closed => dispatcher = "returned")
    BY DEF IInv, TypeOK
  <2>2. CASE UNCHANGED jobs
    BY <2>1, <2>2
  <2>3. CASE Enqueue
    BY <2>1, <2>3 DEF Enqueue
  <2>4. ASSUME NEW w \in Workers, Receive(w) PROVE Shrinks
    BY <2>1, <2>4 DEF Receive
  <2>5. QED
    BY <2>2, <2>3, <2>4
    DEF Next, RefreshLoop, DispatchLoop, WorkerLoop, Submit, ChangeStatus, Signal,
        Refresh, RefresherReturns, Dispatch, EndDispatch, DispatcherReturns,
        Settle, EndJob, WorkerReturns, RunReturns
<1>2. QED
  BY <1>1, Invariance, PTL DEF Spec, NoSendAfterClose
=============================================================================
