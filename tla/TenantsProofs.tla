--------------------------- MODULE TenantsProofs ---------------------------
(***************************************************************************)
(* Registrations share no code and leave whole tenants, and calls of the   *)
(* API are answered for a state their tenant was in, for any number of     *)
(* requests, calls, faults and changes by the operator.                    *)
(***************************************************************************)
EXTENDS Tenants, TLAPS

LEMMA InitIInv == Init => IInv
<1> SUFFICES ASSUME Init PROVE IInv
  OBVIOUS
<1> USE DEF Init
<1>1. TypeOK
  <2>1. NoTenant \in Tenant
    BY DEF NoTenant, Tenant, ConfigKeys
  <2>2. 0 \in 0..MaxChanges /\ 0 \in 0..MaxFaults
    BY BoundsAssumption
  <2>3. QED
    BY <2>1, <2>2 DEF TypeOK, Steps
<1>2. \A r \in Requests : ~Open(r) /\ ~Visible(r) /\ pc[r] = "new" /\ answer[r] = 0
  BY DEF Open, Visible, NoTenant
<1>3. Progress
  BY <1>2 DEF Progress, InTransaction
<1>4. Alone /\ OneTenantPerCode /\ WholeTenants /\ AnswersHold
  BY <1>2 DEF Alone, OneTenantPerCode, WholeTenants, AnswersHold
<1>5. Witnessed /\ CallsAreExplained
  BY DEF Witnessed, CallsAreExplained
<1>6. QED
  BY <1>1, <1>3, <1>4, <1>5 DEF IInv

-----------------------------------------------------------------------------
(* Types.                                                                  *)

\* An answer ends a registration and empties its transaction.
LEMMA AnswerType ==
    ASSUME TypeOK, NEW r \in Requests, NEW status \in {201, 400, 409, 500},
           Answer(r, status)
    PROVE  /\ answer' \in [Requests -> {0, 201, 400, 409, 500}]
           /\ tx' \in [Requests -> Tenant] /\ pc' \in [Requests -> Steps]
<1>1. NoTenant \in Tenant /\ "done" \in Steps
  BY DEF NoTenant, Tenant, ConfigKeys, Steps
<1>2. QED
  BY <1>1 DEF TypeOK, Answer, Goto

LEMMA FaultType == ASSUME TypeOK, Fault PROVE faults' \in 0..MaxFaults
BY BoundsAssumption DEF TypeOK, Fault

\* What a registration writes in its transaction is a tenant.
LEMMA WrittenType ==
    ASSUME NEW tenant \in Tenant
    PROVE  /\ [tenant EXCEPT !.status = "active"] \in Tenant
           /\ [tenant EXCEPT !.status = "suspended"] \in Tenant
           /\ [tenant EXCEPT !.schema = TRUE] \in Tenant
           /\ [tenant EXCEPT !.key = "active"] \in Tenant
           /\ [tenant EXCEPT !.key = "revoked"] \in Tenant
           /\ \A k \in ConfigKeys : [tenant EXCEPT !.configs = @ \union {k}] \in Tenant
BY DEF Tenant

LEMMA GoodType ==
    ASSUME NEW tenant \in Tenant, tenant.status # "none"
    PROVE  Good(tenant) \in {"active", "suspended", "refused"}
BY DEF Tenant, Good

LEMMA TypeStep == ASSUME IInv, [Next]_vars PROVE TypeOK'
<1> USE DEF IInv
<1>1. ASSUME NEW r \in Requests, Receive(r) PROVE TypeOK'
  <2>. UNCHANGED <<tenants, code, call, changes, faults>>
    BY <1>1 DEF Receive
  <2>1. CASE Answer(r, 400) /\ UNCHANGED hook
    BY <2>1, AnswerType DEF TypeOK, call
  <2>2. ASSUME NEW enabled \in {"absent", "wrong", "off", "on"},
               NEW url \in {"absent", "wrong", "given"},
               ValidHook(enabled, url),
               hook' = [hook EXCEPT ![r] = IF enabled # "on" THEN "off"
                                           ELSE IF url = "given" THEN "on"
                                           ELSE "without address"],
               Goto(r, "insert"), UNCHANGED <<tx, answer>>
        PROVE  TypeOK'
    <3>1. hook' \in [Requests -> {"off", "on"}]
      BY <2>2 DEF ValidHook, TypeOK
    <3>2. pc' \in [Requests -> Steps]
      BY <2>2 DEF Goto, TypeOK, Steps
    <3>3. QED
      BY <2>2, <3>1, <3>2 DEF TypeOK, call
  <2>3. QED
    BY <1>1, <2>1, <2>2 DEF Receive
<1>2. ASSUME NEW r \in Requests, InsertAccount(r) PROVE TypeOK'
  <2>1. CASE Answer(r, 409)
    BY <1>2, <2>1, AnswerType DEF InsertAccount, TypeOK, call
  <2>2. CASE /\ tx' = [tx EXCEPT ![r].status = "active"]
             /\ Goto(r, "migrate") /\ UNCHANGED answer
    <3>1. tx' \in [Requests -> Tenant]
      <4>1. tx[r] \in Tenant
        BY DEF TypeOK
      <4>2. [tx[r] EXCEPT !.status = "active"] \in Tenant
        BY <4>1, WrittenType
      <4>3. QED
        BY <2>2, <4>2 DEF TypeOK
    <3>2. pc' \in [Requests -> Steps]
      BY <2>2 DEF Goto, TypeOK, Steps, InTransaction
    <3>3. QED
      BY <1>2, <2>2, <3>1, <3>2 DEF InsertAccount, TypeOK, call
  <2>3. QED
    BY <1>2, <2>1, <2>2 DEF InsertAccount
<1>3. ASSUME NEW r \in Requests, Migrate(r) PROVE TypeOK'
  <2>1. tx' \in [Requests -> Tenant]
    <3>1. tx[r] \in Tenant
      BY DEF TypeOK
    <3>2. [tx[r] EXCEPT !.schema = TRUE] \in Tenant
      BY <3>1, WrittenType
    <3>3. QED
      BY <1>3, <3>2 DEF Migrate, TypeOK
  <2>2. pc' \in [Requests -> Steps]
    BY <1>3 DEF Migrate, Goto, TypeOK, Steps, InTransaction
  <2>3. QED
    BY <1>3, <2>1, <2>2 DEF Migrate, TypeOK, call
<1>4. ASSUME NEW r \in Requests, Configure(r) PROVE TypeOK'
  <2>1. tx' \in [Requests -> Tenant]
    <3>1. tx[r] \in Tenant
      BY DEF TypeOK
    <3>2. PICK k \in ConfigKeys : tx' = [tx EXCEPT ![r].configs = @ \union {k}]
      BY <1>4 DEF Configure
    <3>3. [tx[r] EXCEPT !.configs = @ \union {k}] \in Tenant
      BY <3>1, WrittenType
    <3>4. QED
      BY <3>2, <3>3 DEF TypeOK
  <2>2. pc' \in [Requests -> Steps]
    BY <1>4 DEF Configure, Goto, TypeOK, Steps, InTransaction
  <2>3. QED
    BY <1>4, <2>1, <2>2 DEF Configure, TypeOK, call
<1>5. ASSUME NEW r \in Requests, InsertKey(r) PROVE TypeOK'
  <2>1. tx' \in [Requests -> Tenant]
    <3>1. tx[r] \in Tenant
      BY DEF TypeOK
    <3>2. [tx[r] EXCEPT !.key = "active"] \in Tenant
      BY <3>1, WrittenType
    <3>3. QED
      BY <1>5, <3>2 DEF InsertKey, TypeOK
  <2>2. pc' \in [Requests -> Steps]
    BY <1>5 DEF InsertKey, Goto, TypeOK, Steps, InTransaction
  <2>3. QED
    BY <1>5, <2>1, <2>2 DEF InsertKey, TypeOK, call
<1>6. ASSUME NEW r \in Requests, Install(r) PROVE tenants' \in [Requests -> Tenant]
  BY <1>6 DEF Install, TypeOK
<1>7. ASSUME NEW r \in Requests, Commit(r) PROVE TypeOK'
  BY <1>6, <1>7, AnswerType DEF Commit, TypeOK, call
<1>8. ASSUME NEW r \in Requests, Abort(r) PROVE TypeOK'
  BY <1>8, AnswerType, FaultType DEF Abort, TypeOK, call
<1>9. ASSUME NEW r \in Requests, CommitLost(r) PROVE TypeOK'
  BY <1>6, <1>9, AnswerType, FaultType DEF CommitLost, TypeOK, call
<1>10. ASSUME NEW r \in Requests, Die(r) PROVE TypeOK'
  <2>1. NoTenant \in Tenant /\ "gone" \in Steps
    BY DEF NoTenant, Tenant, ConfigKeys, Steps
  <2>2. tx' \in [Requests -> Tenant] /\ pc' \in [Requests -> Steps]
    BY <1>10, <2>1 DEF Die, Goto, TypeOK
  <2>3. tenants' \in [Requests -> Tenant]
    BY <1>6, <1>10 DEF Die, TypeOK
  <2>4. QED
    BY <1>10, <2>2, <2>3, FaultType DEF Die, TypeOK, call
<1>11. ASSUME NEW t \in Requests, Operate(t) PROVE TypeOK'
  <2>1. PICK tenant \in Tenant : tenant.status # "none" /\ Change(t, tenant)
    <3>1. tenants[t] \in Tenant
      BY DEF TypeOK
    <3>2. CASE \E status \in {"active", "suspended"} :
                 Change(t, [tenants[t] EXCEPT !.status = status])
      <4>1. PICK status \in {"active", "suspended"} :
              Change(t, [tenants[t] EXCEPT !.status = status])
        BY <3>2
      <4>2. [tenants[t] EXCEPT !.status = status] \in Tenant
        BY <3>1, WrittenType
      <4>3. [tenants[t] EXCEPT !.status = status].status # "none"
        BY <3>1 DEF Tenant
      <4>4. QED
        BY <4>1, <4>2, <4>3
    <3>3. CASE Change(t, [tenants[t] EXCEPT !.key = "revoked"])
      <4>1. [tenants[t] EXCEPT !.key = "revoked"] \in Tenant
        BY <3>1, WrittenType
      <4>2. [tenants[t] EXCEPT !.key = "revoked"].status # "none"
        BY <3>1, <3>3 DEF Change, Tenant
      <4>3. QED
        BY <3>3, <4>1, <4>2
    <3>4. QED
      BY <1>11, <3>2, <3>3 DEF Operate
  <2>2. tenants' \in [Requests -> Tenant]
    BY <2>1 DEF Change, TypeOK
  <2>3. during' \in [Calls -> SUBSET {"active", "suspended", "refused"}]
    BY <2>1, GoodType DEF Change, TypeOK
  <2>4. changes' \in 0..MaxChanges
    BY <2>1, BoundsAssumption DEF Change, TypeOK
  <2>5. QED
    BY <2>1, <2>2, <2>3, <2>4 DEF Change, TypeOK, registration
<1>12. ASSUME NEW c \in Calls, Arrive(c) PROVE TypeOK'
  <2>1. PICK t \in Requests \union {Nobody} :
          /\ t # Nobody => answer[t] = 201
          /\ target' = [target EXCEPT ![c] = t]
          /\ during' = [during EXCEPT ![c] = {KeyOf(t)}]
    BY <1>12 DEF Arrive
  <2>2. KeyOf(t) \in {"active", "suspended", "refused"}
    <3>1. CASE t = Nobody
      BY <3>1 DEF KeyOf
    <3>2. CASE t # Nobody
      <4>1. t \in Requests /\ tenants[t].status # "none" /\ tenants[t] \in Tenant
        BY <2>1, <3>2 DEF AnswersHold, Visible, TypeOK
      <4>2. QED
        BY <3>2, <4>1, GoodType DEF KeyOf
    <3>3. QED
      BY <3>1, <3>2
  <2>3. QED
    BY <1>12, <2>1, <2>2 DEF Arrive, TypeOK, registration
<1>13. ASSUME NEW c \in Calls, Lookup(c) PROVE TypeOK'
  BY <1>13 DEF Lookup, Respond, TypeOK, registration
<1>14. ASSUME NEW c \in Calls, LookupFails(c) PROVE TypeOK'
  BY <1>14, FaultType DEF LookupFails, Respond, TypeOK, registration
<1>15. ASSUME NEW c \in Calls, HandleCall(c) PROVE TypeOK'
  BY <1>15 DEF HandleCall, Respond, TypeOK, registration
<1>16. CASE UNCHANGED vars
  BY <1>16 DEF vars, registration, call, TypeOK
<1>17. QED
  BY <1>1, <1>2, <1>3, <1>4, <1>5, <1>7, <1>8, <1>9, <1>10, <1>11, <1>12, <1>13,
     <1>14, <1>15, <1>16 DEF Next, Register

-----------------------------------------------------------------------------
(* Registrations.                                                          *)

\* A registration that has not been answered goes on to its next statement,
\* or ends.
Goes(r) ==
    \/ tx'[r] = tx[r] /\ pc[r] = "new" /\ pc'[r] = "insert"
    \/ /\ pc[r] = "insert" /\ pc'[r] = "migrate" /\ ~Violates(r) /\ ~Waits(r)
       /\ tx'[r] = [tx[r] EXCEPT !.status = "active"]
    \/ /\ pc[r] = "migrate" /\ pc'[r] = "configure"
       /\ tx'[r] = [tx[r] EXCEPT !.schema = TRUE]
    \/ /\ pc[r] = "configure" /\ pc'[r] \in {"configure", "key"}
       /\ \E k \in ConfigKeys : tx'[r] = [tx[r] EXCEPT !.configs = @ \union {k}]
       /\ pc'[r] = "key" => tx'[r].configs = ConfigKeys
    \/ /\ pc[r] = "key" /\ pc'[r] = "commit"
       /\ tx'[r] = [tx[r] EXCEPT !.key = "active"]

Ends(r) ==
    /\ tx'[r] = NoTenant
    /\ pc'[r] \in {"done", "gone"}
    /\ answer'[r] = 201 => tenants' = [tenants EXCEPT ![r] = tx[r]] /\ pc[r] = "commit"
    /\ answer'[r] = 409 => Violates(r) /\ pc[r] = "insert"
    /\ answer'[r] \in {400, 409} => UNCHANGED tenants

\* What a step of one registration does to its transaction, its place and its
\* answer; the others, and every other step, leave theirs alone.
Moves(r) ==
    /\ tx' = [tx EXCEPT ![r] = tx'[r]]
    /\ pc' = [pc EXCEPT ![r] = pc'[r]]
    /\ answer' = [answer EXCEPT ![r] = answer'[r]]
    /\ Early(r)
    /\ Ends(r) \/ (Goes(r) /\ UNCHANGED <<tenants, answer>>)

LEMMA RegistrationSteps ==
    ASSUME IInv, [Next]_vars
    PROVE  UNCHANGED <<tx, pc, answer>> \/ \E r \in Requests : Moves(r)
<1> USE DEF IInv
<1>1. ASSUME NEW r \in Requests, NEW status, Answer(r, status), Early(r),
             status = 201 => tenants' = [tenants EXCEPT ![r] = tx[r]] /\ pc[r] = "commit",
             status = 409 => Violates(r) /\ pc[r] = "insert",
             status \in {400, 409} => UNCHANGED tenants
      PROVE  Moves(r)
  <2>1. /\ tx' = [tx EXCEPT ![r] = NoTenant] /\ tx'[r] = NoTenant
        /\ pc' = [pc EXCEPT ![r] = "done"] /\ pc'[r] = "done"
        /\ answer' = [answer EXCEPT ![r] = status] /\ answer'[r] = status
    BY <1>1 DEF Answer, Goto, TypeOK
  <2>2. Ends(r)
    BY <1>1, <2>1 DEF Ends
  <2>3. QED
    BY <1>1, <2>1, <2>2 DEF Moves
<1>2. ASSUME NEW r \in Requests, Receive(r) PROVE Moves(r)
  <2>1. Early(r) /\ UNCHANGED tenants /\ pc[r] = "new"
    BY <1>2 DEF Receive, Early
  <2>2. CASE Answer(r, 400)
    BY <1>1, <2>1, <2>2
  <2>3. CASE Goto(r, "insert") /\ UNCHANGED <<tx, answer>>
    BY <2>1, <2>3 DEF Goto, Moves, Goes, TypeOK
  <2>4. QED
    BY <1>2, <2>2, <2>3 DEF Receive
<1>3. ASSUME NEW r \in Requests, InsertAccount(r) PROVE Moves(r)
  <2>1. Early(r) /\ UNCHANGED tenants /\ pc[r] = "insert" /\ ~Waits(r)
    BY <1>3 DEF InsertAccount, Early
  <2>2. CASE Violates(r) /\ Answer(r, 409)
    BY <1>1, <2>1, <2>2
  <2>3. CASE /\ ~Violates(r) /\ tx' = [tx EXCEPT ![r].status = "active"]
             /\ Goto(r, "migrate") /\ UNCHANGED answer
    BY <2>1, <2>3 DEF Goto, Moves, Goes, TypeOK
  <2>4. QED
    BY <1>3, <2>2, <2>3 DEF InsertAccount
<1>4. ASSUME NEW r \in Requests, Migrate(r) PROVE Moves(r)
  BY <1>4 DEF Migrate, Goto, Moves, Goes, TypeOK, Early, InTransaction
<1>5. ASSUME NEW r \in Requests, Configure(r) PROVE Moves(r)
  <2>1. Early(r) /\ pc[r] = "configure" /\ UNCHANGED <<tenants, answer>>
    BY <1>5 DEF Configure, Early, InTransaction
  <2>2. PICK k \in ConfigKeys : tx' = [tx EXCEPT ![r].configs = @ \union {k}]
    BY <1>5 DEF Configure
  <2>3. tx'[r] = [tx[r] EXCEPT !.configs = @ \union {k}] /\ tx' = [tx EXCEPT ![r] = tx'[r]]
    BY <2>2 DEF TypeOK
  <2>4. /\ pc' = [pc EXCEPT ![r] = pc'[r]] /\ pc'[r] \in {"configure", "key"}
        /\ pc'[r] = "key" => tx'[r].configs = ConfigKeys
    BY <1>5 DEF Configure, Goto, TypeOK
  <2>5. QED
    BY <2>1, <2>2, <2>3, <2>4 DEF Moves, Goes, TypeOK
<1>6. ASSUME NEW r \in Requests, InsertKey(r) PROVE Moves(r)
  BY <1>6 DEF InsertKey, Goto, Moves, Goes, TypeOK, Early, InTransaction
<1>7. ASSUME NEW r \in Requests, Commit(r) PROVE Moves(r)
  <2>1. /\ Early(r) /\ pc[r] = "commit" /\ tenants' = [tenants EXCEPT ![r] = tx[r]]
        /\ Answer(r, 201)
    BY <1>7 DEF Commit, Install, Early, InTransaction
  <2>2. /\ tx' = [tx EXCEPT ![r] = NoTenant] /\ tx'[r] = NoTenant
        /\ pc' = [pc EXCEPT ![r] = "done"] /\ pc'[r] = "done"
        /\ answer' = [answer EXCEPT ![r] = 201] /\ answer'[r] = 201
    BY <2>1 DEF Answer, Goto, TypeOK
  <2>3. Ends(r)
    BY <2>1, <2>2 DEF Ends
  <2>4. QED
    BY <2>1, <2>2, <2>3 DEF Moves
<1>8. ASSUME NEW r \in Requests, Abort(r) \/ CommitLost(r) PROVE Moves(r)
  <2>1. Early(r) /\ Answer(r, 500)
    BY <1>8 DEF Abort, CommitLost, Early, InTransaction
  <2>2. QED
    BY <1>1, <2>1
<1>9. ASSUME NEW r \in Requests, Die(r) PROVE Moves(r)
  <2>1. Early(r) /\ answer[r] = 0 /\ UNCHANGED answer
    BY <1>9 DEF Die, Early, Progress
  <2>2. /\ tx' = [tx EXCEPT ![r] = NoTenant] /\ tx'[r] = NoTenant
        /\ pc' = [pc EXCEPT ![r] = "gone"] /\ pc'[r] = "gone"
        /\ answer' = [answer EXCEPT ![r] = answer'[r]] /\ answer'[r] = 0
    BY <1>9, <2>1 DEF Die, Goto, TypeOK
  <2>3. Ends(r)
    BY <2>1, <2>2 DEF Ends
  <2>4. QED
    BY <2>1, <2>2, <2>3 DEF Moves
<1>10. ASSUME NEW t \in Requests, Operate(t) PROVE UNCHANGED <<tx, pc, answer>>
  BY <1>10 DEF Operate, Change, registration
<1>11. ASSUME NEW c \in Calls, Arrive(c) \/ Lookup(c) \/ LookupFails(c) \/ HandleCall(c)
       PROVE  UNCHANGED <<tx, pc, answer>>
  BY <1>11 DEF Arrive, Lookup, LookupFails, HandleCall, registration
<1>12. CASE UNCHANGED vars
  BY <1>12 DEF vars, registration
<1>13. QED
  BY <1>2, <1>3, <1>4, <1>5, <1>6, <1>7, <1>8, <1>9, <1>10, <1>11, <1>12 DEF Next, Register

LEMMA Others ==
    ASSUME IInv, NEW r \in Requests, NEW q \in Requests, Moves(r), q # r
    PROVE  tx'[q] = tx[q] /\ pc'[q] = pc[q] /\ answer'[q] = answer[q]
BY DEF IInv, TypeOK, Moves

\* What does not move.
LEMMA Still ==
    ASSUME IInv, [Next]_vars, NEW q \in Requests, ~Moves(q)
    PROVE  tx'[q] = tx[q] /\ pc'[q] = pc[q] /\ answer'[q] = answer[q]
BY RegistrationSteps, Others

\* A whole tenant.
Whole(tenant) == /\ tenant.status # "none" /\ tenant.schema
                 /\ tenant.configs = ConfigKeys /\ tenant.key # "none"

\* Tenants change by the commit of a whole one, or by an operator who keeps
\* it whole; the codes never change.
LEMMA StoreSteps ==
    ASSUME IInv, [Next]_vars
    PROVE  /\ UNCHANGED code
           /\ \/ UNCHANGED tenants
              \/ \E r \in Requests : /\ pc[r] = "commit" /\ Whole(tx[r])
                                     /\ pc'[r] \in {"done", "gone"}
                                     /\ tenants' = [tenants EXCEPT ![r] = tx[r]]
              \/ \E t \in Requests : \E tenant : /\ Visible(t) /\ Whole(tenant)
                                                 /\ tenants' = [tenants EXCEPT ![t] = tenant]
<1> USE DEF IInv
<1>1. ASSUME NEW r \in Requests, Commit(r) \/ CommitLost(r) \/ Die(r)
      PROVE  /\ UNCHANGED code
             /\ \/ UNCHANGED tenants
                \/ /\ pc[r] = "commit" /\ Whole(tx[r]) /\ pc'[r] \in {"done", "gone"}
                   /\ tenants' = [tenants EXCEPT ![r] = tx[r]]
  <2>1. pc[r] = "commit" => Whole(tx[r])
    BY DEF Progress, Whole, Open, InTransaction
  <2>2. UNCHANGED code /\ pc'[r] \in {"done", "gone"}
    BY <1>1 DEF Commit, CommitLost, Die, Answer, Goto, TypeOK
  <2>3. QED
    BY <1>1, <2>1, <2>2 DEF Commit, CommitLost, Die, Install
<1>2. ASSUME NEW t \in Requests, Operate(t)
      PROVE  /\ UNCHANGED code
             /\ \E tenant : /\ Visible(t) /\ Whole(tenant)
                            /\ tenants' = [tenants EXCEPT ![t] = tenant]
  <2>1. tenants[t] \in Tenant
    BY DEF TypeOK
  <2>2. tenants[t].status # "none" /\ UNCHANGED code
    BY <1>2 DEF Operate, Change, registration
  <2>3. Whole(tenants[t])
    BY <2>2 DEF WholeTenants, Whole, Visible
  <2>4. /\ \A status \in {"active", "suspended"} : Whole([tenants[t] EXCEPT !.status = status])
        /\ Whole([tenants[t] EXCEPT !.key = "revoked"])
    BY <2>1, <2>3 DEF Whole, Tenant
  <2>5. QED
    BY <1>2, <2>2, <2>4 DEF Operate, Change, Visible
<1>3. ASSUME NEW r \in Requests, \/ Receive(r) \/ InsertAccount(r) \/ Migrate(r)
                                 \/ Configure(r) \/ InsertKey(r) \/ Abort(r)
      PROVE  UNCHANGED <<code, tenants>>
  BY <1>3 DEF Receive, InsertAccount, Migrate, Configure, InsertKey, Abort
<1>4. ASSUME NEW c \in Calls, Arrive(c) \/ Lookup(c) \/ LookupFails(c) \/ HandleCall(c)
      PROVE  UNCHANGED <<code, tenants>>
  BY <1>4 DEF Arrive, Lookup, LookupFails, HandleCall, registration
<1>5. CASE UNCHANGED vars
  BY <1>5 DEF vars, registration
<1>6. QED
  BY <1>1, <1>2, <1>3, <1>4, <1>5 DEF Next, Register

LEMMA ProgressStep == ASSUME IInv, [Next]_vars PROVE Progress'
<1> USE DEF IInv
<1> SUFFICES ASSUME NEW q \in Requests
             PROVE  /\ Open(q)' <=> pc'[q] \in InTransaction
                    /\ Early(q)' => ~Visible(q)' /\ answer'[q] = 0
                    /\ pc'[q] \in {"configure", "key", "commit"} => tx'[q].schema
                    /\ pc'[q] \in {"key", "commit"} => tx'[q].configs = ConfigKeys
                    /\ pc'[q] = "commit" => tx'[q].key = "active"
  BY DEF Progress
<1>1. /\ Open(q) <=> pc[q] \in InTransaction
      /\ Early(q) => ~Visible(q) /\ answer[q] = 0
      /\ pc[q] \in {"configure", "key", "commit"} => tx[q].schema
      /\ pc[q] \in {"key", "commit"} => tx[q].configs = ConfigKeys
      /\ pc[q] = "commit" => tx[q].key = "active"
  BY DEF Progress
<1>2. Early(q)' => Early(q) /\ answer'[q] = answer[q]
  <2>1. CASE Moves(q)
    BY <2>1 DEF Moves, Ends, Early, InTransaction
  <2>2. CASE ~Moves(q)
    BY <2>2, Still DEF Early
  <2>3. QED
    BY <2>1, <2>2
<1>3. Early(q)' => ~Visible(q)'
  <2> SUFFICES ASSUME Early(q)' PROVE ~Visible(q)'
    OBVIOUS
  <2>1. ~Visible(q)
    BY <1>1, <1>2
  <2>2. CASE UNCHANGED tenants
    BY <2>1, <2>2 DEF Visible
  <2>3. ASSUME NEW r \in Requests, pc'[r] \in {"done", "gone"},
               tenants' = [tenants EXCEPT ![r] = tx[r]]
        PROVE  ~Visible(q)'
    BY <2>1, <2>3 DEF Visible, Early, InTransaction, TypeOK
  <2>4. ASSUME NEW t \in Requests, NEW tenant, Visible(t),
               tenants' = [tenants EXCEPT ![t] = tenant]
        PROVE  ~Visible(q)'
    BY <2>1, <2>4 DEF Visible, TypeOK
  <2>5. QED
    BY <2>2, <2>3, <2>4, StoreSteps
<1>4. CASE ~Moves(q)
  BY <1>1, <1>2, <1>3, <1>4, Still DEF Open
<1>5. CASE Moves(q) /\ Ends(q)
  BY <1>5 DEF Ends, Open, NoTenant, Early, InTransaction
<1>6. CASE Moves(q) /\ Goes(q)
  <2>1. tx[q] \in Tenant
    BY DEF TypeOK
  <2>2. Open(q)' <=> pc'[q] \in InTransaction
    BY <1>1, <1>6, <2>1 DEF Goes, Open, InTransaction, Tenant
  <2>3. /\ pc'[q] \in {"configure", "key", "commit"} => tx'[q].schema
        /\ pc'[q] \in {"key", "commit"} => tx'[q].configs = ConfigKeys
        /\ pc'[q] = "commit" => tx'[q].key = "active"
    BY <1>1, <1>6, <2>1 DEF Goes, Tenant
  <2>4. QED
    BY <1>1, <1>2, <1>3, <2>2, <2>3
<1>7. QED
  BY <1>4, <1>5, <1>6 DEF Moves

\* The unique index: a row is inserted only when there is no other one.
LEMMA AloneStep == ASSUME IInv, [Next]_vars PROVE Alone'
<1> USE DEF IInv
<1> SUFFICES ASSUME NEW r \in Requests, NEW s \in Requests, Open(r)', Registers(r, s)'
             PROVE  ~Open(s)' /\ ~Visible(s)'
  BY DEF Alone
<1>1. Registers(r, s) /\ Registers(s, r) /\ r # s
  BY StoreSteps DEF Registers
<1>2. /\ ~Open(s)
      /\ ~Visible(s)
      /\ ~Open(r) => Moves(r)
  <2>1. CASE Open(r)
    BY <1>1, <2>1 DEF Alone
  <2>2. CASE ~Open(r)
    <3>1. Moves(r)
      BY <2>2, Still DEF Open
    <3>2. ~Violates(r) /\ ~Waits(r)
      BY <2>2, <3>1 DEF Moves, Goes, Ends, Open, NoTenant, Progress, InTransaction
    <3>3. QED
      BY <1>1, <3>1, <3>2 DEF Violates, Waits, Open, Visible
  <2>3. QED
    BY <2>1, <2>2
<1>3. ~Open(s)'
  <2>1. CASE Moves(s)
    <3>1. Open(r)
      BY <1>1, <2>1, Others DEF Open
    <3>2. Waits(s)
      BY <1>1, <3>1 DEF Waits, Open
    <3>3. tx[s] \in Tenant /\ pc[s] \notin InTransaction
      BY <1>2 DEF TypeOK, Progress
    <3>4. QED
      BY <1>2, <2>1, <3>2, <3>3 DEF Moves, Ends, Goes, Open, NoTenant, InTransaction
  <2>2. CASE ~Moves(s)
    BY <1>2, <2>2, Still DEF Open
  <2>3. QED
    BY <2>1, <2>2
<1>4. ~Visible(s)'
  BY <1>2, StoreSteps DEF Progress, Visible, TypeOK, InTransaction
<1>5. QED
  BY <1>3, <1>4

LEMMA CodeStep == ASSUME IInv, [Next]_vars PROVE OneTenantPerCode'
<1> USE DEF IInv
<1> SUFFICES ASSUME NEW r \in Requests, NEW s \in Requests, Visible(r)', Visible(s)',
                    (code[r] = code[s])', r # s
             PROVE  FALSE
  BY DEF OneTenantPerCode
<1>1. code[r] = code[s]
  BY StoreSteps
<1>2. ~Visible(r) \/ ~Visible(s)
  BY <1>1 DEF OneTenantPerCode
<1>3. PICK q \in Requests : pc[q] = "commit" /\ tenants' = [tenants EXCEPT ![q] = tx[q]]
  BY <1>2, StoreSteps DEF Visible, TypeOK
<1>4. Open(q)
  BY <1>3 DEF Progress, InTransaction
<1>5. q \in {r, s} /\ (Visible(r) \/ Visible(s))
  BY <1>2, <1>3 DEF Visible, TypeOK
<1>6. QED
  BY <1>1, <1>3, <1>4, <1>5 DEF Alone, Registers, Visible, Progress, Early, InTransaction

LEMMA WholeStep == ASSUME IInv, [Next]_vars PROVE WholeTenants'
<1> USE DEF IInv
<1> SUFFICES ASSUME NEW q \in Requests, Visible(q)' PROVE Whole(tenants'[q])
  BY DEF WholeTenants, Whole
<1>1. Visible(q) => Whole(tenants[q])
  BY DEF WholeTenants, Whole, Visible
<1>2. QED
  BY <1>1, StoreSteps DEF Visible, TypeOK

LEMMA AnswersStep == ASSUME IInv, [Next]_vars PROVE AnswersHold'
<1> USE DEF IInv
<1>1. \A r \in Requests : Visible(r) => Visible(r)'
  BY StoreSteps DEF Visible, TypeOK, Whole
<1>2. \A r, s \in Requests : Registers(r, s)' <=> Registers(r, s)
  BY StoreSteps DEF Registers
<1>3. ASSUME NEW r \in Requests, ~Early(r), ~Visible(r) PROVE ~Visible(r)'
  BY <1>3, StoreSteps DEF Visible, TypeOK, Early, InTransaction
<1> SUFFICES ASSUME NEW r \in Requests
             PROVE  /\ answer'[r] = 201 => Visible(r)'
                    /\ answer'[r] = 409 =>
                         ~Visible(r)' /\ \E s \in Requests : Registers(r, s)' /\ Visible(s)'
                    /\ answer'[r] = 400 => ~Visible(r)'
  BY DEF AnswersHold
<1>4. CASE answer'[r] = answer[r]
  <2>1. CASE answer[r] \in {400, 409}
    <3>1. ~Early(r)
      BY <2>1 DEF Progress
    <3>2. QED
      BY <1>1, <1>2, <1>3, <1>4, <2>1, <3>1 DEF AnswersHold
  <2>2. CASE answer[r] \notin {400, 409}
    BY <1>1, <1>4, <2>2 DEF AnswersHold
  <2>3. QED
    BY <2>1, <2>2
<1>5. CASE answer'[r] # answer[r]
  <2>1. Moves(r)
    BY <1>5, Still
  <2>2. ~Visible(r) /\ answer[r] = 0
    BY <2>1 DEF Moves, Progress
  <2>3. answer'[r] = 201 => Visible(r)'
    BY <1>5, <2>1, <2>2 DEF Moves, Ends, Progress, Visible, Open, InTransaction, TypeOK
  <2>4. answer'[r] \in {400, 409} => UNCHANGED tenants
    BY <1>5, <2>1 DEF Moves, Ends
  <2>5. answer'[r] = 409 => Violates(r)
    BY <1>5, <2>1 DEF Moves, Ends
  <2>6. QED
    BY <1>2, <2>2, <2>3, <2>4, <2>5 DEF Violates, Visible
<1>6. QED
  BY <1>4, <1>5

-----------------------------------------------------------------------------
(* Calls.                                                                  *)

\* A registration makes a tenant that no call can name yet.
LEMMA KeysKept ==
    ASSUME IInv, NEW r \in Requests,
           Receive(r) \/ Register(r) \/ Abort(r) \/ CommitLost(r) \/ Die(r)
    PROVE  UNCHANGED call /\ \A t \in Requests : Visible(t) => tenants'[t] = tenants[t]
<1>1. CASE Receive(r) \/ InsertAccount(r) \/ Migrate(r) \/ Configure(r) \/ InsertKey(r) \/ Abort(r)
  BY <1>1 DEF Receive, InsertAccount, Migrate, Configure, InsertKey, Abort
<1>2. CASE Commit(r) \/ CommitLost(r) \/ Die(r)
  <2>1. UNCHANGED call
    BY <1>2 DEF Commit, CommitLost, Die
  <2>2. UNCHANGED tenants \/ (pc[r] = "commit" /\ tenants' = [tenants EXCEPT ![r] = tx[r]])
    BY <1>2 DEF Commit, CommitLost, Die, Install
  <2>3. pc[r] = "commit" => ~Visible(r)
    BY DEF IInv, Progress, Early, InTransaction
  <2>4. QED
    BY <2>1, <2>2, <2>3 DEF IInv, TypeOK
<1>3. QED
  BY <1>1, <1>2 DEF Register

\* What is known of one call.
Told(c) ==
    /\ target[c] # Nobody => Visible(target[c])
    /\ step[c] # "idle" => KeyOf(target[c]) \in during[c] /\ result[c] = 0
    /\ step[c] = "handle" => "active" \in during[c]
    /\ result[c] = 202 => "active" \in during[c]
    /\ result[c] = 403 => "suspended" \in during[c]
    /\ result[c] = 401 => "refused" \in during[c]

LEMMA ToldDef == (\A c \in Calls : Told(c)) <=> Witnessed /\ CallsAreExplained
BY DEF Told, Witnessed, CallsAreExplained

\* A call, and what it looks at, that stay as they are.
LEMMA ToldKept ==
    ASSUME IInv, NEW c \in Calls, step'[c] = step[c], target'[c] = target[c],
           result'[c] = result[c], during'[c] = during[c],
           target[c] # Nobody => tenants'[target[c]] = tenants[target[c]]
    PROVE  Told(c)'
<1>1. Told(c)
  BY ToldDef DEF IInv
<1>2. KeyOf(target[c])' = KeyOf(target[c])
  BY DEF KeyOf, Good
<1>3. target[c] # Nobody => Visible(target[c])'
  BY <1>1 DEF Told, Visible
<1>4. QED
  BY <1>1, <1>2, <1>3 DEF Told

LEMMA CallsStep == ASSUME IInv, [Next]_vars PROVE Witnessed' /\ CallsAreExplained'
<1> SUFFICES ASSUME NEW c \in Calls PROVE Told(c)'
  BY ToldDef DEF Witnessed, CallsAreExplained, Told
<1>1. Told(c) /\ target[c] \in Requests \union {Nobody}
  BY ToldDef DEF IInv, TypeOK
<1>2. ASSUME NEW r \in Requests,
             Receive(r) \/ Register(r) \/ Abort(r) \/ CommitLost(r) \/ Die(r)
      PROVE  Told(c)'
  BY <1>1, <1>2, KeysKept, ToldKept DEF call, Told
<1>3. ASSUME NEW t \in Requests, NEW tenant, Change(t, tenant), tenant.status # "none"
      PROVE  Told(c)'
  <2>1. /\ tenants' = [tenants EXCEPT ![t] = tenant] /\ UNCHANGED <<step, target, result>>
        /\ during'[c] = IF step[c] # "idle" /\ target[c] = t
                        THEN during[c] \union {Good(tenant)} ELSE during[c]
    BY <1>3 DEF Change
  <2>2. CASE target[c] # t
    <3>1. target[c] # Nobody => tenants'[target[c]] = tenants[target[c]]
      BY <1>1, <2>1, <2>2 DEF IInv, TypeOK
    <3>2. QED
      BY <2>1, <2>2, <3>1, ToldKept
  <2>3. CASE target[c] = t
    <3>1. tenants'[t] = tenant /\ t # Nobody
      BY <2>1, NobodyAssumption DEF IInv, TypeOK
    <3>2. KeyOf(target[c])' = Good(tenant) /\ Visible(target[c])'
      BY <1>3, <2>1, <2>3, <3>1 DEF KeyOf, Visible, Good
    <3>3. QED
      BY <1>1, <2>1, <2>3, <3>2 DEF Told
  <2>4. QED
    BY <2>2, <2>3
<1>4. ASSUME NEW t \in Requests, Operate(t) PROVE Told(c)'
  <2>1. tenants[t] \in Tenant /\ tenants[t].status # "none"
    BY <1>4 DEF Operate, Change, IInv, TypeOK
  <2>2. /\ \A status \in {"active", "suspended"} :
             [tenants[t] EXCEPT !.status = status].status # "none"
        /\ [tenants[t] EXCEPT !.key = "revoked"].status # "none"
    BY <2>1 DEF Tenant
  <2>3. QED
    BY <1>3, <1>4, <2>2 DEF Operate
<1>5. ASSUME NEW d \in Calls, Arrive(d) \/ Lookup(d) \/ LookupFails(d) \/ HandleCall(d)
      PROVE  Told(c)'
  <2>1. UNCHANGED tenants
    BY <1>5 DEF Arrive, Lookup, LookupFails, HandleCall
  <2>2. CASE c # d
    <3>1. /\ step'[c] = step[c] /\ target'[c] = target[c]
          /\ result'[c] = result[c] /\ during'[c] = during[c]
      BY <1>5, <2>2 DEF Arrive, Lookup, LookupFails, HandleCall, Respond, IInv, TypeOK
    <3>2. QED
      BY <2>1, <3>1, ToldKept
  <2>3. CASE Arrive(c)
    <3>1. PICK t \in Requests \union {Nobody} :
            /\ t # Nobody => answer[t] = 201
            /\ target' = [target EXCEPT ![c] = t]
            /\ during' = [during EXCEPT ![c] = {KeyOf(t)}]
      BY <2>3 DEF Arrive
    <3>2. /\ target'[c] = t /\ during'[c] = {KeyOf(t)}
          /\ step'[c] = "lookup" /\ result'[c] = 0
      BY <2>3, <3>1 DEF Arrive, IInv, TypeOK
    <3>3. t # Nobody => Visible(t)
      BY <3>1 DEF IInv, AnswersHold
    <3>4. KeyOf(target[c])' = KeyOf(t) /\ (t # Nobody => Visible(target[c])')
      BY <2>1, <3>2, <3>3 DEF KeyOf, Good, Visible
    <3>5. QED
      BY <3>2, <3>4 DEF Told
  <2>4. ASSUME NEW status \in {202, 401, 403, 500}, Respond(c, status),
               status = 202 => "active" \in during[c],
               status = 403 => "suspended" \in during[c],
               status = 401 => "refused" \in during[c]
        PROVE  Told(c)'
    <3>1. /\ result'[c] = status /\ step'[c] = "idle"
          /\ UNCHANGED <<target, during>>
      BY <2>4 DEF Respond, IInv, TypeOK
    <3>2. target[c] # Nobody => Visible(target[c])'
      BY <1>1, <2>1, <3>1 DEF Told, Visible
    <3>3. QED
      BY <2>4, <3>1, <3>2 DEF Told
  <2>5. CASE Lookup(c)
    <3>1. KeyOf(target[c]) \in during[c] /\ result[c] = 0
      BY <1>1, <2>5 DEF Lookup, Told
    <3>2. CASE Respond(c, 401) /\ KeyOf(target[c]) = "refused"
      BY <2>4, <3>1, <3>2
    <3>3. CASE Respond(c, 403) /\ KeyOf(target[c]) = "suspended"
      BY <2>4, <3>1, <3>3
    <3>4. CASE /\ KeyOf(target[c]) \notin {"refused", "suspended"}
               /\ step' = [step EXCEPT ![c] = "handle"]
               /\ UNCHANGED <<target, result, during>>
      <4>1. KeyOf(target[c]) = "active"
        BY <1>1, <3>4, GoodType DEF KeyOf, Told, Visible, IInv, TypeOK
      <4>2. KeyOf(target[c])' = KeyOf(target[c]) /\ step'[c] = "handle"
        BY <2>1, <3>4 DEF KeyOf, Good, IInv, TypeOK
      <4>3. target[c] # Nobody => Visible(target[c])'
        BY <1>1, <2>1, <3>4 DEF Told, Visible
      <4>4. QED
        BY <3>1, <3>4, <4>1, <4>2, <4>3 DEF Told
    <3>5. QED
      BY <2>5, <3>2, <3>3, <3>4 DEF Lookup
  <2>6. CASE LookupFails(c)
    BY <2>4, <2>6 DEF LookupFails
  <2>7. CASE HandleCall(c)
    <3>1. "active" \in during[c]
      BY <1>1, <2>7 DEF HandleCall, Told
    <3>2. QED
      BY <2>4, <2>7, <3>1 DEF HandleCall
  <2>8. QED
    BY <1>5, <2>2, <2>3, <2>5, <2>6, <2>7
<1>6. CASE UNCHANGED vars
  BY <1>6, ToldKept DEF vars, call
<1>7. QED
  BY <1>2, <1>4, <1>5, <1>6 DEF Next

-----------------------------------------------------------------------------
\* The inductive invariant, of registrations, operator and calls together.
THEOREM Invariance == Spec => []IInv
<1>1. IInv /\ [Next]_vars => IInv'
  BY TypeStep, ProgressStep, AloneStep, CodeStep, WholeStep, AnswersStep, CallsStep
     DEF IInv
<1>2. QED
  BY InitIInv, <1>1, PTL DEF Spec

\* Every variable keeps its type; of a webhook that is on without an address
\* there is no type.
THEOREM TypeCorrect == Spec => []TypeOK
<1>1. IInv => TypeOK
  BY DEF IInv
<1>2. QED
  BY Invariance, <1>1, PTL

\* The unique index and the transaction around the registration: no two
\* tenants share a code, whoever waits, fails or dies.
THEOREM UniqueCodes == Spec => []OneTenantPerCode
<1>1. IInv => OneTenantPerCode
  BY DEF IInv
<1>2. QED
  BY Invariance, <1>1, PTL

\* registerTenant is all or nothing.
THEOREM AllOrNothing == Spec => []WholeTenants
<1>1. IInv => WholeTenants
  BY DEF IInv
<1>2. QED
  BY Invariance, <1>1, PTL

\* handleRegisterTenant answers 201 and 409 only for what is so, and stays so.
THEOREM HonestAnswers == Spec => []AnswersHold
<1>1. IInv => AnswersHold
  BY DEF IInv
<1>2. QED
  BY Invariance, <1>1, PTL

\* withTenantAuth lets a call in, or keeps it out, for a state in which its
\* tenant was while the call was under way.
THEOREM Explained == Spec => []CallsAreExplained
<1>1. IInv => CallsAreExplained
  BY DEF IInv
<1>2. QED
  BY Invariance, <1>1, PTL
=============================================================================
