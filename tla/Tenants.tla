------------------------------ MODULE Tenants ------------------------------
(***************************************************************************)
(* Registration of tenants (cmd/ledger-admin/main.go) over the public      *)
(* schema (migrations/0001_init_public.sql), and the check of a tenant's   *)
(* key in front of every handler of the API (internal/http/ledger_api.go,  *)
(* internal/service/tenant_auth_service.go).                               *)
(*                                                                         *)
(* A tenant is named by the request that registers it, since its id is     *)
(* random; its code is the client's, and several requests may send the     *)
(* same.  One registration is one database transaction of several          *)
(* statements; an operator suspends tenants and revokes keys meanwhile     *)
(* with SQL.                                                               *)
(***************************************************************************)
EXTENDS Integers

CONSTANTS
    Requests,     \* registration requests, and the tenants they make
    Codes,        \* tenant codes
    Calls,        \* slots for concurrent calls of the API
    Nobody,       \* whose key is one that no registration made
    MaxChanges,   \* bound on what the operator changes
    MaxFaults     \* bound on failed statements, lost answers and deaths

ASSUME BoundsAssumption == MaxChanges \in Nat /\ MaxFaults \in Nat
ASSUME NobodyAssumption == Nobody \notin Requests

VARIABLES
    tenants,   \* committed: a tenant's rows and its schema
    tx,        \* uncommitted: what a registration has written so far
    code,      \* the code each request asks for
    hook,      \* the webhook it asks for, normalised
    pc,        \* where each registration is
    answer,    \* the status each registration was answered with, 0 for none
    step,      \* where each call is
    target,    \* the tenant whose key a call carries
    result,    \* the status a call was answered with, 0 for none
    during,    \* history: the states its tenant has been in during a call
    changes,   \* operator changes so far
    faults     \* faults so far

registration == <<tx, code, hook, pc, answer>>
call         == <<step, target, result, during>>
vars         == <<tenants, registration, call, changes, faults>>

ConfigKeys == {"webhook_enabled", "webhook_url"}

\* Rows of tenant_accounts, tenant_configs and tenant_api_keys, and whether
\* the tenant's schema is there.
Tenant   == [status : {"none", "active", "suspended"}, schema : BOOLEAN,
             configs : SUBSET ConfigKeys, key : {"none", "active", "revoked"}]
NoTenant == [status |-> "none", schema |-> FALSE, configs |-> {}, key |-> "none"]

InTransaction == {"migrate", "configure", "key", "commit"}
Steps         == {"new", "insert", "done", "gone"} \union InTransaction

TypeOK ==
    /\ tenants \in [Requests -> Tenant] /\ tx \in [Requests -> Tenant]
    /\ code \in [Requests -> Codes] /\ hook \in [Requests -> {"off", "on"}]
    /\ pc \in [Requests -> Steps]
    /\ answer \in [Requests -> {0, 201, 400, 409, 500}]
    /\ step \in [Calls -> {"idle", "lookup", "handle"}]
    /\ target \in [Calls -> Requests \union {Nobody}]
    /\ result \in [Calls -> {0, 202, 401, 403, 500}]
    /\ during \in [Calls -> SUBSET {"active", "suspended", "refused"}]
    /\ changes \in 0..MaxChanges /\ faults \in 0..MaxFaults

Init ==
    /\ tenants = [r \in Requests |-> NoTenant]
    /\ tx = [r \in Requests |-> NoTenant]
    /\ code \in [Requests -> Codes]
    /\ hook = [r \in Requests |-> "off"]
    /\ pc = [r \in Requests |-> "new"]
    /\ answer = [r \in Requests |-> 0]
    /\ step = [c \in Calls |-> "idle"]
    /\ target = [c \in Calls |-> Nobody]
    /\ result = [c \in Calls |-> 0]
    /\ during = [c \in Calls |-> {}]
    /\ changes = 0 /\ faults = 0

Fault == faults < MaxFaults /\ faults' = faults + 1

-----------------------------------------------------------------------------
(* A registration.                                                         *)

Goto(r, next) == pc' = [pc EXCEPT ![r] = next]

\* The response; a transaction that is still open is rolled back.
Answer(r, status) ==
    /\ answer' = [answer EXCEPT ![r] = status]
    /\ tx' = [tx EXCEPT ![r] = NoTenant]
    /\ Goto(r, "done")

\* Mutant of ValidHook: an enabled webhook needs no address.
ValidApart(enabled, url) == enabled # "wrong" /\ url # "wrong"

\* normalizeTenantConfigs and the functions it parses with: a parameter may be
\* absent, which is off or empty, or wrong.
ValidHook(enabled, url) ==
    /\ enabled # "wrong" /\ url # "wrong"
    /\ enabled = "on" => url = "given"

\* isAuthorized, decodeJSONBody, validateTenantRegisterRequest; 400 stands for
\* 401 too.
Receive(r) ==
    /\ pc[r] = "new"
    /\ \/ Answer(r, 400) /\ UNCHANGED hook
       \/ \E enabled \in {"absent", "wrong", "off", "on"},
             url \in {"absent", "wrong", "given"} :
            /\ ValidHook(enabled, url)
            /\ hook' = [hook EXCEPT ![r] = IF enabled # "on" THEN "off"
                                           ELSE IF url = "given" THEN "on"
                                           ELSE "without address"]
            /\ Goto(r, "insert")
            /\ UNCHANGED <<tx, answer>>
    /\ UNCHANGED <<tenants, code, call, changes, faults>>

\* The unique index on code: a row of another open transaction must be waited
\* for, a committed one is a violation.
Registers(r, s) == s # r /\ code[s] = code[r]
Waits(r)    == \E s \in Requests : Registers(r, s) /\ tx[s].status # "none"
Violates(r) == \E s \in Requests : Registers(r, s) /\ tenants[s].status # "none"

\* Mutants of InsertAccount: the code is looked up, then inserted, with no
\* index behind it; the statement runs on the pool, outside the transaction.
InsertUnindexed(r) ==
    /\ pc[r] = "insert"
    /\ IF Violates(r)
       THEN Answer(r, 409)
       ELSE /\ tx' = [tx EXCEPT ![r].status = "active"]
            /\ Goto(r, "migrate")
            /\ UNCHANGED answer
    /\ UNCHANGED <<tenants, code, hook, call, changes, faults>>

InsertAtOnce(r) ==
    /\ pc[r] = "insert"
    /\ ~Waits(r)
    /\ IF Violates(r)
       THEN Answer(r, 409) /\ UNCHANGED tenants
       ELSE /\ tx' = [tx EXCEPT ![r].status = "active"]
            /\ tenants' = [tenants EXCEPT ![r].status = "active"]
            /\ Goto(r, "migrate")
            /\ UNCHANGED answer
    /\ UNCHANGED <<code, hook, call, changes, faults>>

\* INSERT INTO tenant_accounts, and isUniqueViolation.
InsertAccount(r) ==
    /\ pc[r] = "insert"
    /\ ~Waits(r)
    /\ IF Violates(r)
       THEN Answer(r, 409)
       ELSE /\ tx' = [tx EXCEPT ![r].status = "active"]
            /\ Goto(r, "migrate")
            /\ UNCHANGED answer
    /\ UNCHANGED <<tenants, code, hook, call, changes, faults>>

\* applyTenantSchemaMigration
Migrate(r) ==
    /\ pc[r] = "migrate"
    /\ tx' = [tx EXCEPT ![r].schema = TRUE]
    /\ Goto(r, "configure")
    /\ UNCHANGED <<tenants, code, hook, answer, call, changes, faults>>

\* upsertTenantConfigs, one statement per key in the order of a Go map.
Configure(r) ==
    /\ pc[r] = "configure"
    /\ \E k \in ConfigKeys \ tx[r].configs :
         tx' = [tx EXCEPT ![r].configs = @ \union {k}]
    /\ Goto(r, IF tx'[r].configs = ConfigKeys THEN "key" ELSE "configure")
    /\ UNCHANGED <<tenants, code, hook, answer, call, changes, faults>>

\* insertTenantAPIKey
InsertKey(r) ==
    /\ pc[r] = "key"
    /\ tx' = [tx EXCEPT ![r].key = "active"]
    /\ Goto(r, "commit")
    /\ UNCHANGED <<tenants, code, hook, answer, call, changes, faults>>

Install(r) == tenants' = [tenants EXCEPT ![r] = tx[r]]

Commit(r) ==
    /\ pc[r] = "commit"
    /\ Install(r)
    /\ Answer(r, 201)
    /\ UNCHANGED <<code, hook, call, changes, faults>>

\* Mutants of Abort: the error of COMMIT is not looked at; the transaction is
\* left open.
AbortUnseen(r) ==
    /\ Fault
    /\ pc[r] \in {"insert"} \union InTransaction
    /\ Answer(r, IF pc[r] = "commit" THEN 201 ELSE 500)
    /\ UNCHANGED <<tenants, code, hook, call, changes>>

AbortOpen(r) ==
    /\ Fault
    /\ pc[r] \in {"insert"} \union InTransaction
    /\ answer' = [answer EXCEPT ![r] = 500]
    /\ Goto(r, "done")
    /\ UNCHANGED <<tenants, tx, code, hook, call, changes>>

\* A statement fails: the deferred Rollback, 500.
Abort(r) ==
    /\ Fault
    /\ pc[r] \in {"insert"} \union InTransaction
    /\ Answer(r, 500)
    /\ UNCHANGED <<tenants, code, hook, call, changes>>

\* COMMIT is applied and its answer lost: 500 for a tenant that is there, and
\* whose key nobody has.
CommitLost(r) ==
    /\ Fault
    /\ pc[r] = "commit"
    /\ Install(r)
    /\ Answer(r, 500)
    /\ UNCHANGED <<code, hook, call, changes>>

\* The process dies or the client goes away, which cancels the context: the
\* transaction is rolled back, or its COMMIT was under way.
Die(r) ==
    /\ Fault
    /\ pc[r] \in {"insert"} \union InTransaction
    /\ \/ UNCHANGED tenants
       \/ pc[r] = "commit" /\ Install(r)
    /\ tx' = [tx EXCEPT ![r] = NoTenant]
    /\ Goto(r, "gone")
    /\ UNCHANGED <<code, hook, answer, call, changes>>

Register(r) == InsertAccount(r) \/ Migrate(r) \/ Configure(r) \/ InsertKey(r) \/ Commit(r)

-----------------------------------------------------------------------------
(* A call of the API.                                                      *)

\* What the key of a tenant is good for.
Good(tenant) == IF tenant.key = "active" THEN tenant.status ELSE "refused"

KeyOf(t) == IF t = Nobody THEN "refused" ELSE Good(tenants[t])

\* A request comes with the key a registration answered with, or a made-up one.
Arrive(c) ==
    /\ step[c] = "idle"
    /\ \E t \in Requests \union {Nobody} :
         /\ t # Nobody => answer[t] = 201
         /\ target' = [target EXCEPT ![c] = t]
         /\ during' = [during EXCEPT ![c] = {KeyOf(t)}]
    /\ step' = [step EXCEPT ![c] = "lookup"]
    /\ result' = [result EXCEPT ![c] = 0]
    /\ UNCHANGED <<tenants, registration, changes, faults>>

Respond(c, status) ==
    /\ result' = [result EXCEPT ![c] = status]
    /\ step' = [step EXCEPT ![c] = "idle"]
    /\ UNCHANGED <<target, during>>

\* Mutant of Lookup: the status of the tenant is not looked at.
LookupKeyOnly(c) ==
    /\ step[c] = "lookup"
    /\ CASE KeyOf(target[c]) = "refused" -> Respond(c, 401)
         [] OTHER -> /\ step' = [step EXCEPT ![c] = "handle"]
                     /\ UNCHANGED <<target, result, during>>
    /\ UNCHANGED <<tenants, registration, changes, faults>>

\* withTenantAuth: FindByAPIKeyHash, an inner join of keys and accounts, then
\* the status of the tenant.
Lookup(c) ==
    /\ step[c] = "lookup"
    /\ CASE KeyOf(target[c]) = "refused"   -> Respond(c, 401)
         [] KeyOf(target[c]) = "suspended" -> Respond(c, 403)
         [] OTHER -> /\ step' = [step EXCEPT ![c] = "handle"]
                     /\ UNCHANGED <<target, result, during>>
    /\ UNCHANGED <<tenants, registration, changes, faults>>

LookupFails(c) ==
    /\ Fault
    /\ step[c] = "lookup"
    /\ Respond(c, 500)
    /\ UNCHANGED <<tenants, registration, changes>>

\* The handler works in the tenant's schema.
HandleCall(c) ==
    /\ step[c] = "handle"
    /\ Respond(c, IF tenants[target[c]].schema THEN 202 ELSE 500)
    /\ UNCHANGED <<tenants, registration, changes, faults>>

-----------------------------------------------------------------------------
(* The operator's SQL.                                                     *)

Change(t, tenant) ==
    /\ changes < MaxChanges
    /\ changes' = changes + 1
    /\ tenants[t].status # "none"
    /\ tenant # tenants[t]
    /\ tenants' = [tenants EXCEPT ![t] = tenant]
    /\ during' = [c \in Calls |-> IF step[c] # "idle" /\ target[c] = t
                                  THEN during[c] \union {Good(tenant)}
                                  ELSE during[c]]
    /\ UNCHANGED <<registration, step, target, result, faults>>

Operate(t) ==
    \/ \E status \in {"active", "suspended"} :
         Change(t, [tenants[t] EXCEPT !.status = status])
    \/ Change(t, [tenants[t] EXCEPT !.key = "revoked"])

-----------------------------------------------------------------------------
Next ==
    \/ \E r \in Requests : Receive(r) \/ Register(r) \/ Abort(r) \/ CommitLost(r)
                           \/ Die(r) \/ Operate(r)
    \/ \E c \in Calls : Arrive(c) \/ Lookup(c) \/ LookupFails(c) \/ HandleCall(c)

Spec == Init /\ [][Next]_vars

\* The statements of a registration return, and its goroutine goes on.
FairSpec == Spec /\ \A r \in Requests : WF_vars(Register(r))

-----------------------------------------------------------------------------
(* Properties.                                                             *)

Visible(t) == tenants[t].status # "none"

\* Two tenants never share a code, whatever registers at the same time.
OneTenantPerCode ==
    \A r, s \in Requests :
        Visible(r) /\ Visible(s) /\ code[r] = code[s] => r = s

\* Whoever can see a tenant (a handler by its key, the worker by its status)
\* finds its schema, its key and its whole configuration.
WholeTenants ==
    \A t \in Requests : Visible(t) =>
        /\ tenants[t].schema /\ tenants[t].configs = ConfigKeys
        /\ tenants[t].key # "none"

\* What a registration was told is so: 201 for a tenant that is there, 409 when
\* another one has the code for good, 400 for none.
AnswersHold ==
    \A r \in Requests :
        /\ answer[r] = 201 => Visible(r)
        /\ answer[r] = 409 => ~Visible(r) /\ \E s \in Requests : Registers(r, s) /\ Visible(s)
        /\ answer[r] = 400 => ~Visible(r)

\* Every answer to a call is explained by a state its tenant was in during the
\* call: nothing is accepted for a tenant that was suspended, or with a key
\* that was revoked, before the call began.
CallsAreExplained ==
    \A c \in Calls :
        /\ result[c] = 202 => "active" \in during[c]
        /\ result[c] = 403 => "suspended" \in during[c]
        /\ result[c] = 401 => "refused" \in during[c]

\* A registration that reached the database ends, even when it waits for
\* others with its code.
EveryRegistrationEnds ==
    \A r \in Requests : pc[r] = "insert" ~> pc[r] \in {"done", "gone"}

-----------------------------------------------------------------------------
(* The inductive invariant that TenantsProofs proves.                      *)

Open(r)  == tx[r].status # "none"
Early(r) == pc[r] \in {"new", "insert"} \union InTransaction

\* How far a registration is, and what its transaction holds so far.
Progress ==
    \A r \in Requests :
        /\ Open(r) <=> pc[r] \in InTransaction
        /\ Early(r) => ~Visible(r) /\ answer[r] = 0
        /\ pc[r] \in {"configure", "key", "commit"} => tx[r].schema
        /\ pc[r] \in {"key", "commit"} => tx[r].configs = ConfigKeys
        /\ pc[r] = "commit" => tx[r].key = "active"

\* The row of an open transaction keeps every other one of its code away.
Alone == \A r, s \in Requests : Open(r) /\ Registers(r, s) => ~Open(s) /\ ~Visible(s)

\* A call that is under way has seen the state its tenant is in.
Witnessed ==
    \A c \in Calls :
        /\ target[c] # Nobody => Visible(target[c])
        /\ step[c] # "idle" => KeyOf(target[c]) \in during[c] /\ result[c] = 0
        /\ step[c] = "handle" => "active" \in during[c]

IInv == /\ TypeOK /\ Progress /\ Alone /\ OneTenantPerCode /\ WholeTenants
        /\ AnswersHold /\ Witnessed /\ CallsAreExplained
=============================================================================
