---------------------------- MODULE Idempotency ----------------------------
(***************************************************************************)
(* Duplicate submissions of one reference of one tenant: the handler of    *)
(* POST /api/v1/transactions (internal/http/ledger_api.go) over the Redis  *)
(* key of the reference (internal/idempotency/redis_reference_store.go)    *)
(* and the transactions table.                                             *)
(*                                                                         *)
(* Every Redis command and every SQL statement is a step of its own, so    *)
(* the handlers of several requests interleave between them, the key may   *)
(* expire, the worker may settle the transaction, and calls may fail with  *)
(* or without having taken effect.  The clock may tick under a handler,    *)
(* which lives for at most MaxHandling ticks: less than the TTL, since the *)
(* calls of a handler time out in seconds and the TTL is a day.            *)
(***************************************************************************)
EXTENDS Integers, Sequences, FiniteSets

CONSTANTS
    Requests,      \* submissions with the same reference
    TTL,           \* lifetime of the key, and of a replayable transaction
    MaxTime,       \* bound on the clock
    Faults,        \* kinds of fault a run allows
    MaxFaults,     \* bound on how many of them happen
    MaxHandling    \* how many ticks of the clock a handler may live through

ASSUME TimeAssumption   == /\ TTL \in Nat \ {0} /\ MaxTime \in Nat
                           /\ MaxHandling \in 0..TTL - 1
ASSUME FaultsAssumption ==
    /\ Faults \subseteq {"redis", "resend", "restart", "database", "lostInsert",
                         "crash"}
    /\ MaxFaults \in Nat

VARIABLES
    now,       \* the clock
    key,       \* the Redis key: its state, cached body and time of expiry
    rows,      \* transactions with this reference, oldest first
    pc,        \* where the handler of each request is
    begun,     \* when a handler under way began
    held,      \* the transaction a handler is about to answer with
    answer,    \* what the client got
    faults,    \* faults so far
    deceits    \* history: those after which the key is not what was written

vars == <<now, key, rows, pc, begun, held, answer, faults, deceits>>

Statuses == {"pending", "settled"}

\* The part of a response body the properties tell apart.
Body   == [txn : Nat, status : Statuses]
NoBody == [txn |-> 0, status |-> "pending"]

\* Values of the Redis key, of a row and of a client's answer; replayed is the
\* Idempotency-Replayed header.
Key    == [state : {"none", "pending", "completed"}, body : Body, expires : Nat]
Row    == [created : 0..MaxTime, status : Statuses]
Answer == [code : {0, 202, 409, 500}, body : Body, replayed : {"true", "false"},
           at : 0..MaxTime]

NoKey     == [state |-> "none", body |-> NoBody, expires |-> 0]
NoAnswer  == [code |-> 0, body |-> NoBody, replayed |-> "false", at |-> 0]

InFlight == {"get", "select", "wait", "insert", "mark", "remark", "clear"}
Steps    == {"new", "done", "gone"} \union InFlight

TypeOK ==
    /\ now \in 0..MaxTime
    /\ key \in Key
    /\ rows \in Seq(Row)
    /\ pc \in [Requests -> Steps]
    /\ begun \in [Requests -> 0..MaxTime]
    /\ held \in [Requests -> Body]
    /\ answer \in [Requests -> Answer]
    /\ faults \in 0..MaxFaults
    /\ deceits \in 0..faults

Init ==
    /\ now = 0
    /\ key = NoKey
    /\ rows = <<>>
    /\ pc = [r \in Requests |-> "new"]
    /\ begun = [r \in Requests |-> 0]
    /\ held = [r \in Requests |-> NoBody]
    /\ answer = [r \in Requests |-> NoAnswer]
    /\ faults = 0 /\ deceits = 0

-----------------------------------------------------------------------------
(* Pieces of a step.                                                       *)

NoFault == UNCHANGED <<faults, deceits>>

\* An insert that is there though it failed, a DEL that comes back and a write
\* that Redis forgets take the key from the one who has it.
Deceits == {"lostInsert", "resend", "restart"}

Fault(kind) == /\ kind \in Faults
               /\ faults < MaxFaults
               /\ faults' = faults + 1
               /\ deceits' = IF kind \in Deceits THEN deceits + 1 ELSE deceits

Goto(r, step) == pc' = [pc EXCEPT ![r] = step] /\ UNCHANGED begun

\* The first Redis command of a handler has been executed.
Enter(r, step) == /\ pc' = [pc EXCEPT ![r] = step]
                  /\ begun' = [begun EXCEPT ![r] = now]

Leave(r, step) == /\ pc' = [pc EXCEPT ![r] = step]
                  /\ begun' = [begun EXCEPT ![r] = 0]

\* The handler writes its response and ends.
Respond(r, code, body, replayed) ==
    /\ answer' = [answer EXCEPT ![r] = [code |-> code, body |-> body,
                                        replayed |-> replayed, at |-> now]]
    /\ Leave(r, "done")

\* Mutant of SetKey: the key dies one tick early.
SetKeyShort(state, body) ==
    key' = [state |-> state, body |-> body, expires |-> now + TTL - 1]

SetKey(state, body) ==
    key' = [state |-> state, body |-> body, expires |-> now + TTL]

\* GetTransactionByReference takes the newest row.
Newest == [txn |-> Len(rows), status |-> rows[Len(rows)].status]

\* isReplayableByTTL
Replayable(row) == now - row.created <= TTL

-----------------------------------------------------------------------------
(* Begin, and the requests that find the key taken.                        *)

\* Mutant of Begin: a pending key is taken over.
BeginUnlessCompleted(r) ==
    /\ pc[r] = "new"
    /\ IF key.state # "completed"
       THEN SetKey("pending", NoBody) /\ Enter(r, "insert")
       ELSE UNCHANGED key /\ Enter(r, "get")
    /\ NoFault
    /\ UNCHANGED <<now, rows, held, answer>>

\* SETNX of a pending record: the request owns the reference, or reads it.
Begin(r) ==
    /\ pc[r] = "new"
    /\ IF key.state = "none"
       THEN SetKey("pending", NoBody) /\ Enter(r, "insert")
       ELSE UNCHANGED key /\ Enter(r, "get")
    /\ NoFault
    /\ UNCHANGED <<now, rows, held, answer>>

\* The answer to the SETNX is lost and the client library sends it again: the
\* request finds its own key and takes it for somebody else's.
BeginResent(r) ==
    /\ pc[r] = "new"
    /\ key.state = "none"
    /\ Fault("redis")
    /\ SetKey("pending", NoBody)
    /\ Enter(r, "get")
    /\ UNCHANGED <<now, rows, held, answer>>

\* GET in Begin or Peek, decodeStateValue, and the first branch of
\* tryReplayFromIdempotencyState: a cached response is replayed as it is.
Read(r) ==
    /\ pc[r] \in {"get", "wait"}
    /\ IF key.state = "completed"
       THEN Respond(r, 202, key.body, "true")
       ELSE Goto(r, "select") /\ UNCHANGED answer
    /\ NoFault
    /\ UNCHANGED <<now, key, rows, held>>

\* tryReplayFromIdempotencyState, the lookup by reference.
Select(r) ==
    /\ pc[r] = "select"
    /\ IF rows # <<>> /\ Replayable(rows[Len(rows)])
       THEN held' = [held EXCEPT ![r] = Newest] /\ Goto(r, "remark")
       ELSE UNCHANGED held /\ Goto(r, "wait")
    /\ NoFault
    /\ UNCHANGED <<now, key, rows, answer>>

\* Mutant of Remark: a replay is answered 200.
RemarkOK(r) ==
    /\ pc[r] = "remark"
    /\ \/ SetKey("completed", held[r]) /\ NoFault
       \/ Fault("redis") /\ UNCHANGED key
    /\ Respond(r, 200, held[r], "true")
    /\ UNCHANGED <<now, rows, held>>

\* The replay caches what it read (an error is only logged) and answers.
Remark(r) ==
    /\ pc[r] = "remark"
    /\ \/ SetKey("completed", held[r]) /\ NoFault
       \/ Fault("redis") /\ UNCHANGED key
    /\ Respond(r, 202, held[r], "true")
    /\ UNCHANGED <<now, rows, held>>

\* waitForReplayableTransaction reached its 1.5 s between two polls (409), or
\* in the middle of one, which then fails (500).
GiveUp(r) ==
    /\ \/ pc[r] = "wait" /\ Respond(r, 409, NoBody, "false")
       \/ pc[r] \in {"wait", "select"} /\ Respond(r, 500, NoBody, "false")
    /\ NoFault
    /\ UNCHANGED <<now, key, rows, held>>

-----------------------------------------------------------------------------
(* The request that owns the reference.                                    *)

NewRow == [created |-> now, status |-> "pending"]

\* CreatePendingTransaction.  Migration 0002 makes a plain index on reference,
\* so a second row is no conflict.
Insert(r) ==
    /\ pc[r] = "insert"
    /\ rows' = Append(rows, NewRow)
    /\ held' = [held EXCEPT ![r] = [txn |-> Len(rows) + 1, status |-> "pending"]]
    /\ Goto(r, "mark")
    /\ NoFault
    /\ UNCHANGED <<now, key, answer>>

\* The insert returns an error: the input is refused or the statement
\* failed, and the row is not there; or the timeout or the connection hid
\* that it is.
InsertFails(r) ==
    /\ pc[r] = "insert"
    /\ \/ Fault("database") /\ UNCHANGED rows
       \/ Fault("lostInsert") /\ rows' = Append(rows, NewRow)
    /\ Goto(r, "clear")
    /\ UNCHANGED <<now, key, held, answer>>

\* Mutant of Mark: the key is cleared when the response cannot be cached.
MarkOrClear(r) ==
    /\ pc[r] = "mark"
    /\ \/ SetKey("completed", held[r]) /\ NoFault
       \/ Fault("redis") /\ key' = NoKey
    /\ Respond(r, 202, held[r], "false")
    /\ UNCHANGED <<now, rows, held>>

\* cacheAcceptedTransactionResponse (an error is only logged), 202.
Mark(r) ==
    /\ pc[r] = "mark"
    /\ \/ SetKey("completed", held[r]) /\ NoFault
       \/ Fault("redis") /\ UNCHANGED key
    /\ Respond(r, 202, held[r], "false")
    /\ UNCHANGED <<now, rows, held>>

\* Clear deletes the key whoever wrote it (an error is only logged), 500 (or
\* the 400 of a refused input, which no property tells from it).
Clear(r) ==
    /\ pc[r] = "clear"
    /\ \/ key' = NoKey /\ NoFault
       \/ Fault("redis") /\ UNCHANGED key
    /\ Respond(r, 500, NoBody, "false")
    /\ UNCHANGED <<now, rows, held>>

\* The answer to the DEL is lost and the client library will send it again,
\* when the key may be another request's.
ClearResent(r) ==
    /\ pc[r] = "clear"
    /\ Fault("resend")
    /\ key' = NoKey
    /\ UNCHANGED <<now, rows, pc, begun, held, answer>>

-----------------------------------------------------------------------------
(* Errors and the world around the handlers.                               *)

\* Begin or Peek fails, the SETNX possibly applied: 500, the key stays.
RedisFails(r) ==
    /\ pc[r] \in {"new", "get", "wait"}
    /\ Fault("redis")
    /\ \/ UNCHANGED key
       \/ pc[r] = "new" /\ key.state = "none" /\ SetKey("pending", NoBody)
    /\ Respond(r, 500, NoBody, "false")
    /\ UNCHANGED <<now, rows, held>>

\* The lookup by reference fails: 500.
LookupFails(r) ==
    /\ pc[r] = "select"
    /\ Fault("database")
    /\ Respond(r, 500, NoBody, "false")
    /\ UNCHANGED <<now, key, rows, held>>

\* The API process dies under a handler, or the client goes away, which
\* cancels the context of every later call of the handler, Clear included.
Die(r) ==
    /\ pc[r] \in InFlight
    /\ Fault("crash")
    /\ Leave(r, "gone")
    /\ UNCHANGED <<now, key, rows, held, answer>>

\* Redis restarts without the last second of its append-only file: a key that
\* was written in this tick is gone, or pending as it was before.
Restart ==
    /\ Fault("restart")
    /\ key.state # "none" /\ key.expires = now + TTL
    /\ \/ key' = NoKey
       \/ /\ key.state = "completed"
          /\ \E at \in now + 1..key.expires :
               key' = [state |-> "pending", body |-> NoBody, expires |-> at]
    /\ UNCHANGED <<now, rows, pc, begun, held, answer>>

\* The worker settles a transaction.
Settle(t) ==
    /\ rows[t].status = "pending"
    /\ rows' = [rows EXCEPT ![t].status = "settled"]
    /\ NoFault
    /\ UNCHANGED <<now, key, pc, begun, held, answer>>

\* Time passes, and Redis drops the key when its time has come.
Tick ==
    /\ now < MaxTime
    /\ \A r \in Requests : pc[r] \in InFlight => now - begun[r] < MaxHandling
    /\ now' = now + 1
    /\ key' = IF key.expires <= now' THEN NoKey ELSE key
    /\ NoFault
    /\ UNCHANGED <<rows, pc, begun, held, answer>>

-----------------------------------------------------------------------------
Handle(r) == \/ Begin(r) \/ BeginResent(r) \/ Read(r) \/ Select(r) \/ Remark(r)
             \/ GiveUp(r) \/ Insert(r) \/ InsertFails(r) \/ Mark(r) \/ Clear(r)
             \/ ClearResent(r) \/ RedisFails(r) \/ LookupFails(r) \/ Die(r)

Next == \/ \E r \in Requests : Handle(r)
        \/ \E t \in 1..Len(rows) : Settle(t)
        \/ Restart
        \/ Tick

Spec == Init /\ [][Next]_vars

-----------------------------------------------------------------------------
(* Properties.                                                             *)

\* Handlers between the SETNX that gave them the reference and their answer.
Owners == {r \in Requests : pc[r] \in {"insert", "mark", "clear"}}

\* Only one handler acts for the reference, and one more for each time that
\* the key was taken from the one who had it.
FewOwners == Cardinality(Owners) <= 1 + deceits

\* Transactions created too soon after the one before: a handler takes the key
\* at most MaxHandling before it inserts, and the key lives for the TTL.
Repeats == {i \in 2..Len(rows) :
              rows[i].created - rows[i - 1].created < TTL - MaxHandling}

\* A reference is not processed again before its TTL, whoever retries, dies or
\* fails, but for one time for each insert that was there though it failed,
\* each DEL that came back and each write that Redis forgot.
RepeatsArePaidFor == Cardinality(Repeats) <= deceits

Accepted == {r \in Requests : answer[r].code = 202}

\* A reference is not processed again before its TTL is over.
NoDuplicates ==
    \A i, j \in 1..Len(rows) :
        i < j => rows[j].created - rows[i].created >= TTL

\* A response is replayed for no longer than the TTL.
ReplayWindow ==
    \A r \in Accepted :
        answer[r].replayed = "true" =>
            answer[r].at - rows[answer[r].body.txn].created <= TTL

\* Every response for a transaction is the same as the first one.
IdenticalReplay ==
    \A r, s \in Accepted :
        answer[r].body.txn = answer[s].body.txn => answer[r].body = answer[s].body

\* All that the handlers do together, over keys that expire, fail and are lost,
\* is what ReferenceSpec allows one reference.
Reference == INSTANCE ReferenceSpec WITH
    Slack   <- MaxHandling,
    created <- [i \in 1..Len(rows) |-> rows[i].created],
    bound   <- [r \in Requests |-> IF answer[r].code = 202
                                   THEN answer[r].body.txn ELSE 0]

ImplementsReference == Reference!Spec

-----------------------------------------------------------------------------
(* The inductive invariant.                                                *)

\* The key is alive while it is set, and no handler outlives its time.
TimesOK ==
    /\ key.state # "none" => now < key.expires
    /\ \A r \in Requests :
         /\ begun[r] <= now
         /\ pc[r] \in InFlight => now - begun[r] <= MaxHandling
    /\ \A i \in 1..Len(rows) : rows[i].created <= now

\* The newest transaction is too young to be followed by another.
Fresh == rows # <<>> /\ now - rows[Len(rows)].created < TTL - MaxHandling

\* The key is set for as long as any owner needs it, and while the newest
\* transaction is fresh.
Sound ==
    /\ key.state # "none"
    /\ \A r \in Owners : begun[r] + TTL <= key.expires
    /\ rows # <<>> => rows[Len(rows)].created + TTL - MaxHandling <= key.expires

\* Owners that have yet to insert or to clear the key: each of them can make
\* one more repeat possible.
Acting == {r \in Owners : pc[r] # "mark"}

\* What can still go wrong: owners that act, repeats, and one more while the
\* newest transaction could be followed too soon.
Debt == Cardinality(Acting) + Cardinality(Repeats) + (IF Fresh THEN 1 ELSE 0)

\* What pays for it: the faults that deceive, and a sound key once.
Credit == deceits + (IF Sound THEN 1 ELSE 0)

ChargesOK ==
    /\ IsFiniteSet(Owners)
    /\ Cardinality(Owners) <= Credit
    /\ Debt <= Credit

\* What is cached or about to be answered is a transaction young enough to be
\* answered as long as the key or the handler may live.
Known(txn) == txn \in 1..Len(rows)

YoungKey == key.state = "completed" =>
    /\ Known(key.body.txn)
    /\ key.expires <= rows[key.body.txn].created + 2 * TTL + MaxHandling

YoungHeld == \A r \in Requests :
    pc[r] \in {"mark", "remark"} =>
        Known(held[r].txn) /\ begun[r] <= rows[held[r].txn].created + TTL

\* A transaction is replayed for less than twice the TTL and a handler's life:
\* once because its row is young enough, and once more because that replay
\* renews the key.
AnswersOK == \A r \in Requests :
    /\ answer[r].code # 0 <=> pc[r] = "done"
    /\ answer[r].code = 202 =>
         /\ Known(answer[r].body.txn)
         /\ answer[r].at - rows[answer[r].body.txn].created < 2 * TTL + MaxHandling

IInv == /\ TypeOK /\ TimesOK /\ ChargesOK /\ RepeatsArePaidFor
        /\ YoungKey /\ YoungHeld /\ AnswersOK
=============================================================================
