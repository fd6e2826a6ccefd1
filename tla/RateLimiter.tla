---------------------------- MODULE RateLimiter ----------------------------
(***************************************************************************)
(* The sliding window that limits one tenant's submissions                 *)
(* (internal/ratelimiting/redis_sliding_window.go): a sorted set in Redis, *)
(* changed by a Lua script that runs atomically.                           *)
(*                                                                         *)
(* The time a request counts for is read in the API, before the script     *)
(* runs: scripts run in another order than their times, and the client     *)
(* library sends a script again when its answer is lost.                   *)
(***************************************************************************)
EXTENDS Integers, FiniteSets, FiniteSetsExt

CONSTANTS
    Requests,    \* submissions of one tenant
    Limit,       \* RATE_LIMIT_PER_MINUTE
    Window,      \* windowDuration, in ticks
    Second,      \* ticks of a second, the unit of Retry-After
    MaxDelay,    \* longest time from time.Now to the run of the script
    MaxTime,     \* bound on the clock
    MaxFaults    \* bound on lost answers and failures

ASSUME LimitAssumption == Limit \in Nat \ {0}
ASSUME TimeAssumption  == /\ {Window, Second} \subseteq Nat \ {0}
                          /\ MaxTime \in Nat
                          /\ MaxDelay \in 0..(Window - 1)
ASSUME FaultAssumption == MaxFaults \in Nat

VARIABLES
    now,       \* the clock
    entries,   \* the sorted set: who was let in, and the time it counts for
    expires,   \* when Redis drops the key
    pc,        \* where each request is
    stamp,     \* now_ms of each request
    reply,     \* what the client got
    granted,   \* history: who was let in, and when the script did it
    faults     \* faults so far

vars == <<now, entries, expires, pc, stamp, reply, granted, faults>>

Member == [req : Requests, score : 0..MaxTime]
Grant  == [req : Requests, at : 0..MaxTime]
Reply  == [code : {0, 202, 429, 500}, wait : Nat, at : 0..MaxTime, grants : Nat]

NoReply == [code |-> 0, wait |-> 0, at |-> 0, grants |-> 0]

TypeOK ==
    /\ now \in 0..MaxTime
    /\ entries \subseteq Member
    /\ expires \in 0..(MaxTime + Window)
    /\ pc \in [Requests -> {"new", "sent", "done"}]
    /\ stamp \in [Requests -> 0..MaxTime]
    /\ reply \in [Requests -> Reply]
    /\ granted \subseteq Grant
    /\ faults \in 0..MaxFaults

Init ==
    /\ now = 0
    /\ entries = {}
    /\ expires = 0
    /\ pc = [r \in Requests |-> "new"]
    /\ stamp = [r \in Requests |-> 0]
    /\ reply = [r \in Requests |-> NoReply]
    /\ granted = {}
    /\ faults = 0

-----------------------------------------------------------------------------
(* The script.                                                             *)

\* What ZREMRANGEBYSCORE -inf .. now - window leaves.
Kept(time) == {e \in entries : e.score > time - Window}

\* Mutant of Full: > for >=.
OverFull(time) == Cardinality(Kept(time)) > Limit

\* ZCARD >= limit
Full(time) == Cardinality(Kept(time)) >= Limit

\* ZRANGE 0 0, and the time until that entry leaves the window, at least 1.
RetryAfter(time) ==
    Max({1, Window - (time - Min({e.score : e \in Kept(time)}))})

\* Mutant of RunScript: the entry gets the beginning of the window as score.
RunScriptBackdated(r) ==
    /\ entries' = IF Full(stamp[r]) THEN Kept(stamp[r])
                  ELSE Kept(stamp[r]) \union {[req |-> r, score |-> stamp[r] - Window]}
    /\ granted' = IF Full(stamp[r]) THEN granted
                  ELSE granted \union {[req |-> r, at |-> now]}
    /\ expires' = now + Window

\* A run of the script for r, whatever becomes of its answer.
RunScript(r) ==
    /\ entries' = IF Full(stamp[r]) THEN Kept(stamp[r])
                  ELSE Kept(stamp[r]) \union {[req |-> r, score |-> stamp[r]]}
    /\ granted' = IF Full(stamp[r]) THEN granted
                  ELSE granted \union {[req |-> r, at |-> now]}
    /\ expires' = now + Window

\* Mutant of RetryAfterSeconds: rounded down.
RetryAfterTruncated(wait) == Max({1, wait \div Second})

\* retryAfterSeconds: Retry-After in whole seconds, rounded up, at least one.
RetryAfterSeconds(wait) == Max({1, (wait + Second - 1) \div Second})

-----------------------------------------------------------------------------
(* AllowTransactionSubmission, and the handler's answer.                   *)

Answer(r, code, wait) ==
    /\ reply' = [reply EXCEPT ![r] = [code |-> code, wait |-> wait, at |-> now,
                                      grants |-> Cardinality(granted)]]
    /\ pc' = [pc EXCEPT ![r] = "done"]

TakeTime(r) ==
    /\ pc[r] = "new"
    /\ stamp' = [stamp EXCEPT ![r] = now]
    /\ pc' = [pc EXCEPT ![r] = "sent"]
    /\ UNCHANGED <<now, entries, expires, reply, granted, faults>>

Allow(r) ==
    /\ pc[r] = "sent"
    /\ ~Full(stamp[r])
    /\ RunScript(r)
    /\ Answer(r, 202, 0)
    /\ UNCHANGED <<now, stamp, faults>>

Reject(r) ==
    /\ pc[r] = "sent"
    /\ Full(stamp[r])
    /\ RunScript(r)
    /\ Answer(r, 429, RetryAfterSeconds(RetryAfter(stamp[r])))
    /\ UNCHANGED <<now, stamp, faults>>

Fault == faults < MaxFaults /\ faults' = faults + 1

\* The script ran and its answer was lost: the client library sends it again,
\* with the same time and the same member.
AnswerLost(r) ==
    /\ Fault
    /\ pc[r] = "sent"
    /\ RunScript(r)
    /\ UNCHANGED <<now, pc, stamp, reply>>

\* The library gives up: 500.
Fails(r) ==
    /\ Fault
    /\ pc[r] = "sent"
    /\ Answer(r, 500, 0)
    /\ UNCHANGED <<now, entries, expires, stamp, granted>>

\* Time passes; the key expires.
Tick ==
    /\ now < MaxTime
    /\ \A r \in Requests : pc[r] = "sent" => now - stamp[r] < MaxDelay
    /\ now' = now + 1
    /\ entries' = IF expires <= now' THEN {} ELSE entries
    /\ UNCHANGED <<expires, pc, stamp, reply, granted, faults>>

Next == \/ \E r \in Requests : \/ TakeTime(r) \/ Allow(r) \/ Reject(r)
                               \/ AnswerLost(r) \/ Fails(r)
        \/ Tick

Spec == Init /\ [][Next]_vars

-----------------------------------------------------------------------------
(* Properties.                                                             *)

\* No more than Limit requests are let in within a window, less the time a
\* request may take to reach Redis, wherever the window begins.
WindowLimit ==
    \A t \in 0..MaxTime :
        Cardinality({g.req : g \in {h \in granted :
            t <= h.at /\ h.at < t + Window - MaxDelay}}) <= Limit

\* Retry-After is enough: when it is over and nobody was let in since the 429,
\* a request would be let in.
RetryAfterIsEnough ==
    \A r \in Requests :
        /\ reply[r].code = 429
        /\ reply[r].at + reply[r].wait * Second <= now
        /\ reply[r].grants = Cardinality(granted)
        => ~Full(now)

-----------------------------------------------------------------------------
(* The inductive invariant that RateLimiterProofs proves.                  *)

\* A script that has not run is not older than MaxDelay.
Timed ==
    \A r \in Requests : pc[r] = "sent" => stamp[r] <= now /\ now <= stamp[r] + MaxDelay

\* An entry has the time of its request, and there is room for Limit of them.
Sized ==
    /\ IsFiniteSet(entries) /\ IsFiniteSet(granted)
    /\ Cardinality(entries) <= Limit
    /\ \A e \in entries : e.score = stamp[e.req] /\ pc[e.req] # "new"

\* Who was let in is in the set for a window, less the delay.
Remembered ==
    \A g \in granted :
        /\ g.at <= now /\ g.at + Window <= expires
        /\ now < g.at + Window - MaxDelay =>
             \E e \in entries : e.req = g.req /\ g.at <= e.score + MaxDelay

\* As long as nobody is let in, somebody leaves before a Retry-After is over.
Waiting ==
    \A r \in Requests : reply[r].code = 429 =>
        /\ reply[r].grants <= Cardinality(granted)
        /\ reply[r].grants = Cardinality(granted) =>
             \/ Cardinality(entries) < Limit
             \/ \E e \in entries :
                  e.score + Window <= reply[r].at + reply[r].wait * Second

IInv == TypeOK /\ Timed /\ Sized /\ Remembered /\ Waiting /\ WindowLimit
=============================================================================
