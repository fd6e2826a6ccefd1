------------------------- MODULE RateLimiterProofs -------------------------
(***************************************************************************)
(* The sliding window lets in no more than its limit, and Retry-After is   *)
(* enough, for any number of requests, any limit, window and delay.        *)
(***************************************************************************)
EXTENDS RateLimiter, FiniteSetTheorems, Induction, TLAPS

-----------------------------------------------------------------------------
(* Numbers.                                                                *)

LEMMA MinFacts ==
    ASSUME NEW S \in SUBSET Nat, S # {}
    PROVE  Min(S) \in S /\ \A m \in S : Min(S) <= m
BY Least DEF Min

LEMMA MaxOfTwo ==
    ASSUME NEW x \in Int
    PROVE  Max({1, x}) \in Nat /\ Max({1, x}) >= 1 /\ Max({1, x}) >= x
<1>1. \E y \in {1, x} : \A z \in {1, x} : y >= z
  <2>1. CASE x <= 1
    BY <2>1
  <2>2. CASE ~(x <= 1)
    BY <2>2
  <2>3. QED
    BY <2>1, <2>2
<1>2. Max({1, x}) \in {1, x} /\ \A z \in {1, x} : Max({1, x}) >= z
  BY <1>1 DEF Max
<1>3. QED
  BY <1>2

\* Rounded up, and never zero.
LEMMA RoundedUp ==
    ASSUME NEW wait \in Nat
    PROVE  /\ RetryAfterSeconds(wait) \in Nat
           /\ RetryAfterSeconds(wait) * Second >= wait
<1> DEFINE q == (wait + Second - 1) \div Second
<1>1. q \in Int /\ q * Second >= wait
  BY TimeAssumption
<1>2. /\ RetryAfterSeconds(wait) = Max({1, q})
      /\ Max({1, q}) \in Nat /\ Max({1, q}) >= q
  BY <1>1, MaxOfTwo DEF RetryAfterSeconds
<1>3. \A m \in Nat : m >= q => m * Second >= q * Second
  BY <1>1, TimeAssumption
<1>4. QED
  <2>1. RetryAfterSeconds(wait) \in Nat /\ RetryAfterSeconds(wait) >= q
    BY <1>2
  <2>2. RetryAfterSeconds(wait) * Second >= q * Second
    BY <1>3, <2>1
  <2>3. RetryAfterSeconds(wait) * Second \in Int /\ q * Second \in Int
    BY <1>1, <2>1, TimeAssumption
  <2>4. QED
    <3> HIDE DEF q
    <3>1. QED
      BY <1>1, <2>1, <2>2, <2>3

-----------------------------------------------------------------------------
(* What a run of the script finds and leaves.                              *)

LEMMA KeptFacts ==
    ASSUME TypeOK, Sized, NEW time \in Int
    PROVE  /\ Kept(time) \subseteq entries
           /\ IsFiniteSet(Kept(time)) /\ Cardinality(Kept(time)) \in Nat
           /\ Cardinality(Kept(time)) <= Cardinality(entries)
           /\ Cardinality(Kept(time)) = Cardinality(entries) => Kept(time) = entries
           /\ Cardinality(entries) \in Nat
<1>1. Kept(time) \subseteq entries
  BY DEF Kept
<1>2. QED
  BY <1>1, FS_Subset, FS_CardinalityType DEF Sized

\* A full window has an oldest entry; Retry-After waits for it.
LEMMA RetryAfterFacts ==
    ASSUME TypeOK, Sized, NEW time \in Nat, Full(time)
    PROVE  /\ entries = Kept(time) /\ Cardinality(entries) = Limit
           /\ RetryAfter(time) \in Nat
           /\ \E e \in entries : e.score + Window <= time + RetryAfter(time)
<1> DEFINE scores == {e.score : e \in Kept(time)}
<1>1. entries = Kept(time) /\ Cardinality(entries) = Limit
  BY KeptFacts, LimitAssumption DEF Full, Sized
<1>2. Kept(time) # {}
  BY <1>1, LimitAssumption, FS_EmptySet
<1>3. scores \subseteq Nat /\ scores # {}
  BY <1>1, <1>2, TimeAssumption DEF TypeOK, Member
<1>4. Min(scores) \in scores
  <2> HIDE DEF scores
  <2>1. QED
    BY <1>3, MinFacts
<1>5. PICK e \in Kept(time) : e.score = Min(scores)
  BY <1>4
<1>6. e.score \in Nat
  BY <1>3
<1>7. RetryAfter(time) = Max({1, Window - (time - e.score)})
  BY <1>5 DEF RetryAfter
<1>8. Window - (time - e.score) \in Int
  BY <1>6, TimeAssumption
<1>9. RetryAfter(time) \in Nat /\ RetryAfter(time) >= Window - (time - e.score)
  BY <1>7, <1>8, MaxOfTwo
<1>10. e.score + Window <= time + RetryAfter(time)
  BY <1>6, <1>9, TimeAssumption
<1>11. QED
  BY <1>1, <1>5, <1>9, <1>10

-----------------------------------------------------------------------------
(* A run of the script.                                                    *)

LEMMA RunType ==
    ASSUME IInv, NEW r \in Requests, RunScript(r)
    PROVE  /\ entries' \subseteq Member /\ granted' \subseteq Grant
           /\ expires' \in 0..(MaxTime + Window)
           /\ granted \subseteq granted'
<1>1. [req |-> r, score |-> stamp[r]] \in Member /\ [req |-> r, at |-> now] \in Grant
  BY DEF IInv, TypeOK, Member, Grant
<1>2. Kept(stamp[r]) \subseteq Member
  BY DEF IInv, TypeOK, Kept
<1>3. expires' \in 0..(MaxTime + Window)
  BY TimeAssumption DEF IInv, TypeOK, RunScript
<1>4. QED
  BY <1>1, <1>2, <1>3 DEF IInv, TypeOK, RunScript

\* What the script adds or trims.
LEMMA RunEntries ==
    ASSUME IInv, NEW r \in Requests, RunScript(r)
    PROVE  /\ IsFiniteSet(entries') /\ IsFiniteSet(granted')
           /\ Cardinality(entries') <= Limit
           /\ \A e \in entries' : e \in entries \/ e = [req |-> r, score |-> stamp[r]]
           /\ \A e \in entries : e.score > stamp[r] - Window => e \in entries'
           /\ ~Full(stamp[r]) => [req |-> r, score |-> stamp[r]] \in entries'
           /\ Full(stamp[r]) => entries' = entries /\ granted' = granted
<1> DEFINE new == [req |-> r, score |-> stamp[r]]
<1>1. stamp[r] \in Int /\ TypeOK /\ Sized
  BY DEF IInv, TypeOK
<1>2. /\ Kept(stamp[r]) \subseteq entries
      /\ IsFiniteSet(Kept(stamp[r])) /\ Cardinality(Kept(stamp[r])) \in Nat
      /\ Cardinality(Kept(stamp[r])) <= Cardinality(entries)
      /\ Cardinality(Kept(stamp[r])) = Cardinality(entries) => Kept(stamp[r]) = entries
      /\ Cardinality(entries) \in Nat
  BY <1>1, KeptFacts
<1>3. \A e \in entries : e.score > stamp[r] - Window => e \in Kept(stamp[r])
  BY DEF Kept
<1>4. CASE Full(stamp[r])
  <2>1. entries' = Kept(stamp[r]) /\ granted' = granted
    BY <1>4 DEF RunScript
  <2>2. Kept(stamp[r]) = entries
    BY <1>1, <1>2, <1>4, LimitAssumption DEF Full, Sized
  <2>3. QED
    BY <1>1, <1>4, <2>1, <2>2 DEF Sized
<1>5. CASE ~Full(stamp[r])
  <2>1. /\ entries' = Kept(stamp[r]) \union {new}
        /\ granted' = granted \union {[req |-> r, at |-> now]}
    BY <1>5 DEF RunScript
  <2>2. IsFiniteSet(granted')
    BY <1>1, <2>1, FS_AddElement DEF Sized
  <2>3. IsFiniteSet(entries') /\ Cardinality(entries') <= Cardinality(Kept(stamp[r])) + 1
    <3> DEFINE K == Kept(stamp[r])
    <3> HIDE DEF new, K
    <3>1. /\ IsFiniteSet(K \union {new})
          /\ \/ Cardinality(K \union {new}) = Cardinality(K)
             \/ Cardinality(K \union {new}) = Cardinality(K) + 1
      BY <1>2, FS_AddElement DEF K
    <3>2. Cardinality(K) \in Nat /\ entries' = K \union {new}
      BY <1>2, <2>1 DEF K
    <3>3. Cardinality(entries') <= Cardinality(K) + 1
      BY <3>1, <3>2
    <3>4. QED
      BY <3>1, <3>2, <3>3 DEF K
  <2>4. Cardinality(entries') <= Limit
    BY <1>2, <1>5, <2>3, FS_CardinalityType, LimitAssumption DEF Full
  <2>5. QED
    BY <1>2, <1>3, <1>5, <2>1, <2>2, <2>3, <2>4
<1>6. QED
  BY <1>4, <1>5

LEMMA RunSized ==
    ASSUME IInv, NEW r \in Requests, pc[r] = "sent", RunScript(r), UNCHANGED stamp,
           \A q \in Requests : pc[q] # "new" => pc'[q] # "new"
    PROVE  Sized'
<1>1. /\ IsFiniteSet(entries') /\ IsFiniteSet(granted')
      /\ Cardinality(entries') <= Limit
      /\ \A e \in entries' : e \in entries \/ e = [req |-> r, score |-> stamp[r]]
  BY RunEntries
<1>2. ASSUME NEW e \in entries'
      PROVE  e.score = stamp'[e.req] /\ pc'[e.req] # "new"
  <2>1. CASE e \in entries
    BY <2>1 DEF IInv, Sized, TypeOK, Member
  <2>2. CASE e = [req |-> r, score |-> stamp[r]]
    BY <2>2
  <2>3. QED
    BY <1>1, <2>1, <2>2
<1>3. QED
  BY <1>1, <1>2 DEF Sized

\* A grant whose entry must still be there has one the script does not trim.
LEMMA Untrimmed ==
    ASSUME IInv, NEW r \in Requests, pc[r] = "sent",
           NEW g \in granted, now < g.at + Window - MaxDelay
    PROVE  \E e \in entries : /\ e.req = g.req /\ g.at <= e.score + MaxDelay
                              /\ e.score > stamp[r] - Window
<1>1. PICK e \in entries : e.req = g.req /\ g.at <= e.score + MaxDelay
  BY DEF IInv, Remembered
<1>2. stamp[r] <= now /\ stamp[r] \in Int /\ now \in Int /\ g.at \in Int /\ e.score \in Int
  BY DEF IInv, Timed, TypeOK, Grant, Member
<1>3. e.score > stamp[r] - Window
  BY <1>1, <1>2, TimeAssumption
<1>4. QED
  BY <1>1, <1>3

LEMMA RunRemembered ==
    ASSUME IInv, NEW r \in Requests, pc[r] = "sent", RunScript(r), UNCHANGED now
    PROVE  Remembered'
<1> DEFINE new == [req |-> r, score |-> stamp[r]]
<1>1. /\ \A e \in entries : e.score > stamp[r] - Window => e \in entries'
      /\ ~Full(stamp[r]) => new \in entries'
      /\ Full(stamp[r]) => entries' = entries /\ granted' = granted
  BY RunEntries
<1>2. expires' = now + Window
  BY DEF RunScript
<1>3. now \in Nat /\ \A g \in granted : g.at \in Int /\ g.at <= now
  BY DEF IInv, TypeOK, Grant, Remembered
<1>4. ASSUME NEW g \in granted'
      PROVE  /\ g.at <= now /\ g.at + Window <= expires'
             /\ now < g.at + Window - MaxDelay =>
                  \E e \in entries' : e.req = g.req /\ g.at <= e.score + MaxDelay
  <2>1. CASE g \in granted
    <3>1. g.at <= now /\ g.at + Window <= expires'
      BY <1>2, <1>3, <2>1, TimeAssumption
    <3>2. ASSUME now < g.at + Window - MaxDelay
          PROVE  \E e \in entries' : e.req = g.req /\ g.at <= e.score + MaxDelay
      BY <1>1, <2>1, <3>2, Untrimmed
    <3>3. QED
      BY <3>1, <3>2
  <2>2. CASE g \notin granted
    <3>1. g = [req |-> r, at |-> now] /\ ~Full(stamp[r])
      BY <2>2 DEF RunScript
    <3>2. g.at = now /\ g.req = r /\ new.req = r /\ new.score = stamp[r]
      BY <3>1
    <3>3. now <= stamp[r] + MaxDelay
      BY DEF IInv, Timed
    <3>4. QED
      BY <1>1, <1>2, <1>3, <3>1, <3>2, <3>3, TimeAssumption
  <2>3. QED
    BY <2>1, <2>2
<1>5. QED
  BY <1>4 DEF Remembered

\* Everybody let in during a window that is not over yet has an entry of its
\* own, and there are at most Limit entries.
LEMMA RunWindow ==
    ASSUME IInv, NEW r \in Requests, pc[r] = "sent", RunScript(r), UNCHANGED now
    PROVE  WindowLimit'
<1> DEFINE In(t)   == {h \in granted' : t <= h.at /\ h.at < t + Window - MaxDelay}
           Who(t)  == {g.req : g \in In(t)}
           names   == {e.req : e \in entries'}
<1>1. Remembered' /\ granted' \subseteq Grant /\ granted \subseteq granted'
  BY RunRemembered, RunType
<1>2. IsFiniteSet(entries') /\ Cardinality(entries') <= Limit
  BY RunEntries
<1>3. IsFiniteSet(names) /\ Cardinality(names) <= Cardinality(entries')
  <2> DEFINE f == [e \in entries' |-> e.req]
  <2>1. f \in Surjection(entries', names)
    BY DEF Surjection
  <2>2. QED
    <3> HIDE DEF f, names
    <3>1. QED
      BY <1>2, <2>1, FS_Surjection
<1>4. now \in Nat
  BY DEF IInv, TypeOK
<1>5. SUFFICES ASSUME NEW t \in 0..MaxTime PROVE Cardinality(Who(t)) <= Limit
  BY DEF WindowLimit
<1>6. CASE t <= now /\ now < t + Window - MaxDelay
  <2>1. ASSUME NEW g \in In(t) PROVE \E e \in entries' : e.req = g.req
    <3>1. g \in granted' /\ t <= g.at /\ g.at \in Int
      BY <1>1, <2>1 DEF Grant
    <3>2. now < g.at + Window - MaxDelay
      BY <1>4, <1>6, <3>1, TimeAssumption
    <3>3. QED
      BY <1>1, <3>1, <3>2 DEF Remembered
  <2>2. Who(t) \in SUBSET names
    BY <2>1
  <2>3. Cardinality(Who(t)) <= Cardinality(names) /\ IsFiniteSet(Who(t))
    <3> HIDE DEF Who, names
    <3>1. QED
      BY <1>3, <2>2, FS_Subset
  <2>4. QED
    <3> HIDE DEF Who, names
    <3>1. QED
      BY <1>2, <1>3, <2>3, FS_CardinalityType, LimitAssumption
<1>7. CASE ~(t <= now /\ now < t + Window - MaxDelay)
  <2>1. In(t) = {h \in granted : t <= h.at /\ h.at < t + Window - MaxDelay}
    BY <1>1, <1>7 DEF RunScript
  <2>2. QED
    BY <2>1 DEF IInv, WindowLimit
<1>8. QED
  BY <1>6, <1>7

\* A 429 that nobody was let in after goes on waiting for the same entry.
LEMMA RunWaiting ==
    ASSUME IInv, NEW r \in Requests, pc[r] = "sent", RunScript(r),
           NEW q \in Requests, reply[q].code = 429
    PROVE  /\ reply[q].grants <= Cardinality(granted')
           /\ reply[q].grants = Cardinality(granted') =>
                \/ Cardinality(entries') < Limit
                \/ \E e \in entries' :
                     e.score + Window <= reply[q].at + reply[q].wait * Second
<1> DEFINE new == [req |-> r, score |-> stamp[r]]
<1>1. /\ IsFiniteSet(granted) /\ IsFiniteSet(granted') /\ granted \subseteq granted'
      /\ IsFiniteSet(entries) /\ IsFiniteSet(entries') /\ Cardinality(entries) <= Limit
  BY RunEntries, RunType DEF IInv, Sized
<1>2. /\ Cardinality(granted) \in Nat /\ Cardinality(granted') \in Nat
      /\ Cardinality(granted) <= Cardinality(granted')
      /\ Cardinality(granted) = Cardinality(granted') => granted = granted'
  BY <1>1, FS_Subset, FS_CardinalityType
<1>3. reply[q].grants \in Nat /\ reply[q].grants <= Cardinality(granted)
  BY DEF IInv, Waiting, TypeOK, Reply
<1>4. ASSUME reply[q].grants = Cardinality(granted')
      PROVE  \/ Cardinality(entries') < Limit
             \/ \E e \in entries' :
                  e.score + Window <= reply[q].at + reply[q].wait * Second
  <2>1. granted' = granted /\ reply[q].grants = Cardinality(granted)
    BY <1>2, <1>3, <1>4
  <2>2. entries' \subseteq entries
    <3>1. CASE Full(stamp[r])
      <4>1. entries' = entries
        BY <3>1, RunEntries
      <4>2. QED
        BY <4>1
    <3>2. CASE ~Full(stamp[r])
      <4>1. [req |-> r, at |-> now] \in granted
        BY <2>1, <3>2 DEF RunScript
      <4>2. now < [req |-> r, at |-> now].at + Window - MaxDelay
        BY TimeAssumption DEF IInv, TypeOK
      <4>3. PICK e \in entries : e.req = r
        BY <4>1, <4>2, Untrimmed
      <4>4. e = new
        BY <4>3 DEF IInv, Sized, TypeOK, Member
      <4>5. \A x \in entries' : x \in entries \/ x = new
        BY RunEntries
      <4>6. QED
        BY <4>3, <4>4, <4>5
    <3>3. QED
      BY <3>1, <3>2
  <2>3. CASE entries' = entries
    BY <2>1, <2>3 DEF IInv, Waiting
  <2>4. CASE entries' # entries
    <3>1. /\ Cardinality(entries') <= Cardinality(entries)
          /\ Cardinality(entries) # Cardinality(entries')
      BY <1>1, <2>2, <2>4, FS_Subset
    <3>2. QED
      BY <1>1, <3>1, FS_CardinalityType, LimitAssumption
  <2>5. QED
    BY <2>3, <2>4
<1>5. QED
  BY <1>2, <1>3, <1>4

-----------------------------------------------------------------------------
(* The invariant.                                                          *)

LEMMA IInvInit ==
    Init => IInv
<1> SUFFICES ASSUME Init PROVE IInv
  OBVIOUS
<1>1. TypeOK
  BY LimitAssumption, TimeAssumption, FaultAssumption DEF Init, TypeOK, Reply, NoReply
<1>2. Timed /\ Remembered
  BY DEF Init, Timed, Remembered
<1>3. Sized
  BY FS_EmptySet, LimitAssumption DEF Init, Sized
<1>4. Waiting
  BY DEF Init, Waiting, NoReply
<1>5. WindowLimit
  <2>1. ASSUME NEW t \in 0..MaxTime
        PROVE  Cardinality({g.req : g \in {h \in granted :
                 t <= h.at /\ h.at < t + Window - MaxDelay}}) <= Limit
    <3>1. {g.req : g \in {h \in granted :
             t <= h.at /\ h.at < t + Window - MaxDelay}} = {}
      BY DEF Init
    <3>2. QED
      BY <3>1, FS_EmptySet, LimitAssumption
  <2>2. QED
    BY <2>1 DEF WindowLimit
<1>6. QED
  BY <1>1, <1>2, <1>3, <1>4, <1>5 DEF IInv

LEMMA AnswerFacts ==
    ASSUME IInv, NEW r \in Requests, NEW code \in {202, 429, 500}, NEW wait \in Nat,
           Answer(r, code, wait)
    PROVE  /\ reply' \in [Requests -> Reply]
           /\ pc' \in [Requests -> {"new", "sent", "done"}]
           /\ \A q \in Requests : pc'[q] = IF q = r THEN "done" ELSE pc[q]
           /\ \A q \in Requests : q # r => reply'[q] = reply[q]
           /\ reply'[r] = [code |-> code, wait |-> wait, at |-> now,
                           grants |-> Cardinality(granted)]
<1>1. Cardinality(granted) \in Nat
  BY FS_CardinalityType DEF IInv, Sized
<1>2. [code |-> code, wait |-> wait, at |-> now, grants |-> Cardinality(granted)] \in Reply
  BY <1>1 DEF Reply, IInv, TypeOK
<1>3. QED
  BY <1>2 DEF Answer, IInv, TypeOK

\* What the script and an answer other than 429 do to everything but Waiting.
LEMMA RunRest ==
    ASSUME IInv, NEW r \in Requests, pc[r] = "sent", RunScript(r),
           UNCHANGED <<now, stamp>>, faults' \in 0..MaxFaults,
           reply' \in [Requests -> Reply],
           pc' \in [Requests -> {"new", "sent", "done"}],
           \A q \in Requests : pc'[q] = pc[q] \/ pc'[q] = "done"
    PROVE  TypeOK' /\ Timed' /\ Sized' /\ Remembered' /\ WindowLimit'
<1>1. TypeOK'
  <2>1. /\ entries' \subseteq Member /\ granted' \subseteq Grant
        /\ expires' \in 0..(MaxTime + Window)
    BY RunType
  <2>2. QED
    BY <2>1 DEF IInv, TypeOK
<1>2. Timed'
  BY DEF IInv, Timed
<1>3. Sized'
  BY RunSized
<1>4. Remembered'
  BY RunRemembered
<1>5. WindowLimit'
  BY RunWindow
<1>6. QED
  BY <1>1, <1>2, <1>3, <1>4, <1>5

LEMMA AllowStep ==
    ASSUME IInv, NEW r \in Requests, Allow(r)
    PROVE  IInv'
<1>1. /\ pc[r] = "sent" /\ RunScript(r) /\ Answer(r, 202, 0)
      /\ UNCHANGED <<now, stamp, faults>>
  BY DEF Allow
<1>2. /\ reply' \in [Requests -> Reply]
      /\ pc' \in [Requests -> {"new", "sent", "done"}]
      /\ \A q \in Requests : pc'[q] = IF q = r THEN "done" ELSE pc[q]
      /\ \A q \in Requests : q # r => reply'[q] = reply[q]
      /\ reply'[r].code = 202
  <2>1. /\ reply' \in [Requests -> Reply]
        /\ pc' \in [Requests -> {"new", "sent", "done"}]
        /\ \A q \in Requests : pc'[q] = IF q = r THEN "done" ELSE pc[q]
        /\ \A q \in Requests : q # r => reply'[q] = reply[q]
        /\ reply'[r] = [code |-> 202, wait |-> 0, at |-> now,
                        grants |-> Cardinality(granted)]
    BY <1>1, AnswerFacts
  <2>2. reply'[r].code = 202
    BY <2>1
  <2>3. QED
    BY <2>1, <2>2
<1>3. TypeOK' /\ Timed' /\ Sized' /\ Remembered' /\ WindowLimit'
  <2>1. faults' \in 0..MaxFaults
    BY <1>1 DEF IInv, TypeOK
  <2>2. QED
    BY <1>1, <1>2, <2>1, RunRest
<1>4. ASSUME NEW q \in Requests, reply'[q].code = 429
      PROVE  /\ reply'[q].grants <= Cardinality(granted')
             /\ reply'[q].grants = Cardinality(granted') =>
                  \/ Cardinality(entries') < Limit
                  \/ \E e \in entries' :
                       e.score + Window <= reply'[q].at + reply'[q].wait * Second
  <2>1. reply'[q] = reply[q] /\ reply[q].code = 429
    BY <1>2, <1>4
  <2>2. QED
    BY <1>1, <2>1, RunWaiting
<1>5. Waiting'
  BY <1>4 DEF Waiting
<1>6. QED
  BY <1>3, <1>5 DEF IInv

LEMMA AnswerLostStep ==
    ASSUME IInv, NEW r \in Requests, AnswerLost(r)
    PROVE  IInv'
<1>1. /\ pc[r] = "sent" /\ RunScript(r)
      /\ UNCHANGED <<now, pc, stamp, reply>>
      /\ faults < MaxFaults /\ faults' = faults + 1
  BY DEF AnswerLost, Fault
<1>2. TypeOK' /\ Timed' /\ Sized' /\ Remembered' /\ WindowLimit'
  <2>1. faults' \in 0..MaxFaults
    BY <1>1, FaultAssumption DEF IInv, TypeOK
  <2>2. /\ reply' \in [Requests -> Reply]
        /\ pc' \in [Requests -> {"new", "sent", "done"}]
        /\ \A q \in Requests : pc'[q] = pc[q] \/ pc'[q] = "done"
    BY <1>1 DEF IInv, TypeOK
  <2>3. QED
    BY <1>1, <2>1, <2>2, RunRest
<1>3. ASSUME NEW q \in Requests, reply'[q].code = 429
      PROVE  /\ reply'[q].grants <= Cardinality(granted')
             /\ reply'[q].grants = Cardinality(granted') =>
                  \/ Cardinality(entries') < Limit
                  \/ \E e \in entries' :
                       e.score + Window <= reply'[q].at + reply'[q].wait * Second
  <2>1. reply'[q] = reply[q] /\ reply[q].code = 429
    BY <1>1, <1>3
  <2>2. QED
    BY <1>1, <2>1, RunWaiting
<1>4. Waiting'
  BY <1>3 DEF Waiting
<1>5. QED
  BY <1>2, <1>4 DEF IInv

\* The 429 itself waits for the oldest entry.
LEMMA RejectStep ==
    ASSUME IInv, NEW r \in Requests, Reject(r)
    PROVE  IInv'
<1> DEFINE wait == RetryAfterSeconds(RetryAfter(stamp[r]))
<1>1. /\ pc[r] = "sent" /\ Full(stamp[r]) /\ RunScript(r) /\ Answer(r, 429, wait)
      /\ UNCHANGED <<now, stamp, faults>>
  BY DEF Reject
<1>2. stamp[r] \in Nat /\ now \in Nat /\ stamp[r] <= now /\ TypeOK /\ Sized
  BY <1>1 DEF IInv, Timed, TypeOK
<1>3. /\ RetryAfter(stamp[r]) \in Nat
      /\ \E e \in entries : e.score + Window <= stamp[r] + RetryAfter(stamp[r])
  BY <1>1, <1>2, RetryAfterFacts
<1>4. wait \in Nat /\ wait * Second >= RetryAfter(stamp[r])
  BY <1>3, RoundedUp
<1> HIDE DEF wait
<1>5. /\ reply' \in [Requests -> Reply]
      /\ pc' \in [Requests -> {"new", "sent", "done"}]
      /\ \A q \in Requests : pc'[q] = IF q = r THEN "done" ELSE pc[q]
      /\ \A q \in Requests : q # r => reply'[q] = reply[q]
      /\ reply'[r] = [code |-> 429, wait |-> wait, at |-> now,
                      grants |-> Cardinality(granted)]
  BY <1>1, <1>4, AnswerFacts
<1>6. TypeOK' /\ Timed' /\ Sized' /\ Remembered' /\ WindowLimit'
  <2>1. faults' \in 0..MaxFaults
    BY <1>1 DEF IInv, TypeOK
  <2>2. \A q \in Requests : pc'[q] = pc[q] \/ pc'[q] = "done"
    BY <1>5
  <2>3. QED
    BY <1>1, <1>5, <2>1, <2>2, RunRest
<1>7. ASSUME NEW q \in Requests, reply'[q].code = 429
      PROVE  /\ reply'[q].grants <= Cardinality(granted')
             /\ reply'[q].grants = Cardinality(granted') =>
                  \/ Cardinality(entries') < Limit
                  \/ \E e \in entries' :
                       e.score + Window <= reply'[q].at + reply'[q].wait * Second
  <2>1. CASE q # r
    <3>1. reply'[q] = reply[q] /\ reply[q].code = 429
      BY <1>5, <1>7, <2>1
    <3>2. QED
      BY <1>1, <3>1, RunWaiting
  <2>2. CASE q = r
    <3>1. entries' = entries /\ granted' = granted
      BY <1>1, RunEntries
    <3>2. /\ reply'[q].grants = Cardinality(granted)
          /\ reply'[q].at = now /\ reply'[q].wait = wait
      BY <1>5, <2>2
    <3>3. Cardinality(granted) \in Nat
      BY FS_CardinalityType DEF IInv, Sized
    <3>4. PICK e \in entries : e.score + Window <= stamp[r] + RetryAfter(stamp[r])
      BY <1>3
    <3>5. e.score \in Int /\ Window \in Int
      BY TimeAssumption DEF IInv, TypeOK, Member
    <3>6. wait * Second \in Int
      BY <1>4, TimeAssumption
    <3>7. e.score + Window <= now + wait * Second
      BY <1>2, <1>3, <1>4, <3>4, <3>5, <3>6
    <3>8. QED
      BY <3>1, <3>2, <3>3, <3>7
  <2>3. QED
    BY <2>1, <2>2
<1>8. Waiting'
  BY <1>7 DEF Waiting
<1>9. QED
  BY <1>6, <1>8 DEF IInv

LEMMA FailsStep ==
    ASSUME IInv, NEW r \in Requests, Fails(r)
    PROVE  IInv'
<1>1. /\ faults < MaxFaults /\ faults' = faults + 1 /\ Answer(r, 500, 0)
      /\ UNCHANGED <<now, entries, expires, stamp, granted>>
  BY DEF Fails, Fault
<1>2. /\ reply' \in [Requests -> Reply]
      /\ pc' \in [Requests -> {"new", "sent", "done"}]
      /\ \A q \in Requests : pc'[q] = IF q = r THEN "done" ELSE pc[q]
      /\ \A q \in Requests : q # r => reply'[q] = reply[q]
      /\ reply'[r].code = 500
  <2>1. /\ reply' \in [Requests -> Reply]
        /\ pc' \in [Requests -> {"new", "sent", "done"}]
        /\ \A q \in Requests : pc'[q] = IF q = r THEN "done" ELSE pc[q]
        /\ \A q \in Requests : q # r => reply'[q] = reply[q]
        /\ reply'[r] = [code |-> 500, wait |-> 0, at |-> now,
                        grants |-> Cardinality(granted)]
    BY <1>1, AnswerFacts
  <2>2. reply'[r].code = 500
    BY <2>1
  <2>3. QED
    BY <2>1, <2>2
<1>3. TypeOK'
  BY <1>1, <1>2, FaultAssumption DEF IInv, TypeOK
<1>4. Timed'
  BY <1>1, <1>2 DEF IInv, Timed
<1>5. Sized'
  <2>1. \A e \in entries : e.req \in Requests
    BY DEF IInv, TypeOK, Member
  <2>2. QED
    BY <1>1, <1>2, <2>1 DEF IInv, Sized
<1>6. Remembered'
  BY <1>1 DEF IInv, Remembered
<1>7. Waiting'
  BY <1>1, <1>2 DEF IInv, Waiting
<1>8. WindowLimit'
  BY <1>1 DEF IInv, WindowLimit
<1>9. QED
  BY <1>3, <1>4, <1>5, <1>6, <1>7, <1>8 DEF IInv

LEMMA TakeTimeStep ==
    ASSUME IInv, NEW r \in Requests, TakeTime(r)
    PROVE  IInv'
<1>1. TypeOK'
  BY DEF IInv, TypeOK, TakeTime
<1>2. Timed'
  BY TimeAssumption DEF IInv, TypeOK, Timed, TakeTime
<1>3. Sized'
  BY DEF IInv, TypeOK, Sized, Member, TakeTime
<1>4. Remembered' /\ Waiting' /\ WindowLimit'
  BY DEF IInv, Remembered, Waiting, WindowLimit, TakeTime
<1>5. QED
  BY <1>1, <1>2, <1>3, <1>4 DEF IInv

\* The key is dropped only when no grant of the window needs it.
LEMMA TickStep ==
    ASSUME IInv, Tick
    PROVE  IInv'
<1>1. /\ now < MaxTime /\ now' = now + 1 /\ now \in Nat
      /\ \A r \in Requests : pc[r] = "sent" => now - stamp[r] < MaxDelay
      /\ UNCHANGED <<expires, pc, stamp, reply, granted, faults>>
      /\ entries' = entries \/ (entries' = {} /\ expires <= now')
  BY DEF IInv, TypeOK, Tick
<1>2. TypeOK'
  BY <1>1, TimeAssumption DEF IInv, TypeOK
<1>3. Timed'
  BY <1>1, TimeAssumption DEF IInv, TypeOK, Timed
<1>4. Sized'
  BY <1>1, FS_EmptySet, LimitAssumption DEF IInv, Sized
<1>5. Remembered'
  <2>1. ASSUME NEW g \in granted
        PROVE  /\ g.at <= now' /\ g.at + Window <= expires
               /\ now' < g.at + Window - MaxDelay =>
                    \E e \in entries' : e.req = g.req /\ g.at <= e.score + MaxDelay
    <3>1. /\ g.at \in Nat /\ g.at <= now /\ g.at + Window <= expires
          /\ now < g.at + Window - MaxDelay =>
               \E e \in entries : e.req = g.req /\ g.at <= e.score + MaxDelay
      BY DEF IInv, TypeOK, Grant, Remembered
    <3>2. g.at <= now'
      BY <1>1, <3>1
    <3>3. ASSUME now' < g.at + Window - MaxDelay
          PROVE  entries' = entries /\ now < g.at + Window - MaxDelay
      BY <1>1, <3>1, <3>3, TimeAssumption DEF IInv, TypeOK
    <3>4. QED
      BY <3>1, <3>2, <3>3
  <2>2. QED
    BY <1>1, <2>1 DEF Remembered
<1>6. Waiting'
  <2>1. CASE entries' = entries
    BY <1>1, <2>1 DEF IInv, Waiting
  <2>2. CASE entries' = {}
    <3>1. Cardinality(entries') < Limit
      BY <2>2, FS_EmptySet, LimitAssumption
    <3>2. QED
      BY <1>1, <3>1 DEF IInv, Waiting
  <2>3. QED
    BY <1>1, <2>1, <2>2
<1>7. WindowLimit'
  BY <1>1 DEF IInv, WindowLimit
<1>8. QED
  BY <1>2, <1>3, <1>4, <1>5, <1>6, <1>7 DEF IInv

LEMMA IInvStep ==
    IInv /\ [Next]_vars => IInv'
<1> SUFFICES ASSUME IInv, [Next]_vars PROVE IInv'
  OBVIOUS
<1>1. ASSUME NEW r \in Requests, TakeTime(r) PROVE IInv'
  BY <1>1, TakeTimeStep
<1>2. ASSUME NEW r \in Requests, Allow(r) PROVE IInv'
  BY <1>2, AllowStep
<1>3. ASSUME NEW r \in Requests, Reject(r) PROVE IInv'
  BY <1>3, RejectStep
<1>4. ASSUME NEW r \in Requests, AnswerLost(r) PROVE IInv'
  BY <1>4, AnswerLostStep
<1>5. ASSUME NEW r \in Requests, Fails(r) PROVE IInv'
  BY <1>5, FailsStep
<1>6. CASE Tick
  BY <1>6, TickStep
<1>7. CASE UNCHANGED vars
  <2>1. TypeOK' /\ Timed' /\ Sized' /\ Remembered' /\ Waiting' /\ WindowLimit'
    BY <1>7 DEF vars, IInv, TypeOK, Timed, Sized, Remembered, Waiting, WindowLimit
  <2>2. QED
    BY <2>1 DEF IInv
<1>8. QED
  BY <1>1, <1>2, <1>3, <1>4, <1>5, <1>6, <1>7 DEF Next

\* When a Retry-After is over, the entry it waited for has left the window.
LEMMA IInvRetryAfter ==
    IInv => RetryAfterIsEnough
<1> SUFFICES ASSUME IInv, NEW r \in Requests, reply[r].code = 429,
                    reply[r].at + reply[r].wait * Second <= now,
                    reply[r].grants = Cardinality(granted)
             PROVE  ~Full(now)
  BY DEF RetryAfterIsEnough
<1>1. TypeOK /\ Sized /\ now \in Int
  BY DEF IInv, TypeOK
<1>2. /\ Kept(now) \subseteq entries /\ Cardinality(Kept(now)) \in Nat
      /\ Cardinality(Kept(now)) <= Cardinality(entries) /\ Cardinality(entries) \in Nat
      /\ Cardinality(Kept(now)) = Cardinality(entries) => Kept(now) = entries
  BY <1>1, KeptFacts
<1>3. CASE Cardinality(entries) < Limit
  BY <1>2, <1>3, LimitAssumption DEF Full
<1>4. ASSUME NEW e \in entries,
             e.score + Window <= reply[r].at + reply[r].wait * Second
      PROVE  ~Full(now)
  <2>1. reply[r].at \in Int /\ reply[r].wait * Second \in Int /\ e.score \in Int
    BY <1>1, TimeAssumption DEF TypeOK, Reply, Member
  <2>2. ~(e.score > now - Window)
    BY <1>1, <1>4, <2>1, TimeAssumption
  <2>3. e \notin Kept(now)
    BY <2>2 DEF Kept
  <2>4. Cardinality(Kept(now)) # Cardinality(entries)
    BY <1>2, <2>3
  <2>5. Cardinality(entries) <= Limit
    BY <1>1 DEF Sized
  <2>6. QED
    BY <1>2, <2>4, <2>5, LimitAssumption DEF Full
<1>5. QED
  BY <1>3, <1>4 DEF IInv, Waiting

\* Everything below follows from this: the sorted set remembers every grant
\* that can still share a window with a new one.
THEOREM Invariance ==
    Spec => []IInv
<1>1. QED
  BY IInvInit, IInvStep, PTL DEF Spec

\* Every variable keeps its type.
THEOREM TypeCorrect ==
    Spec => []TypeOK
<1>1. IInv => TypeOK
  BY DEF IInv
<1>2. QED
  BY <1>1, Invariance, PTL

\* However late the scripts run and in whatever order, and however often an
\* answer is lost and the script sent again, no window (less the delay) lets in
\* more than the limit.
THEOREM WindowIsLimited ==
    Spec => []WindowLimit
<1>1. IInv => WindowLimit
  BY DEF IInv
<1>2. QED
  BY <1>1, Invariance, PTL

\* A client that waits as long as its 429 said is let in, unless somebody else
\* was in the meantime.
THEOREM RetryAfterSuffices ==
    Spec => []RetryAfterIsEnough
<1>1. QED
  BY Invariance, IInvRetryAfter, PTL
=============================================================================
