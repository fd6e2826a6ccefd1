--------------------------- MODULE WebhookProofs ---------------------------
(***************************************************************************)
(* What the callbacks tell is true, goes to one endpoint that was          *)
(* configured, and ends as it is recorded, for any number of transactions, *)
(* workers, endpoints, attempts, reconfigurations and faults.              *)
(***************************************************************************)
EXTENDS Webhook, Induction, TLAPS

-----------------------------------------------------------------------------
(* fibonacciRetryBackoff and its sums.                                     *)

\* x, or the longest duration.
CutOff(x) == IF x <= MaxSeconds THEN x ELSE MaxSeconds

\* There is a function that Fib defines: each number beside the next one.
LEMMA FibIs == Fib = [n \in Nat |-> IF n <= 2 THEN 1 ELSE Fib[n - 1] + Fib[n - 2]]
<1> DEFINE Pair == [this : Nat, next : Nat]
           step == [p \in Nat \X Pair |->
                      [this |-> p[2].next,
                       next |-> IF p[1] = 0 THEN 1 ELSE p[2].this + p[2].next]]
<1>1. step \in [Nat \X Pair -> Pair]
  OBVIOUS
<1>2. [this |-> 1, next |-> 1] \in Pair
  OBVIOUS
<1>3. PICK h : Follows(h, Pair, [this |-> 1, next |-> 1], step)
  <2> HIDE DEF Pair, step
  <2>1. QED
    BY <1>1, <1>2, Recursion
<1>4. /\ h[0] = [this |-> 1, next |-> 1]
      /\ \A n \in Nat : h[n] \in Pair
      /\ \A n \in Nat : /\ h[n + 1].this = h[n].next
                        /\ h[n + 1].next = IF n = 0 THEN 1 ELSE h[n].this + h[n].next
  <2>1. /\ h[0] = [this |-> 1, next |-> 1] /\ h \in [Nat -> Pair]
        /\ \A n \in Nat : h[n + 1] = step[<<n, h[n]>>]
    BY <1>3 DEF Follows
  <2>2. ASSUME NEW n \in Nat
        PROVE  /\ h[n] \in Pair
               /\ h[n + 1].this = h[n].next
               /\ h[n + 1].next = IF n = 0 THEN 1 ELSE h[n].this + h[n].next
    <3> DEFINE next == IF n = 0 THEN 1 ELSE h[n].this + h[n].next
    <3>1. <<n, h[n]>> \in Nat \X Pair
      BY <2>1
    <3>2. h[n + 1] = [this |-> h[n].next, next |-> next]
      BY <2>1, <3>1
    <3>3. h[n] \in Pair
      BY <2>1
    <3> HIDE DEF next, Pair, step
    <3>4. h[n + 1].this = h[n].next /\ h[n + 1].next = next
      BY <3>2
    <3>5. QED
      BY <3>3, <3>4 DEF next
  <2> HIDE DEF Pair, step
  <2>3. QED
    BY <2>1, <2>2
<1> DEFINE g == [n \in Nat |-> h[n].this]
<1>5. ASSUME NEW n \in Nat
      PROVE  g[n] = IF n <= 2 THEN 1 ELSE g[n - 1] + g[n - 2]
  <2>1. CASE n = 0
    BY <1>4, <2>1
  <2>2. CASE n = 1
    <3>1. h[0 + 1].this = h[0].next /\ 0 + 1 = 1
      BY <1>4
    <3>2. QED
      BY <1>4, <2>2, <3>1
  <2>3. CASE n >= 2
    <3>1. n - 2 \in Nat /\ n - 1 \in Nat /\ (n - 2) + 1 = n - 1 /\ (n - 1) + 1 = n
      BY <2>3
    <3>2. h[n].this = h[n - 1].next
      BY <1>4, <3>1
    <3>3. /\ h[n - 1].this = h[n - 2].next
          /\ h[n - 1].next = IF n - 2 = 0 THEN 1 ELSE h[n - 2].this + h[n - 2].next
      BY <1>4, <3>1
    <3>4. h[n - 2].this \in Nat /\ h[n - 2].next \in Nat
      BY <1>4, <3>1
    <3>5. QED
      BY <2>3, <3>1, <3>2, <3>3, <3>4
  <2>4. QED
    BY <2>1, <2>2, <2>3
<1>6. \E f : f = [n \in Nat |-> IF n <= 2 THEN 1 ELSE f[n - 1] + f[n - 2]]
  <2>1. g = [n \in Nat |-> IF n <= 2 THEN 1 ELSE g[n - 1] + g[n - 2]]
    BY <1>5
  <2>2. QED
    BY <2>1
<1>7. QED
  BY <1>6 DEF Fib

LEMMA FibValues ==
    /\ Fib[1] = 1 /\ Fib[2] = 1
    /\ \A n \in Nat : n > 2 => Fib[n] = Fib[n - 1] + Fib[n - 2]
    /\ \A n \in Nat : Fib[n] \in Nat /\ Fib[n] >= 1
<1>1. \A n \in Nat : Fib[n] = IF n <= 2 THEN 1 ELSE Fib[n - 1] + Fib[n - 2]
  BY FibIs
<1> DEFINE Good == {n \in Nat : \A i \in 0..n : Fib[i] \in Nat /\ Fib[i] >= 1}
<1>2. 0 \in Good
  BY <1>1
<1>3. ASSUME NEW n \in Good PROVE n + 1 \in Good
  <2>1. Fib[n + 1] \in Nat /\ Fib[n + 1] >= 1
    <3>1. CASE n + 1 <= 2
      BY <1>1, <3>1
    <3>2. CASE n + 1 > 2
      <4>1. (n + 1) - 1 = n /\ (n + 1) - 2 = n - 1 /\ n \in 0..n /\ n - 1 \in 0..n
        BY <3>2
      <4>2. /\ Fib[n] \in Nat /\ Fib[n] >= 1
            /\ Fib[n - 1] \in Nat /\ Fib[n - 1] >= 1
        BY <4>1
      <4>3. Fib[n + 1] = Fib[n] + Fib[n - 1]
        BY <1>1, <3>2, <4>1
      <4>4. QED
        BY <4>2, <4>3
    <3>3. QED
      BY <3>1, <3>2
  <2>2. \A i \in 0..(n + 1) : i \in 0..n \/ i = n + 1
    OBVIOUS
  <2>3. QED
    BY <2>1, <2>2
<1>4. Good = Nat
  <2>1. Good \in SUBSET Nat
    OBVIOUS
  <2> HIDE DEF Good
  <2>2. QED
    BY <1>2, <1>3, <2>1, Every
<1>5. \A n \in Nat : Fib[n] \in Nat /\ Fib[n] >= 1
  <2> SUFFICES ASSUME NEW n \in Nat PROVE Fib[n] \in Nat /\ Fib[n] >= 1
    OBVIOUS
  <2>1. n \in Good
    BY <1>4
  <2>2. n \in 0..n
    OBVIOUS
  <2>3. QED
    BY <2>1, <2>2
<1>6. QED
  BY <1>1, <1>5

LEMMA LoopIs ==
    Loop = [i \in Nat |->
              IF i <= 1 THEN [prev |-> 1, curr |-> 1]
              ELSE LET last == Loop[i - 1]
                   IN  [prev |-> last.curr,
                        curr |-> IF last.curr > MaxSeconds - last.prev THEN MaxSeconds
                                 ELSE last.prev + last.curr]]
<1> DEFINE Pair == [prev : Nat, curr : Nat]
           Turn(last) == [prev |-> last.curr,
                          curr |-> IF last.curr > MaxSeconds - last.prev THEN MaxSeconds
                                   ELSE last.prev + last.curr]
           step == [p \in Nat \X Pair |->
                      IF p[1] = 0 THEN [prev |-> 1, curr |-> 1] ELSE Turn(p[2])]
<1>1. step \in [Nat \X Pair -> Pair]
  BY TimeAssumption
<1>2. [prev |-> 1, curr |-> 1] \in Pair
  OBVIOUS
<1>3. PICK h : Follows(h, Pair, [prev |-> 1, curr |-> 1], step)
  <2> HIDE DEF Pair, step
  <2>1. QED
    BY <1>1, <1>2, Recursion
<1>4. /\ h[0] = [prev |-> 1, curr |-> 1] /\ h \in [Nat -> Pair]
      /\ \A n \in Nat :
           h[n + 1] = IF n = 0 THEN [prev |-> 1, curr |-> 1] ELSE Turn(h[n])
  <2> HIDE DEF Pair, Turn
  <2>1. /\ h[0] = [prev |-> 1, curr |-> 1] /\ h \in [Nat -> Pair]
        /\ \A n \in Nat : h[n + 1] = step[<<n, h[n]>>]
    BY <1>3 DEF Follows
  <2>2. ASSUME NEW n \in Nat
        PROVE  h[n + 1] = IF n = 0 THEN [prev |-> 1, curr |-> 1] ELSE Turn(h[n])
    <3>1. <<n, h[n]>> \in Nat \X Pair
      BY <2>1
    <3>2. QED
      BY <2>1, <3>1
  <2>3. QED
    BY <2>1, <2>2
<1>5. ASSUME NEW n \in Nat
      PROVE  h[n] = IF n <= 1 THEN [prev |-> 1, curr |-> 1] ELSE Turn(h[n - 1])
  <2> HIDE DEF Turn, Pair, step
  <2>1. CASE n = 0
    BY <1>4, <2>1
  <2>2. CASE n # 0
    <3>1. n - 1 \in Nat /\ (n - 1) + 1 = n /\ (n - 1 = 0 <=> n <= 1)
      BY <2>2
    <3>2. QED
      BY <1>4, <3>1
  <2>3. QED
    BY <2>1, <2>2
<1>6. h = [i \in Nat |-> IF i <= 1 THEN [prev |-> 1, curr |-> 1] ELSE Turn(h[i - 1])]
  <2> HIDE DEF Turn, Pair, step
  <2>1. QED
    BY <1>4, <1>5
<1>7. \E f : f = [i \in Nat |->
                    IF i <= 1 THEN [prev |-> 1, curr |-> 1]
                    ELSE LET last == f[i - 1]
                         IN  [prev |-> last.curr,
                              curr |-> IF last.curr > MaxSeconds - last.prev
                                       THEN MaxSeconds ELSE last.prev + last.curr]]
  BY <1>6
<1>8. QED
  BY <1>7 DEF Loop

\* The loop computes the Fibonacci numbers, cut off at the longest duration.
LEMMA LoopValues ==
    \A n \in Nat : n >= 1 => /\ Loop[n].prev = CutOff(Fib[n])
                             /\ Loop[n].curr = CutOff(Fib[n + 1])
<1>1. /\ Loop[1] = [prev |-> 1, curr |-> 1]
      /\ \A n \in Nat : n > 1 =>
           /\ Loop[n].prev = Loop[n - 1].curr
           /\ Loop[n].curr = IF Loop[n - 1].curr > MaxSeconds - Loop[n - 1].prev
                             THEN MaxSeconds ELSE Loop[n - 1].prev + Loop[n - 1].curr
  BY LoopIs
<1> DEFINE Good == {n \in Nat : n >= 1 => /\ Loop[n].prev = CutOff(Fib[n])
                                          /\ Loop[n].curr = CutOff(Fib[n + 1])}
<1>2. 0 \in Good
  OBVIOUS
<1>3. ASSUME NEW n \in Good PROVE n + 1 \in Good
  <2>1. CASE n = 0
    <3>1. CutOff(1) = 1
      BY TimeAssumption DEF CutOff
    <3>2. 0 + 1 = 1 /\ 1 + 1 = 2
      OBVIOUS
    <3>3. Loop[1].prev = 1 /\ Loop[1].curr = 1
      BY <1>1
    <3>4. QED
      BY <2>1, <3>1, <3>2, <3>3, FibValues
  <2>2. CASE n # 0
    <3>1. n \in Nat /\ n >= 1 /\ n + 1 > 1 /\ (n + 1) - 1 = n /\ n + 1 \in Nat
      BY <2>2
    <3>2. Loop[n].prev = CutOff(Fib[n]) /\ Loop[n].curr = CutOff(Fib[n + 1])
      BY <3>1
    <3>3. Fib[(n + 1) + 1] = Fib[n + 1] + Fib[n]
      <4>1. (n + 1) + 1 \in Nat /\ (n + 1) + 1 > 2 /\ ((n + 1) + 1) - 1 = n + 1
            /\ ((n + 1) + 1) - 2 = n
        BY <3>1
      <4>2. QED
        BY <4>1, FibValues
    <3>4. /\ Loop[n + 1].prev = Loop[n].curr
          /\ Loop[n + 1].curr = IF Loop[n].curr > MaxSeconds - Loop[n].prev
                                THEN MaxSeconds ELSE Loop[n].prev + Loop[n].curr
      BY <1>1, <3>1
    <3>5. ASSUME NEW x \in Nat, NEW y \in Nat, x >= 1, y >= 1
          PROVE  CutOff(x + y) = IF CutOff(x) > MaxSeconds - CutOff(y) THEN MaxSeconds
                                 ELSE CutOff(y) + CutOff(x)
      BY <3>5, TimeAssumption DEF CutOff
    <3>6. Loop[n + 1].curr = CutOff(Fib[n + 1] + Fib[n])
      BY <3>1, <3>2, <3>4, <3>5, FibValues
    <3>7. QED
      BY <3>1, <3>2, <3>3, <3>4, <3>6
  <2>3. QED
    BY <2>1, <2>2
<1>4. Good = Nat
  <2>1. Good \in SUBSET Nat
    OBVIOUS
  <2> HIDE DEF Good
  <2>2. QED
    BY <1>2, <1>3, <2>1, Every
<1>5. QED
  BY <1>4

\* The backoff after attempt n: the Fibonacci number after that of n.
LEMMA BackoffValue ==
    ASSUME NEW n \in Nat, n >= 1
    PROVE  Backoff(n) = CutOff(Fib[n + 1]) /\ Backoff(n) \in Nat
<1>1. Backoff(n) = CutOff(Fib[n + 1])
  <2>1. CASE n = 1
    <3>1. CutOff(1) = 1 /\ 1 + 1 = 2
      BY TimeAssumption DEF CutOff
    <3>2. QED
      BY <2>1, <3>1, FibValues DEF Backoff
  <2>2. CASE n # 1
    BY <2>2, LoopValues DEF Backoff
  <2>3. QED
    BY <2>1, <2>2
<1>2. Fib[n + 1] \in Nat
  BY FibValues
<1>3. QED
  BY <1>1, <1>2, TimeAssumption DEF CutOff

LEMMA SleptIs ==
    Slept = [n \in Nat |->
               IF n = 0 THEN 0
               ELSE Slept[n - 1] + (IF Fib[n + 1] <= MaxSeconds THEN Fib[n + 1]
                                    ELSE MaxSeconds)]
<1> DEFINE step == [p \in Nat \X Nat |-> p[2] + CutOff(Fib[p[1] + 2])]
<1>1. step \in [Nat \X Nat -> Nat]
  <2>1. \A n \in Nat : CutOff(Fib[n + 2]) \in Nat
    BY FibValues, TimeAssumption DEF CutOff
  <2>2. QED
    BY <2>1
<1>2. 0 \in Nat
  OBVIOUS
<1>3. PICK h : Follows(h, Nat, 0, step)
  <2> HIDE DEF step
  <2>1. QED
    BY <1>1, <1>2, Recursion
<1>4. /\ h[0] = 0 /\ h \in [Nat -> Nat]
      /\ \A n \in Nat : h[n + 1] = step[<<n, h[n]>>]
  BY <1>3 DEF Follows
<1>5. ASSUME NEW n \in Nat
      PROVE  h[n] = IF n = 0 THEN 0 ELSE h[n - 1] + CutOff(Fib[n + 1])
  <2>1. CASE n = 0
    BY <1>4, <2>1
  <2>2. CASE n # 0
    <3>1. n - 1 \in Nat /\ (n - 1) + 1 = n /\ (n - 1) + 2 = n + 1
      BY <2>2
    <3>2. h[n] = step[<<n - 1, h[n - 1]>>]
      BY <1>4, <3>1
    <3>3. <<n - 1, h[n - 1]>> \in Nat \X Nat
      BY <1>4, <3>1
    <3>4. QED
      BY <2>2, <3>1, <3>2, <3>3
  <2>3. QED
    BY <2>1, <2>2
<1>6. h = [n \in Nat |-> IF n = 0 THEN 0 ELSE h[n - 1] + CutOff(Fib[n + 1])]
  BY <1>4, <1>5
<1>7. \E f : f = [n \in Nat |->
                    IF n = 0 THEN 0
                    ELSE f[n - 1] + (IF Fib[n + 1] <= MaxSeconds THEN Fib[n + 1]
                                     ELSE MaxSeconds)]
  BY <1>6 DEF CutOff
<1>8. QED
  BY <1>7 DEF Slept

LEMMA SleptValues ==
    /\ Slept[0] = 0
    /\ \A n \in Nat : Slept[n] \in Nat
    /\ \A n \in Nat : n >= 1 => Slept[n] = Slept[n - 1] + Backoff(n)
<1>1. \A n \in Nat : Slept[n] = IF n = 0 THEN 0 ELSE Slept[n - 1] + CutOff(Fib[n + 1])
  BY SleptIs DEF CutOff
<1>2. \A n \in Nat : n >= 1 => Slept[n] = Slept[n - 1] + Backoff(n)
  BY <1>1, BackoffValue
<1> DEFINE Good == {n \in Nat : Slept[n] \in Nat}
<1>3. 0 \in Good
  BY <1>1
<1>4. ASSUME NEW n \in Good PROVE n + 1 \in Good
  <2>1. n + 1 \in Nat /\ n + 1 >= 1 /\ (n + 1) - 1 = n
    OBVIOUS
  <2>2. Slept[n + 1] = Slept[n] + Backoff(n + 1) /\ Backoff(n + 1) \in Nat
    BY <1>2, <2>1, BackoffValue
  <2>3. QED
    BY <2>1, <2>2
<1>5. Good = Nat
  <2>1. Good \in SUBSET Nat
    OBVIOUS
  <2> HIDE DEF Good
  <2>2. QED
    BY <1>3, <1>4, <2>1, Every
<1>6. QED
  BY <1>1, <1>2, <1>5

-----------------------------------------------------------------------------
(* The calls of IInv.                                                      *)

LEMMA NoCallFacts ==
    /\ NoCall.step = "idle" /\ NoCall.txn = NoTxn /\ NoCall.attempt = 1
    /\ DOMAIN NoCall = Fields /\ NoCall = [f \in Fields |-> NoCall[f]]
BY DEF NoCall, Fields

LEMMA InitIInv == Init => IInv
<1> SUFFICES ASSUME Init PROVE IInv
  OBVIOUS
<1>1. 0 \in 0..MaxRetry /\ 1 \in 1..MaxRetry
  BY RetryAssumption
<1>2. \A w \in Workers : ~Calling(w) /\ call[w] = NoCall
  BY NoCallFacts DEF Init, Calling
<1>3. TypeButBusy
  BY <1>1, <1>2, NoCallFacts DEF Init, TypeButBusy
<1>4. CallsOwn /\ Attempts
  BY <1>2, NoCallFacts DEF CallsOwn, Attempts
<1>5. Unsettled
  BY DEF Init, Unsettled
<1>6. TellsTheTruth /\ RightEndpoint /\ HonestOutcome
  BY DEF Init, TellsTheTruth, RightEndpoint, HonestOutcome
<1>7. QED
  BY <1>3, <1>4, <1>5, <1>6 DEF IInv

-----------------------------------------------------------------------------
(* What the actions make of a call.                                        *)

\* w's call becomes a record with these fields; the other calls stay.
Becomes(w, step, txn, result, url, attempt) ==
    /\ DOMAIN call' = Workers /\ call' = [v \in Workers |-> call'[v]]
    /\ \A v \in Workers : v # w => call'[v] = call[v]
    /\ DOMAIN call'[w] = Fields /\ call'[w] = [f \in Fields |-> call'[w][f]]
    /\ call'[w].step = step /\ call'[w].txn = txn /\ call'[w].status = result
    /\ call'[w].url = url /\ call'[w].attempt = attempt

LEMMA Called ==
    ASSUME TypeButBusy, NEW w \in Workers, NEW t, NEW result, NEW seconds,
           call' = [call EXCEPT ![w] =
              [NoCall EXCEPT !.step = "load", !.txn = t, !.status = result,
                             !.busy = seconds]]
    PROVE  Becomes(w, "load", t, result, NoUrl, 1)
BY DEF TypeButBusy, Becomes, NoCall, Fields

LEMMA Went ==
    ASSUME TypeButBusy, NEW w \in Workers, NEW step, NEW attempt, NEW seconds,
           Goto(w, step, attempt, seconds)
    PROVE  Becomes(w, step, call[w].txn, call[w].status, call[w].url, attempt)
<1>1. DOMAIN call[w] = Fields /\ call[w] = [f \in Fields |-> call[w][f]]
  BY DEF TypeButBusy
<1>2. call' = [call EXCEPT ![w] = [[[call[w] EXCEPT !.step = step] EXCEPT !.attempt = attempt]
                                    EXCEPT !.busy = call[w].busy + seconds]]
  BY <1>1 DEF Goto, TypeButBusy, Fields
<1>3. QED
  BY <1>1, <1>2 DEF TypeButBusy, Becomes, Fields

LEMMA Loaded ==
    ASSUME TypeButBusy, NEW w \in Workers, NEW url, NEW seconds,
           call' = [call EXCEPT ![w].step = "send", ![w].url = url,
                                ![w].busy = @ + seconds]
    PROVE  Becomes(w, "send", call[w].txn, call[w].status, url, call[w].attempt)
<1>1. DOMAIN call[w] = Fields /\ call[w] = [f \in Fields |-> call[w][f]]
  BY DEF TypeButBusy
<1>2. call' = [call EXCEPT ![w] = [[[call[w] EXCEPT !.step = "send"] EXCEPT !.url = url]
                                    EXCEPT !.busy = call[w].busy + seconds]]
  BY <1>1 DEF TypeButBusy, Fields
<1>3. /\ DOMAIN call' = Workers /\ call' = [v \in Workers |-> call'[v]]
      /\ \A v \in Workers : v # w => call'[v] = call[v]
      /\ call'[w] = [[[call[w] EXCEPT !.step = "send"] EXCEPT !.url = url]
                      EXCEPT !.busy = call[w].busy + seconds]
  BY <1>2 DEF TypeButBusy
<1>4. QED
  BY <1>1, <1>3 DEF Becomes, Fields

-----------------------------------------------------------------------------
(* Calls that end.                                                         *)

\* The call of w returns, with what its last step did.
Ended(w, how) ==
    /\ Calling(w) /\ Return(w, how)
    /\ how \in {"skipped", "delivered", "gaveUp", "lost"}
    /\ UNCHANGED <<status, config, seen>>
    /\ \/ how \in {"skipped", "lost"} /\ UNCHANGED <<received, tries>>
       \/ call[w].step = "send" /\ Try(w) /\ (Deliver(w) \/ UNCHANGED received)
    /\ how = "skipped" => call[w].step = "load" /\ ~Deliverable(config)
    /\ how = "delivered" => Try(w) /\ Deliver(w)
    /\ how = "gaveUp" => Try(w) /\ call[w].attempt = MaxRetry

\* What is sent is what was settled, to the endpoint the call has loaded.
LEMMA SentFacts ==
    ASSUME IInv, NEW w \in Workers, call[w].step = "send",
           Deliver(w) \/ UNCHANGED received
    PROVE  /\ call[w].txn \in Txns /\ call[w].url \in Urls
           /\ status[call[w].txn] = call[w].status
           /\ call[w].status \in Terminal
           /\ received \subseteq received'
           /\ \A m \in received' : \/ m \in received
                                   \/ /\ m.txn = call[w].txn /\ m.url = call[w].url
                                      /\ m.status = call[w].status
           /\ received' \subseteq [txn : Txns, status : Terminal, url : Urls]
BY DEF IInv, CallsOwn, Attempts, Calling, Deliver, TypeButBusy

\* One more attempt.
LEMMA TriedFacts ==
    ASSUME IInv, NEW w \in Workers, call[w].step = "send", Try(w)
    PROVE  /\ tries' \in [Txns -> 0..MaxRetry]
           /\ tries'[call[w].txn] = call[w].attempt
           /\ \A t \in Txns : t # call[w].txn => tries'[t] = tries[t]
<1>1. call[w].txn \in Txns /\ call[w].attempt \in 1..MaxRetry
  BY DEF IInv, CallsOwn, Calling, TypeButBusy
<1>2. tries[call[w].txn] = call[w].attempt - 1
  BY DEF IInv, Attempts
<1>3. QED
  BY <1>1, <1>2, RetryAssumption DEF IInv, TypeButBusy, Try

\* TellsTheTruth and RightEndpoint hold of what was sent in a step that
\* settles and reconfigures nothing.
LEMMA SentStep ==
    ASSUME IInv, NEW w \in Workers, UNCHANGED <<status, seen>>,
           \/ UNCHANGED received
           \/ call[w].step = "send" /\ (Deliver(w) \/ UNCHANGED received)
    PROVE  TellsTheTruth' /\ RightEndpoint'
<1>1. CASE UNCHANGED received
  BY <1>1 DEF IInv, TellsTheTruth, RightEndpoint
<1>2. CASE call[w].step = "send" /\ Deliver(w)
  <2>1. /\ \A m \in received' : \/ m \in received
                                \/ /\ m.txn = call[w].txn /\ m.url = call[w].url
                                   /\ m.status = call[w].status
        /\ status[call[w].txn] = call[w].status
    BY <1>2, SentFacts
  <2>2. /\ \E k \in seen[call[w].txn] : Deliverable(k) /\ k.url = call[w].url
        /\ \A m \in received : m.txn = call[w].txn => m.url = call[w].url
    BY <1>2 DEF IInv, Attempts
  <2>3. TellsTheTruth'
    BY <2>1 DEF IInv, TellsTheTruth
  <2>4. RightEndpoint'
    BY <2>1, <2>2 DEF IInv, RightEndpoint
  <2>5. QED
    BY <2>3, <2>4
<1>3. QED
  BY <1>1, <1>2

LEMMA EndedStep ==
    ASSUME IInv, NEW w \in Workers, NEW how, Ended(w, how)
    PROVE  IInv'
<1> DEFINE t == call[w].txn
<1>1. /\ t \in Txns /\ status[t] \in Terminal /\ outcome[t] = "none"
      /\ \A v \in Workers : Calling(v) /\ call[v].txn = t => v = w
  BY DEF Ended, IInv, CallsOwn
<1>2. /\ DOMAIN call' = Workers /\ call' = [v \in Workers |-> call'[v]]
      /\ call'[w] = NoCall /\ \A v \in Workers : v # w => call'[v] = call[v]
  BY DEF Ended, Return, IInv, TypeButBusy
<1>3. /\ outcome' \in [Txns -> {"none", "skipped", "delivered", "gaveUp", "lost"}]
      /\ outcome'[t] = how /\ \A u \in Txns : u # t => outcome'[u] = outcome[u]
  BY <1>1 DEF Ended, Return, IInv, TypeButBusy
<1>4. /\ tries' \in [Txns -> 0..MaxRetry]
      /\ \A u \in Txns : u # t => tries'[u] = tries[u]
  BY TriedFacts DEF Ended, IInv, TypeButBusy
<1>5. /\ received \subseteq received'
      /\ \A m \in received' : m \in received \/ m.txn = t
      /\ received' \subseteq [txn : Txns, status : Terminal, url : Urls]
  BY SentFacts DEF Ended, IInv, TypeButBusy
<1>6. \A v \in Workers : Calling(v)' => v # w /\ call'[v] = call[v] /\ Calling(v)
                                         /\ call[v].txn # t
  BY <1>1, <1>2, NoCallFacts DEF Calling
<1>7. TypeButBusy'
  <2>1. ASSUME NEW v \in Workers
        PROVE  /\ DOMAIN call'[v] = Fields /\ call'[v] = [f \in Fields |-> call'[v][f]]
               /\ call'[v].step \in {"idle", "load", "send", "sleep"}
               /\ call'[v].attempt \in 1..MaxRetry
               /\ call'[v].step = "idle" => call'[v] = NoCall
    <3>1. CASE v = w
      BY <1>2, <3>1, NoCallFacts, RetryAssumption
    <3>2. CASE v # w
      BY <1>2, <3>2 DEF IInv, TypeButBusy
    <3>3. QED
      BY <3>1, <3>2
  <2>2. QED
    BY <1>2, <1>3, <1>4, <1>5, <2>1 DEF Ended, IInv, TypeButBusy
<1>8. CallsOwn'
  BY <1>1, <1>3, <1>6 DEF Ended, IInv, CallsOwn
<1>9. Unsettled'
  BY <1>1, <1>3, <1>4, <1>5 DEF Ended, IInv, Unsettled, Terminal
<1>10. Attempts'
  <2>1. ASSUME NEW v \in Workers, call'[v].step # "idle"
        PROVE  /\ call'[v] = call[v] /\ call[v].txn \in Txns /\ call[v].txn # t
               /\ tries'[call[v].txn] = tries[call[v].txn]
               /\ \A m \in received' : m.txn = call[v].txn => m \in received
    BY <1>4, <1>5, <1>6, <2>1 DEF Calling, IInv, CallsOwn
  <2>2. QED
    BY <2>1 DEF Ended, IInv, Attempts
<1>11. TellsTheTruth' /\ RightEndpoint'
  BY SentStep DEF Ended
<1>12. HonestOutcome'
  <2>1. ASSUME NEW u \in Txns, u # t
        PROVE  /\ outcome'[u] = "skipped" => tries'[u] = 0 /\ \E c \in seen'[u] : ~Deliverable(c)
               /\ outcome'[u] = "delivered" => \E m \in received' : m.txn = u
               /\ outcome'[u] = "gaveUp" => tries'[u] = MaxRetry
    BY <1>3, <1>4, <1>5, <2>1 DEF Ended, IInv, HonestOutcome
  <2>2. how = "skipped" => tries'[t] = 0 /\ \E c \in seen'[t] : ~Deliverable(c)
    <3> SUFFICES ASSUME how = "skipped"
                 PROVE  tries'[t] = 0 /\ \E c \in seen'[t] : ~Deliverable(c)
      OBVIOUS
    <3>1. call[w].step = "load" /\ ~Deliverable(config) /\ UNCHANGED <<tries, seen>>
      BY DEF Ended
    <3>2. tries[t] = 0
      BY <3>1 DEF IInv, Attempts
    <3>3. config \in seen[t]
      BY <1>1 DEF IInv, Unsettled, Terminal
    <3>4. QED
      BY <3>1, <3>2, <3>3
  <2>3. how = "delivered" => \E m \in received' : m.txn = t
    <3> DEFINE sent == [txn |-> call[w].txn, status |-> call[w].status, url |-> call[w].url]
    <3>1. how = "delivered" => sent \in received'
      BY DEF Ended, Deliver
    <3>2. sent.txn = t
      OBVIOUS
    <3>3. QED
      BY <3>1, <3>2
  <2>4. how = "gaveUp" => tries'[t] = MaxRetry
    BY TriedFacts DEF Ended, Try
  <2>5. QED
    BY <1>3, <2>1, <2>2, <2>3, <2>4 DEF HonestOutcome
<1>13. QED
  BY <1>7, <1>8, <1>9, <1>10, <1>11, <1>12 DEF IInv

-----------------------------------------------------------------------------
(* Calls that go on.                                                       *)

LEMMA MovedStep ==
    ASSUME IInv, NEW w \in Workers, Calling(w),
           NEW step \in {"send", "sleep"}, NEW url \in Urls, NEW attempt \in 1..MaxRetry,
           Becomes(w, step, call[w].txn, call[w].status, url, attempt),
           UNCHANGED <<status, config, outcome, seen>>,
           \/ UNCHANGED <<received, tries>>
           \/ call[w].step = "send" /\ Try(w) /\ (Deliver(w) \/ UNCHANGED received),
           tries'[call[w].txn] = IF step = "send" THEN attempt - 1 ELSE attempt,
           \E k \in seen[call[w].txn] : Deliverable(k) /\ k.url = url,
           \A m \in received' : m.txn = call[w].txn => m.url = url,
           step = "sleep" => attempt < MaxRetry
    PROVE  IInv'
<1> DEFINE t == call[w].txn
<1>1. /\ t \in Txns /\ status[t] = call[w].status /\ status[t] \in Terminal
      /\ outcome[t] = "none"
      /\ \A v \in Workers : Calling(v) /\ call[v].txn = t => v = w
  BY DEF IInv, CallsOwn
<1>2. /\ tries' \in [Txns -> 0..MaxRetry]
      /\ \A u \in Txns : u # t => tries'[u] = tries[u]
  BY TriedFacts DEF IInv, TypeButBusy
<1>3. /\ received \subseteq received'
      /\ \A m \in received' : m \in received \/ m.txn = t
      /\ received' \subseteq [txn : Txns, status : Terminal, url : Urls]
  BY SentFacts DEF IInv, TypeButBusy
<1>4. /\ call'[w].step = step /\ call'[w].txn = t /\ call'[w].status = call[w].status
      /\ call'[w].url = url /\ call'[w].attempt = attempt
      /\ \A v \in Workers : v # w => call'[v] = call[v]
  BY DEF Becomes
<1>5. \A v \in Workers : Calling(v)' /\ v # w => Calling(v) /\ call[v].txn # t
  BY <1>1, <1>4 DEF Calling
<1>6. TypeButBusy'
  <2>1. /\ DOMAIN call' = Workers /\ call' = [v \in Workers |-> call'[v]]
        /\ DOMAIN call'[w] = Fields /\ call'[w] = [f \in Fields |-> call'[w][f]]
    BY DEF Becomes
  <2>2. ASSUME NEW v \in Workers
        PROVE  /\ DOMAIN call'[v] = Fields /\ call'[v] = [f \in Fields |-> call'[v][f]]
               /\ call'[v].step \in {"idle", "load", "send", "sleep"}
               /\ call'[v].attempt \in 1..MaxRetry
               /\ call'[v].step = "idle" => call'[v] = NoCall
    <3>1. CASE v = w
      BY <1>4, <2>1, <3>1
    <3>2. CASE v # w
      BY <1>4, <3>2 DEF IInv, TypeButBusy
    <3>3. QED
      BY <3>1, <3>2
  <2>3. QED
    BY <1>2, <1>3, <2>1, <2>2 DEF IInv, TypeButBusy
<1>7. CallsOwn'
  BY <1>1, <1>4, <1>5 DEF IInv, CallsOwn
<1>8. Unsettled'
  BY <1>1, <1>2, <1>3 DEF IInv, Unsettled, Terminal
<1>9. Attempts'
  <2>1. ASSUME NEW v \in Workers, v # w, call'[v].step # "idle"
        PROVE  /\ call'[v] = call[v] /\ call[v].txn \in Txns /\ call[v].txn # t
               /\ tries'[call[v].txn] = tries[call[v].txn]
               /\ \A m \in received' : m.txn = call[v].txn => m \in received
    BY <1>2, <1>3, <1>4, <1>5, <2>1 DEF Calling, IInv, CallsOwn
  <2>2. QED
    BY <1>4, <2>1 DEF IInv, Attempts
<1>10. TellsTheTruth' /\ RightEndpoint'
  BY SentStep
<1>11. HonestOutcome'
  BY <1>1, <1>2, <1>3 DEF IInv, HonestOutcome
<1>12. QED
  BY <1>6, <1>7, <1>8, <1>9, <1>10, <1>11 DEF IInv

LEMMA LoadStep == ASSUME IInv, NEW w \in Workers, Load(w) PROVE IInv'
<1>1. Calling(w)
  BY DEF Load, Calling
<1>2. CASE Deliverable(config)
  <2>1. Becomes(w, "send", call[w].txn, call[w].status, config.url, call[w].attempt)
    BY <1>2, Loaded DEF Load, IInv
  <2>2. /\ call[w].txn \in Txns /\ status[call[w].txn] # "pending"
        /\ tries[call[w].txn] = 0 /\ call[w].attempt = 1
        /\ \A m \in received : m.txn # call[w].txn
    BY <1>1 DEF Load, IInv, CallsOwn, Attempts, Terminal
  <2>3. config \in seen[call[w].txn] /\ config.url \in Urls
    BY <1>2, <2>2 DEF IInv, Unsettled, TypeButBusy, Deliverable, Config
  <2>4. 1 \in 1..MaxRetry
    BY RetryAssumption
  <2>5. QED
    BY <1>1, <1>2, <2>1, <2>2, <2>3, <2>4, MovedStep DEF Load
<1>3. CASE ~Deliverable(config)
  BY <1>1, <1>3, EndedStep DEF Load, Ended
<1>4. QED
  BY <1>2, <1>3

LEMMA RefusedStep == ASSUME IInv, NEW w \in Workers, Refused(w) PROVE IInv'
<1>1. call[w].step = "send" /\ Calling(w)
  BY DEF Refused, Try, Calling
<1>2. CASE call[w].attempt = MaxRetry
  BY <1>1, <1>2, EndedStep DEF Refused, Ended
<1>3. CASE call[w].attempt # MaxRetry
  <2>1. Becomes(w, "sleep", call[w].txn, call[w].status, call[w].url, call[w].attempt)
    BY <1>3, Went DEF Refused, IInv
  <2>2. /\ call[w].url \in Urls /\ call[w].attempt \in 1..MaxRetry
        /\ call[w].attempt < MaxRetry
        /\ \E k \in seen[call[w].txn] : Deliverable(k) /\ k.url = call[w].url
        /\ \A m \in received : m.txn = call[w].txn => m.url = call[w].url
    <3>1. call[w].attempt \in 1..MaxRetry
      BY DEF IInv, TypeButBusy
    <3>2. call[w].attempt < MaxRetry
      BY <1>3, <3>1, RetryAssumption
    <3>3. Attempts
      BY DEF IInv
    <3>4. /\ call[w].url \in Urls
          /\ \E k \in seen[call[w].txn] : Deliverable(k) /\ k.url = call[w].url
          /\ \A m \in received : m.txn = call[w].txn => m.url = call[w].url
      BY <1>1, <3>3 DEF Attempts
    <3>5. QED
      BY <3>1, <3>2, <3>4
  <2>3. \A m \in received' : m.txn = call[w].txn => m.url = call[w].url
    BY <1>1, <2>2, SentFacts DEF Refused
  <2>4. tries'[call[w].txn] = call[w].attempt
    BY <1>1, TriedFacts DEF Refused
  <2>5. QED
    BY <1>1, <1>3, <2>1, <2>2, <2>3, <2>4, MovedStep DEF Refused
<1>4. QED
  BY <1>2, <1>3

LEMMA WakeStep == ASSUME IInv, NEW w \in Workers, Wake(w) PROVE IInv'
<1>1. call[w].step = "sleep" /\ Calling(w)
  BY DEF Wake, Calling
<1>2. Becomes(w, "send", call[w].txn, call[w].status, call[w].url, call[w].attempt + 1)
  BY Went DEF Wake, IInv
<1>3. /\ call[w].url \in Urls /\ call[w].attempt \in 1..MaxRetry
      /\ call[w].attempt < MaxRetry /\ tries[call[w].txn] = call[w].attempt
      /\ \E k \in seen[call[w].txn] : Deliverable(k) /\ k.url = call[w].url
      /\ \A m \in received : m.txn = call[w].txn => m.url = call[w].url
  <2>1. call[w].attempt \in 1..MaxRetry
    BY DEF IInv, TypeButBusy
  <2>2. Attempts
    BY DEF IInv
  <2>3. QED
    BY <1>1, <2>1, <2>2 DEF Attempts
<1>4. call[w].attempt + 1 \in 1..MaxRetry /\ (call[w].attempt + 1) - 1 = call[w].attempt
  BY <1>3, RetryAssumption
<1>5. QED
  BY <1>1, <1>2, <1>3, <1>4, MovedStep DEF Wake

-----------------------------------------------------------------------------
(* Settlement, reconfiguration, crash.                                     *)

LEMMA CommitFacts ==
    ASSUME IInv, NEW t \in Txns, NEW result \in Terminal, Commit(t, result),
           UNCHANGED <<config, received, tries>>
    PROVE  /\ status' \in [Txns -> {"pending"} \union Terminal]
           /\ seen' \in [Txns -> SUBSET Config]
           /\ status'[t] = result /\ seen'[t] = {config}
           /\ \A u \in Txns : u # t => status'[u] = status[u] /\ seen'[u] = seen[u]
           /\ outcome[t] = "none" /\ tries[t] = 0 /\ \A m \in received : m.txn # t
           /\ \A w \in Workers : Calling(w) => call[w].txn # t
           /\ TellsTheTruth' /\ RightEndpoint'
<1>1. /\ status' \in [Txns -> {"pending"} \union Terminal]
      /\ status'[t] = result /\ \A u \in Txns : u # t => status'[u] = status[u]
  BY DEF IInv, TypeButBusy, Commit
<1>2. /\ seen' \in [Txns -> SUBSET Config]
      /\ seen'[t] = {config} /\ \A u \in Txns : u # t => seen'[u] = seen[u]
  BY DEF IInv, TypeButBusy, Commit
<1>3. outcome[t] = "none" /\ tries[t] = 0 /\ \A m \in received : m.txn # t
  BY DEF IInv, Unsettled, Commit
<1>4. \A w \in Workers : Calling(w) => call[w].txn # t
  BY DEF IInv, CallsOwn, Commit, Terminal
<1>5. \A m \in received : m.txn \in Txns
  BY DEF IInv, TypeButBusy
<1>6. TellsTheTruth'
  BY <1>1, <1>3, <1>5 DEF IInv, TellsTheTruth
<1>7. RightEndpoint'
  BY <1>2, <1>3, <1>5 DEF IInv, RightEndpoint
<1>8. QED
  BY <1>1, <1>2, <1>3, <1>4, <1>6, <1>7

LEMMA SettleStep ==
    ASSUME IInv, NEW w \in Workers, NEW t \in Txns, Settle(w, t)
    PROVE  IInv'
<1>1. PICK result \in Terminal :
        /\ Commit(t, result)
        /\ call' = [call EXCEPT ![w] =
             [NoCall EXCEPT !.step = "load", !.txn = t, !.status = result,
                            !.busy = ConfigTimeout]]
  BY DEF Settle
<1>2. UNCHANGED <<config, received, outcome, tries>> /\ call[w] = NoCall
  BY DEF Settle
<1>3. Becomes(w, "load", t, result, NoUrl, 1)
  BY <1>1, Called DEF IInv
<1>4. /\ status' \in [Txns -> {"pending"} \union Terminal]
      /\ seen' \in [Txns -> SUBSET Config]
      /\ status'[t] = result /\ seen'[t] = {config}
      /\ \A u \in Txns : u # t => status'[u] = status[u] /\ seen'[u] = seen[u]
      /\ outcome[t] = "none" /\ tries[t] = 0 /\ \A m \in received : m.txn # t
      /\ \A v \in Workers : Calling(v) => call[v].txn # t
      /\ TellsTheTruth' /\ RightEndpoint'
  BY <1>1, <1>2, CommitFacts
<1>5. /\ call'[w].step = "load" /\ call'[w].txn = t /\ call'[w].status = result
      /\ call'[w].attempt = 1
      /\ \A v \in Workers : v # w => call'[v] = call[v]
  BY <1>3 DEF Becomes
<1>6. TypeButBusy'
  <2>1. /\ DOMAIN call' = Workers /\ call' = [v \in Workers |-> call'[v]]
        /\ DOMAIN call'[w] = Fields /\ call'[w] = [f \in Fields |-> call'[w][f]]
    BY <1>3 DEF Becomes
  <2>2. ASSUME NEW v \in Workers
        PROVE  /\ DOMAIN call'[v] = Fields /\ call'[v] = [f \in Fields |-> call'[v][f]]
               /\ call'[v].step \in {"idle", "load", "send", "sleep"}
               /\ call'[v].attempt \in 1..MaxRetry
               /\ call'[v].step = "idle" => call'[v] = NoCall
    <3>1. CASE v = w
      BY <1>5, <2>1, <3>1, RetryAssumption
    <3>2. CASE v # w
      BY <1>5, <3>2 DEF IInv, TypeButBusy
    <3>3. QED
      BY <3>1, <3>2
  <2>3. QED
    BY <1>2, <1>4, <2>1, <2>2 DEF IInv, TypeButBusy
<1>7. CallsOwn'
  <2>1. \A v \in Workers : Calling(v)' /\ v # w => Calling(v) /\ call[v].txn # t
    BY <1>4, <1>5 DEF Calling
  <2>2. QED
    BY <1>2, <1>4, <1>5, <2>1 DEF IInv, CallsOwn
<1>8. Unsettled'
  BY <1>2, <1>4 DEF IInv, Unsettled, Terminal
<1>9. Attempts'
  <2>1. ASSUME NEW v \in Workers, v # w, call'[v].step # "idle"
        PROVE  /\ call'[v] = call[v] /\ call[v].txn \in Txns
               /\ seen'[call[v].txn] = seen[call[v].txn]
    BY <1>4, <1>5, <2>1 DEF Calling, IInv, CallsOwn
  <2>2. QED
    BY <1>2, <1>4, <1>5, <2>1 DEF IInv, Attempts
<1>10. HonestOutcome'
  BY <1>2, <1>4 DEF IInv, HonestOutcome
<1>11. QED
  BY <1>4, <1>6, <1>7, <1>8, <1>9, <1>10 DEF IInv

LEMMA SettleUnseenStep == ASSUME IInv, NEW t \in Txns, SettleUnseen(t) PROVE IInv'
<1>1. PICK result \in Terminal : Commit(t, result)
  BY DEF SettleUnseen
<1>2. /\ UNCHANGED <<config, received, call, tries>>
      /\ outcome' = [outcome EXCEPT ![t] = "lost"]
  BY DEF SettleUnseen
<1>3. /\ status' \in [Txns -> {"pending"} \union Terminal]
      /\ seen' \in [Txns -> SUBSET Config]
      /\ status'[t] = result /\ seen'[t] = {config}
      /\ \A u \in Txns : u # t => status'[u] = status[u] /\ seen'[u] = seen[u]
      /\ outcome[t] = "none" /\ tries[t] = 0 /\ \A m \in received : m.txn # t
      /\ \A v \in Workers : Calling(v) => call[v].txn # t
      /\ TellsTheTruth' /\ RightEndpoint'
  BY <1>1, <1>2, CommitFacts
<1>4. /\ outcome' \in [Txns -> {"none", "skipped", "delivered", "gaveUp", "lost"}]
      /\ outcome'[t] = "lost" /\ \A u \in Txns : u # t => outcome'[u] = outcome[u]
  BY <1>2 DEF IInv, TypeButBusy
<1>5. TypeButBusy'
  BY <1>2, <1>3, <1>4 DEF IInv, TypeButBusy
<1>6. CallsOwn'
  BY <1>2, <1>3, <1>4 DEF IInv, CallsOwn, Calling
<1>7. Unsettled'
  BY <1>2, <1>3, <1>4 DEF IInv, Unsettled, Terminal
<1>8. Attempts'
  BY <1>2, <1>3 DEF IInv, Attempts, CallsOwn, Calling
<1>9. HonestOutcome'
  BY <1>2, <1>3, <1>4 DEF IInv, HonestOutcome
<1>10. QED
  BY <1>3, <1>5, <1>6, <1>7, <1>8, <1>9 DEF IInv

LEMMA ReconfigureStep == ASSUME IInv, Reconfigure PROVE IInv'
<1>1. /\ UNCHANGED <<status, received, outcome, call, tries>> /\ config' \in Config
  BY DEF Reconfigure
<1>2. /\ seen' \in [Txns -> SUBSET Config]
      /\ \A t \in Txns : status[t] # "pending" =>
           seen[t] \subseteq seen'[t] /\ config' \in seen'[t]
  BY <1>1 DEF Reconfigure, IInv, TypeButBusy
<1>3. TypeButBusy'
  BY <1>1, <1>2 DEF IInv, TypeButBusy
<1>4. CallsOwn'
  BY <1>1 DEF IInv, CallsOwn, Calling
<1>5. Unsettled'
  BY <1>1, <1>2 DEF IInv, Unsettled
<1>6. Attempts'
  BY <1>1, <1>2 DEF IInv, Attempts, CallsOwn, Calling, Terminal
<1>7. \A m \in received : m.txn \in Txns /\ status[m.txn] # "pending"
  BY DEF IInv, TypeButBusy, Unsettled
<1>8. TellsTheTruth' /\ RightEndpoint'
  BY <1>1, <1>2, <1>7 DEF IInv, TellsTheTruth, RightEndpoint
<1>9. HonestOutcome'
  <2>1. \A t \in Txns : outcome[t] # "none" => status[t] # "pending"
    BY DEF IInv, Unsettled
  <2>2. QED
    BY <1>1, <1>2, <2>1 DEF IInv, HonestOutcome
<1>10. QED
  BY <1>3, <1>4, <1>5, <1>6, <1>8, <1>9 DEF IInv

LEMMA CrashStep == ASSUME IInv, Crash PROVE IInv'
<1>1. /\ UNCHANGED <<status, config, received, tries, seen>>
      /\ call' = [w \in Workers |-> NoCall]
  BY DEF Crash
<1>2. \A w \in Workers : ~Calling(w)' /\ call'[w] = NoCall
  BY <1>1, NoCallFacts DEF Calling
<1>3. /\ outcome' \in [Txns -> {"none", "skipped", "delivered", "gaveUp", "lost"}]
      /\ \A t \in Txns : outcome'[t] \in {outcome[t], "lost"}
  BY DEF Crash, IInv, TypeButBusy
<1>4. ASSUME NEW t \in Txns, status[t] = "pending"
      PROVE  outcome'[t] = outcome[t]
  <2>1. ASSUME NEW w \in Workers PROVE call[w].txn # t
    <3>1. CASE Calling(w)
      BY <1>4, <3>1 DEF IInv, CallsOwn, Terminal
    <3>2. CASE ~Calling(w)
      BY <3>2, NoCallFacts, NothingAssumption DEF IInv, TypeButBusy, Calling
    <3>3. QED
      BY <3>1, <3>2
  <2>2. QED
    BY <2>1 DEF Crash
<1>5. TypeButBusy'
  BY <1>1, <1>2, <1>3, NoCallFacts, RetryAssumption DEF IInv, TypeButBusy
<1>6. CallsOwn' /\ Attempts'
  BY <1>2, NoCallFacts DEF CallsOwn, Attempts
<1>7. Unsettled'
  BY <1>1, <1>4 DEF IInv, Unsettled
<1>8. TellsTheTruth' /\ RightEndpoint' /\ HonestOutcome'
  BY <1>1, <1>3 DEF IInv, TellsTheTruth, RightEndpoint, HonestOutcome
<1>9. QED
  BY <1>5, <1>6, <1>7, <1>8 DEF IInv

-----------------------------------------------------------------------------
LEMMA NextIInv == IInv /\ [Next]_vars => IInv'
<1> SUFFICES ASSUME IInv, [Next]_vars PROVE IInv'
  OBVIOUS
<1>1. ASSUME NEW w \in Workers, NEW t \in Txns, Settle(w, t) PROVE IInv'
  BY <1>1, SettleStep
<1>2. ASSUME NEW w \in Workers, Load(w) PROVE IInv'
  BY <1>2, LoadStep
<1>3. ASSUME NEW w \in Workers, Accepted(w) PROVE IInv'
  BY <1>3, EndedStep DEF Accepted, Ended, Try, Calling
<1>4. ASSUME NEW w \in Workers, Refused(w) PROVE IInv'
  BY <1>4, RefusedStep
<1>5. ASSUME NEW w \in Workers, Wake(w) PROVE IInv'
  BY <1>5, WakeStep
<1>6. ASSUME NEW w \in Workers, LoadFails(w) PROVE IInv'
  BY <1>6, EndedStep DEF LoadFails, Ended, Calling
<1>7. ASSUME NEW t \in Txns, SettleUnseen(t) PROVE IInv'
  BY <1>7, SettleUnseenStep
<1>8. CASE Reconfigure
  BY <1>8, ReconfigureStep
<1>9. CASE Crash
  BY <1>9, CrashStep
<1>10. CASE UNCHANGED vars
  BY <1>10 DEF vars, IInv, TypeButBusy, CallsOwn, Calling, Unsettled, Attempts,
               TellsTheTruth, RightEndpoint, HonestOutcome
<1>11. QED
  BY <1>1, <1>2, <1>3, <1>4, <1>5, <1>6, <1>7, <1>8, <1>9, <1>10 DEF Next, Callback

-----------------------------------------------------------------------------
(* The time a call takes.                                                  *)

\* c is a call that has taken the time of the statements, requests and
\* sleeps behind it and of its present step.
InTime(c) ==
    /\ c \in Call
    /\ c.step = "load" => c.busy = ConfigTimeout
    /\ c.step = "send" =>
         c.busy = ConfigTimeout + c.attempt * RequestTimeout + Slept[c.attempt - 1]
    /\ c.step = "sleep" =>
         c.busy = ConfigTimeout + c.attempt * RequestTimeout + Slept[c.attempt]

LEMMA ClockedCall == ASSUME Clocked, NEW w \in Workers PROVE InTime(call[w])
<1>1. call[w] \in Call
  BY DEF Clocked
<1>2. call[w].step = "load" => call[w].busy = ConfigTimeout
  BY DEF Clocked
<1>3. call[w].step \in {"send", "sleep"} =>
        call[w].busy = ConfigTimeout + call[w].attempt * RequestTimeout
                       + Slept[IF call[w].step = "sleep" THEN call[w].attempt
                               ELSE call[w].attempt - 1]
  BY DEF Clocked, BusyBounded
<1>4. QED
  BY <1>1, <1>2, <1>3 DEF InTime

LEMMA CallClocked ==
    ASSUME call \in [Workers -> Call], changes \in 0..MaxChanges, faults \in 0..MaxFaults,
           \A w \in Workers : InTime(call[w])
    PROVE  Clocked
<1>1. ASSUME NEW w \in Workers, call[w].step \in {"send", "sleep"}
      PROVE  /\ call[w].attempt <= MaxRetry
             /\ call[w].busy =
                  ConfigTimeout + call[w].attempt * RequestTimeout
                  + Slept[IF call[w].step = "sleep" THEN call[w].attempt
                          ELSE call[w].attempt - 1]
  <2>1. call[w].attempt \in 1..MaxRetry
    BY DEF Call
  <2>2. CASE call[w].step = "send"
    BY <2>1, <2>2 DEF InTime
  <2>3. CASE call[w].step = "sleep"
    BY <2>1, <2>3 DEF InTime
  <2>4. QED
    BY <1>1, <2>2, <2>3
<1>2. \A w \in Workers : call[w].step = "load" => call[w].busy = ConfigTimeout
  BY DEF InTime
<1>3. QED
  BY <1>1, <1>2 DEF Clocked, BusyBounded

LEMMA CallClockedNext ==
    (/\ call \in [Workers -> Call]
     /\ changes \in 0..MaxChanges /\ faults \in 0..MaxFaults
     /\ \A w \in Workers : InTime(call[w])
     => Clocked)'
<1>1. /\ call \in [Workers -> Call]
      /\ changes \in 0..MaxChanges /\ faults \in 0..MaxFaults
      /\ \A w \in Workers : InTime(call[w])
      => Clocked
  BY CallClocked
<1>2. QED
  BY <1>1, PTL

LEMMA NoCallInTime == InTime(NoCall)
BY RetryAssumption DEF InTime, NoCall, Call, Terminal

\* One worker's call changes, into one that is in time.
LEMMA OneCallClocked ==
    ASSUME Clocked, NEW w \in Workers, NEW c, InTime(c), call' = [call EXCEPT ![w] = c],
           changes' \in 0..MaxChanges, faults' \in 0..MaxFaults
    PROVE  Clocked'
<1>1. c \in Call /\ call \in [Workers -> Call]
  BY DEF InTime, Clocked
<1>2. call' \in [Workers -> Call]
  BY <1>1
<1>3. ASSUME NEW v \in Workers PROVE InTime(call[v])'
  <2>1. InTime(call'[v])
    <3>1. CASE v = w
      <4>1. call'[v] = c
        BY <1>1, <3>1
      <4>2. QED
        BY <4>1
    <3>2. CASE v # w
      <4>1. call'[v] = call[v]
        BY <1>1, <3>2
      <4>2. InTime(call[v])
        BY ClockedCall
      <4>3. QED
        BY <4>1, <4>2
    <3>3. QED
      BY <3>1, <3>2
  <2>2. QED
    BY <2>1 DEF InTime
<1>4. QED
  BY <1>2, <1>3, CallClockedNext

LEMMA FaultCounted == ASSUME Clocked, Fault PROVE faults' \in 0..MaxFaults
<1>1. faults \in 0..MaxFaults /\ MaxFaults \in Nat
  BY BoundsAssumption DEF Clocked
<1>2. QED
  BY <1>1 DEF Fault

LEMMA SettleClocked ==
    ASSUME Clocked, NEW w \in Workers, NEW t \in Txns, Settle(w, t)
    PROVE  Clocked'
<1>1. PICK result \in Terminal :
        call' = [call EXCEPT ![w] =
             [NoCall EXCEPT !.step = "load", !.txn = t, !.status = result,
                            !.busy = ConfigTimeout]]
  BY DEF Settle
<1> DEFINE c == [NoCall EXCEPT !.step = "load", !.txn = t, !.status = result,
                               !.busy = ConfigTimeout]
<1>2. NoCall \in Call
  BY NoCallInTime DEF InTime
<1>3. InTime(c)
  <2>1. c \in Call
    BY <1>2, TimeAssumption DEF Call
  <2>2. c.step = "load" /\ c.busy = ConfigTimeout
    BY <1>2 DEF Call
  <2>3. QED
    BY <2>1, <2>2 DEF InTime
<1>4. changes' \in 0..MaxChanges /\ faults' \in 0..MaxFaults
  BY DEF Settle, Clocked
<1>5. QED
  BY <1>1, <1>3, <1>4, OneCallClocked

LEMMA LoadClocked ==
    ASSUME IInv, Clocked, NEW w \in Workers, Load(w)
    PROVE  Clocked'
<1>1. changes' \in 0..MaxChanges /\ faults' \in 0..MaxFaults
  BY DEF Load, Clocked
<1>2. CASE ~Deliverable(config)
  <2>1. call' = [call EXCEPT ![w] = NoCall]
    BY <1>2 DEF Load, Return
  <2>2. QED
    BY <1>1, <2>1, NoCallInTime, OneCallClocked
<1>3. CASE Deliverable(config)
  <2>1. /\ call[w] \in Call /\ call[w].step = "load" /\ call[w].busy = ConfigTimeout
        /\ call[w].attempt = 1
    BY DEF Load, Clocked, IInv, Attempts
  <2> DEFINE c == [call[w] EXCEPT !.step = "send", !.url = config.url,
                                  !.busy = call[w].busy + RequestTimeout]
  <2>2. call' = [call EXCEPT ![w] = c]
    <3>1. call \in [Workers -> Call]
      BY DEF Clocked
    <3>2. call' = [call EXCEPT ![w].step = "send", ![w].url = config.url,
                               ![w].busy = @ + RequestTimeout]
      BY <1>3 DEF Load
    <3>3. QED
      BY <3>1, <3>2 DEF Call
  <2>3. config.url \in Urls
    BY <1>3 DEF Deliverable, IInv, TypeButBusy, Config
  <2>4. /\ c \in Call /\ c.step = "send" /\ c.attempt = 1
        /\ c.busy = ConfigTimeout + RequestTimeout
    <3>1. ConfigTimeout + RequestTimeout \in Nat
      BY TimeAssumption
    <3>2. c \in Call
      BY <2>1, <2>3, <3>1 DEF Call
    <3>3. QED
      BY <2>1, <3>2 DEF Call
  <2>5. ConfigTimeout + 1 * RequestTimeout + Slept[1 - 1] = ConfigTimeout + RequestTimeout
    <3>1. Slept[1 - 1] = 0
      BY SleptValues
    <3>2. QED
      BY <3>1, TimeAssumption
  <2>6. InTime(c)
    BY <2>4, <2>5 DEF InTime
  <2>7. QED
    BY <1>1, <2>2, <2>6, OneCallClocked
<1>4. QED
  BY <1>2, <1>3

\* What Goto makes of a call.
LEMMA GotoIs ==
    ASSUME Clocked, NEW w \in Workers, NEW step \in {"send", "sleep"},
           NEW attempt \in 1..MaxRetry, NEW seconds, call[w].busy + seconds \in Nat,
           Goto(w, step, attempt, seconds)
    PROVE  \E c \in Call : /\ call' = [call EXCEPT ![w] = c]
                           /\ c.step = step /\ c.attempt = attempt
                           /\ c.busy = call[w].busy + seconds
<1> DEFINE c == [call[w] EXCEPT !.step = step, !.attempt = attempt,
                                !.busy = call[w].busy + seconds]
<1>1. call \in [Workers -> Call] /\ call[w] \in Call
  BY DEF Clocked
<1>2. call' = [call EXCEPT ![w] = c]
  BY <1>1 DEF Goto, Call
<1>3. c \in Call
  BY <1>1 DEF Call
<1>4. c.step = step /\ c.attempt = attempt /\ c.busy = call[w].busy + seconds
  BY <1>1 DEF Call
<1>5. QED
  <2> HIDE DEF c
  <2>1. QED
    BY <1>2, <1>3, <1>4

LEMMA RefusedClocked ==
    ASSUME IInv, Clocked, NEW w \in Workers, Refused(w)
    PROVE  Clocked'
<1>1. changes' \in 0..MaxChanges /\ faults' \in 0..MaxFaults
  BY DEF Refused, Clocked
<1>2. CASE call[w].attempt = MaxRetry
  <2>1. call' = [call EXCEPT ![w] = NoCall]
    BY <1>2 DEF Refused, Return
  <2>2. QED
    BY <1>1, <2>1, NoCallInTime, OneCallClocked
<1>3. CASE call[w].attempt # MaxRetry
  <2> DEFINE n == call[w].attempt
  <2>1. /\ call[w] \in Call /\ InTime(call[w])
        /\ n \in Nat /\ n >= 1 /\ n \in 1..MaxRetry
    <3>1. call[w] \in Call
      BY DEF Clocked
    <3>2. call[w].attempt \in 1..MaxRetry
      BY <3>1 DEF Call
    <3>3. QED
      BY <3>1, <3>2, ClockedCall, RetryAssumption
  <2>2. /\ Backoff(n) \in Nat /\ Slept[n] = Slept[n - 1] + Backoff(n)
        /\ Slept[n - 1] \in Nat
    <3>1. n - 1 \in Nat
      BY <2>1
    <3>2. QED
      BY <2>1, <3>1, BackoffValue, SleptValues
  <2>3. /\ call[w].busy = ConfigTimeout + n * RequestTimeout + Slept[n - 1]
        /\ call[w].busy \in Nat
    BY <2>1 DEF Refused, Try, InTime, Call
  <2>4. /\ call[w].busy + Backoff(n) \in Nat
        /\ call[w].busy + Backoff(n) = ConfigTimeout + n * RequestTimeout + Slept[n]
    <3>1. n * RequestTimeout \in Nat
      BY <2>1, TimeAssumption
    <3> HIDE DEF n
    <3>2. QED
      BY <2>2, <2>3, <3>1, TimeAssumption
  <2>5. PICK c \in Call : /\ call' = [call EXCEPT ![w] = c]
                          /\ c.step = "sleep" /\ c.attempt = n
                          /\ c.busy = call[w].busy + Backoff(n)
    BY <1>3, <2>1, <2>4, GotoIs DEF Refused
  <2>6. InTime(c)
    BY <2>4, <2>5 DEF InTime
  <2>7. QED
    BY <1>1, <2>5, <2>6, OneCallClocked
<1>4. QED
  BY <1>2, <1>3

LEMMA WakeClocked ==
    ASSUME IInv, Clocked, NEW w \in Workers, Wake(w)
    PROVE  Clocked'
<1> DEFINE n == call[w].attempt
<1>1. changes' \in 0..MaxChanges /\ faults' \in 0..MaxFaults
  BY DEF Wake, Clocked
<1>2. call[w] \in Call /\ InTime(call[w]) /\ call[w].step = "sleep"
  BY ClockedCall DEF Wake, Clocked
<1>3. n \in Nat /\ n + 1 \in 1..MaxRetry /\ (n + 1) - 1 = n
  <2>1. n \in 1..MaxRetry
    BY <1>2 DEF Call
  <2>2. n < MaxRetry
    BY <1>2 DEF IInv, Attempts
  <2>3. QED
    BY <2>1, <2>2, RetryAssumption
<1>4. /\ call[w].busy = ConfigTimeout + n * RequestTimeout + Slept[n]
      /\ call[w].busy \in Nat
  BY <1>2 DEF InTime, Call
<1>5. /\ call[w].busy + RequestTimeout \in Nat
      /\ call[w].busy + RequestTimeout
           = ConfigTimeout + (n + 1) * RequestTimeout + Slept[(n + 1) - 1]
  <2>1. /\ n * RequestTimeout \in Nat
        /\ (n + 1) * RequestTimeout = n * RequestTimeout + RequestTimeout
    <3>1. \A i \in Nat, k \in Nat : i * k \in Nat /\ (i + 1) * k = i * k + k
      OBVIOUS
    <3>2. RequestTimeout \in Nat
      BY TimeAssumption
    <3>3. QED
      BY <1>3, <3>1, <3>2
  <2>2. Slept[n] \in Nat
    BY <1>3, SleptValues
  <2> HIDE DEF n
  <2>3. QED
    BY <1>3, <1>4, <2>1, <2>2, TimeAssumption
<1>6. PICK c \in Call : /\ call' = [call EXCEPT ![w] = c]
                        /\ c.step = "send" /\ c.attempt = n + 1
                        /\ c.busy = call[w].busy + RequestTimeout
  BY <1>3, <1>5, GotoIs DEF Wake
<1>7. InTime(c)
  BY <1>5, <1>6 DEF InTime
<1>8. QED
  BY <1>1, <1>6, <1>7, OneCallClocked

LEMMA CrashClocked == ASSUME Clocked, Crash PROVE Clocked'
<1>1. call' = [w \in Workers |-> NoCall] /\ changes' = changes /\ Fault
  BY DEF Crash
<1>2. NoCall \in Call
  BY NoCallInTime DEF InTime
<1>3. call' \in [Workers -> Call]
  BY <1>1, <1>2
<1>4. ASSUME NEW w \in Workers PROVE InTime(call[w])'
  <2>1. call'[w] = NoCall
    BY <1>1
  <2>2. InTime(call'[w])
    BY <2>1, NoCallInTime
  <2>3. QED
    BY <2>2 DEF InTime
<1>5. changes' \in 0..MaxChanges /\ faults' \in 0..MaxFaults
  BY <1>1, FaultCounted DEF Clocked
<1>6. QED
  BY <1>3, <1>4, <1>5, CallClockedNext

LEMMA InitClocked == Init => Clocked
<1> SUFFICES ASSUME Init PROVE Clocked
  OBVIOUS
<1>1. NoCall \in Call
  BY NoCallInTime DEF InTime
<1>2. \A w \in Workers : call[w] = NoCall
  BY DEF Init
<1>3. call \in [Workers -> Call] /\ changes \in 0..MaxChanges /\ faults \in 0..MaxFaults
  BY <1>1, BoundsAssumption DEF Init
<1>4. QED
  BY <1>2, <1>3, NoCallInTime, CallClocked

LEMMA NextClocked == IInv /\ Clocked /\ [Next]_vars => Clocked'
<1> SUFFICES ASSUME IInv, Clocked, [Next]_vars PROVE Clocked'
  OBVIOUS
<1>1. ASSUME NEW w \in Workers, NEW how, Return(w, how),
             changes' \in 0..MaxChanges, faults' \in 0..MaxFaults
      PROVE  Clocked'
  BY <1>1, NoCallInTime, OneCallClocked DEF Return
<1>2. ASSUME UNCHANGED call, changes' \in 0..MaxChanges, faults' \in 0..MaxFaults
      PROVE  Clocked'
  BY <1>2 DEF Clocked, BusyBounded
<1>3. ASSUME NEW w \in Workers, NEW t \in Txns, Settle(w, t) PROVE Clocked'
  BY <1>3, SettleClocked
<1>4. ASSUME NEW w \in Workers, Load(w) PROVE Clocked'
  BY <1>4, LoadClocked
<1>5. ASSUME NEW w \in Workers, Accepted(w) PROVE Clocked'
  BY <1>1, <1>5 DEF Accepted, Clocked
<1>6. ASSUME NEW w \in Workers, Refused(w) PROVE Clocked'
  BY <1>6, RefusedClocked
<1>7. ASSUME NEW w \in Workers, Wake(w) PROVE Clocked'
  BY <1>7, WakeClocked
<1>8. ASSUME NEW w \in Workers, LoadFails(w) PROVE Clocked'
  BY <1>1, <1>8, FaultCounted DEF LoadFails, Clocked
<1>9. ASSUME NEW t \in Txns, SettleUnseen(t) PROVE Clocked'
  BY <1>2, <1>9, FaultCounted DEF SettleUnseen, Clocked
<1>10. CASE Reconfigure
  <2>1. changes \in 0..MaxChanges /\ MaxChanges \in Nat /\ faults \in 0..MaxFaults
    BY BoundsAssumption DEF Clocked
  <2>2. UNCHANGED call /\ changes' \in 0..MaxChanges /\ faults' \in 0..MaxFaults
    BY <1>10, <2>1 DEF Reconfigure
  <2>3. QED
    BY <1>2, <2>2
<1>11. CASE Crash
  BY <1>11, CrashClocked
<1>12. CASE UNCHANGED vars
  BY <1>2, <1>12 DEF vars, Clocked
<1>13. QED
  BY <1>3, <1>4, <1>5, <1>6, <1>7, <1>8, <1>9, <1>10, <1>11, <1>12 DEF Next, Callback

-----------------------------------------------------------------------------
\* The inductive invariant holds in every reachable state.
THEOREM Invariance == Spec => []IInv
<1>1. Init => IInv
  BY InitIInv
<1>2. IInv /\ [Next]_vars => IInv'
  BY NextIInv
<1>3. QED
  BY <1>1, <1>2, PTL DEF Spec

\* An endpoint is told what was committed, and only after the commit
\* (handleJob dispatches the webhook after ProcessPendingTransaction).
THEOREM Truthful == Spec => []TellsTheTruth
<1>1. IInv => TellsTheTruth
  BY DEF IInv
<1>2. QED
  BY <1>1, Invariance, PTL

\* All attempts for a transaction go to one endpoint, and it was configured
\* at some moment after the transaction was settled.
THEOREM OneEndpoint == Spec => []RightEndpoint
<1>1. IInv => RightEndpoint
  BY DEF IInv
<1>2. QED
  BY <1>1, Invariance, PTL

\* How a callback ended is what happened: skipped, delivered or given up.
THEOREM Honest == Spec => []HonestOutcome
<1>1. IInv => HonestOutcome
  BY DEF IInv
<1>2. QED
  BY <1>1, Invariance, PTL

LEMMA ClockedInvariance == Spec => []Clocked
<1>1. Init => Clocked
  BY InitClocked
<1>2. IInv /\ Clocked /\ [Next]_vars => Clocked'
  BY NextClocked
<1>3. QED
  BY <1>1, <1>2, Invariance, PTL DEF Spec

\* The state has its type: no call makes more attempts than it may, and the
\* backoff is a number of seconds however many there are.
THEOREM TypeCorrect == Spec => []TypeOK
<1>1. IInv /\ Clocked => TypeOK
  BY DEF IInv, TypeButBusy, Clocked, TypeOK
<1>2. QED
  BY <1>1, Invariance, ClockedInvariance, PTL

\* A callback keeps its worker for its requests and Fibonacci backoffs and no
\* longer: the loop of fibonacciRetryBackoff computes those numbers, cut off
\* at the longest duration, for every number of attempts.
THEOREM TimeIsBounded == Spec => []BusyBounded
<1>1. Clocked => BusyBounded
  BY DEF Clocked
<1>2. QED
  BY <1>1, ClockedInvariance, PTL
=============================================================================
