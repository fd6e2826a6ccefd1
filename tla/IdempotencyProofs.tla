------------------------- MODULE IdempotencyProofs -------------------------
(***************************************************************************)
(* Proofs about Idempotency for any number of requests, any TTL, any time  *)
(* a handler may take within it, and any faults, whichever they are.       *)
(*                                                                         *)
(* The argument is a balance: what may still go wrong (Debt) and the       *)
(* handlers that own the reference never exceed what a sound key and the   *)
(* deceits so far account for (Credit), and each step moves both alike.    *)
(***************************************************************************)
EXTENDS Idempotency, FiniteSetTheorems, TLAPS

\* The values the handlers start from, and the ones they build.
LEMMA Values ==
    /\ 0 \in 0..MaxTime
    /\ NoBody \in Body /\ NoKey \in Key /\ NoAnswer \in Answer
<1>1. 0 \in 0..MaxTime
  BY TimeAssumption
<1>2. NoBody \in Body
  BY DEF NoBody, Body, Statuses
<1>3. NoKey \in Key
  BY <1>2 DEF NoKey, Key
<1>4. NoAnswer \in Answer
  BY <1>1, <1>2 DEF NoAnswer, Answer
<1>5. QED
  BY <1>1, <1>2, <1>3, <1>4

LEMMA FaultType ==
    ASSUME TypeOK, NEW kind, Fault(kind)
    PROVE  /\ faults' \in 0..MaxFaults
           /\ deceits' \in 0..faults'
           /\ deceits' = IF kind \in Deceits THEN deceits + 1 ELSE deceits
BY FaultsAssumption DEF TypeOK, Fault

LEMMA SetKeyType ==
    ASSUME TypeOK, NEW body \in Body, NEW state \in {"pending", "completed"},
           SetKey(state, body)
    PROVE  key' \in Key
<1>1. now + TTL \in Nat
  BY TimeAssumption DEF TypeOK
<1>2. QED
  BY <1>1 DEF SetKey, Key

\* The ways a handler moves.
LEMMA EnterType ==
    ASSUME TypeOK, NEW r \in Requests, NEW step \in InFlight, Enter(r, step)
    PROVE  pc' \in [Requests -> Steps] /\ begun' \in [Requests -> 0..MaxTime]
BY DEF TypeOK, Enter, Steps

LEMMA LeaveType ==
    ASSUME TypeOK, NEW r \in Requests, NEW step \in {"done", "gone"}, Leave(r, step)
    PROVE  pc' \in [Requests -> Steps] /\ begun' \in [Requests -> 0..MaxTime]
BY Values DEF TypeOK, Leave, Steps

LEMMA GotoType ==
    ASSUME TypeOK, NEW r \in Requests, NEW step \in InFlight, Goto(r, step)
    PROVE  pc' \in [Requests -> Steps] /\ begun' \in [Requests -> 0..MaxTime]
BY DEF TypeOK, Goto, Steps

LEMMA RespondType ==
    ASSUME TypeOK, NEW r \in Requests, NEW code \in {202, 409, 500},
           NEW body \in Body, NEW replayed \in {"true", "false"},
           Respond(r, code, body, replayed)
    PROVE  /\ answer' \in [Requests -> Answer]
           /\ pc' \in [Requests -> Steps] /\ begun' \in [Requests -> 0..MaxTime]
<1>1. [code |-> code, body |-> body, replayed |-> replayed, at |-> now] \in Answer
  BY DEF TypeOK, Answer
<1>2. QED
  BY <1>1, LeaveType DEF TypeOK, Respond

LEMMA RowTypes ==
    ASSUME TypeOK
    PROVE  /\ Append(rows, NewRow) \in Seq(Row)
           /\ [txn |-> Len(rows) + 1, status |-> "pending"] \in Body
           /\ rows # <<>> => Newest \in Body
<1>1. NewRow \in Row
  BY DEF NewRow, TypeOK, Row, Statuses
<1>2. Append(rows, NewRow) \in Seq(Row)
  BY <1>1 DEF TypeOK
<1>3. Len(rows) \in Nat
  BY DEF TypeOK
<1>4. [txn |-> Len(rows) + 1, status |-> "pending"] \in Body
  BY <1>3 DEF Body, Statuses
<1>5. ASSUME rows # <<>> PROVE Newest \in Body
  <2>1. rows[Len(rows)] \in Row
    BY <1>5 DEF TypeOK
  <2>2. rows[Len(rows)].status \in Statuses
    BY <2>1 DEF Row
  <2>3. QED
    BY <1>3, <2>2 DEF Newest, Body
<1>6. QED
  BY <1>2, <1>4, <1>5

LEMMA TypeStep == ASSUME TypeOK, [Next]_vars PROVE TypeOK'
<1>0. key.body \in Body /\ \A r \in Requests : held[r] \in Body
  BY DEF TypeOK, Key
<1>a. NoFault => faults' \in 0..MaxFaults /\ deceits' \in 0..faults'
  BY DEF NoFault, TypeOK
<1>1. ASSUME NEW r \in Requests, Begin(r) PROVE TypeOK'
  BY <1>a, <1>1, Values, SetKeyType, EnterType DEF Begin, TypeOK, InFlight
<1>2. ASSUME NEW r \in Requests, BeginResent(r) PROVE TypeOK'
  BY <1>2, Values, SetKeyType, FaultType, EnterType
  DEF BeginResent, TypeOK, InFlight
<1>3. ASSUME NEW r \in Requests, Read(r) PROVE TypeOK'
  BY <1>0, <1>a, <1>3, RespondType, GotoType DEF Read, TypeOK, InFlight
<1>4. ASSUME NEW r \in Requests, Select(r) PROVE TypeOK'
  BY <1>a, <1>4, RowTypes, GotoType DEF Select, TypeOK, InFlight
<1>5. ASSUME NEW r \in Requests, Remark(r) PROVE TypeOK'
  BY <1>0, <1>a, <1>5, SetKeyType, FaultType, RespondType DEF Remark, TypeOK
<1>6. ASSUME NEW r \in Requests, GiveUp(r) PROVE TypeOK'
  BY <1>a, <1>6, Values, RespondType DEF GiveUp, TypeOK
<1>7. ASSUME NEW r \in Requests, Insert(r) PROVE TypeOK'
  BY <1>a, <1>7, RowTypes, GotoType DEF Insert, TypeOK, InFlight
<1>8. ASSUME NEW r \in Requests, InsertFails(r) PROVE TypeOK'
  BY <1>8, RowTypes, GotoType, FaultType DEF InsertFails, TypeOK, InFlight
<1>9. ASSUME NEW r \in Requests, Mark(r) PROVE TypeOK'
  BY <1>0, <1>a, <1>9, SetKeyType, FaultType, RespondType DEF Mark, TypeOK
<1>10. ASSUME NEW r \in Requests, Clear(r) PROVE TypeOK'
  BY <1>a, <1>10, Values, FaultType, RespondType DEF Clear, TypeOK
<1>11. ASSUME NEW r \in Requests, ClearResent(r) PROVE TypeOK'
  BY <1>11, Values, FaultType DEF ClearResent, TypeOK
<1>12. ASSUME NEW r \in Requests, RedisFails(r) PROVE TypeOK'
  BY <1>12, Values, SetKeyType, FaultType, RespondType DEF RedisFails, TypeOK
<1>13. ASSUME NEW r \in Requests, LookupFails(r) PROVE TypeOK'
  BY <1>13, Values, FaultType, RespondType DEF LookupFails, TypeOK
<1>14. ASSUME NEW r \in Requests, Die(r) PROVE TypeOK'
  BY <1>14, FaultType, LeaveType DEF Die, TypeOK
<1>15. ASSUME NEW t \in 1..Len(rows), Settle(t) PROVE TypeOK'
  <2>0. rows[t] \in Row
    BY DEF TypeOK
  <2>1. [rows[t] EXCEPT !.status = "settled"] \in Row
    BY <2>0 DEF Row, Statuses
  <2>2. rows' \in Seq(Row)
    BY <1>15, <2>1 DEF Settle, TypeOK
  <2>3. QED
    BY <1>a, <1>15, <2>2 DEF Settle, TypeOK
<1>16. CASE Restart
  <2>1. ASSUME NEW at \in now + 1..key.expires
        PROVE  [state |-> "pending", body |-> NoBody, expires |-> at] \in Key
    <3>1. at \in Nat
      BY DEF TypeOK, Key
    <3>2. QED
      BY <3>1, Values DEF Key
  <2>2. key' \in Key
    BY <1>16, <2>1, Values DEF Restart
  <2>3. QED
    BY <1>16, <2>2, FaultType DEF Restart, TypeOK
<1>17. CASE Tick
  BY <1>a, <1>17, Values, TimeAssumption DEF Tick, TypeOK
<1>18. CASE UNCHANGED vars
  BY <1>18 DEF vars, TypeOK
<1>19. QED
  BY <1>1, <1>2, <1>3, <1>4, <1>5, <1>6, <1>7, <1>8, <1>9, <1>10, <1>11, <1>12,
     <1>13, <1>14, <1>15, <1>16, <1>17, <1>18 DEF Next, Handle

\* Facts about the rows and the clock that the step proofs share.
LEMMA Numbers ==
    ASSUME TypeOK
    PROVE  /\ now \in Nat /\ TTL \in Nat /\ 0 < TTL /\ Len(rows) \in Nat
           /\ MaxHandling \in Nat /\ MaxHandling < TTL
           /\ \A i \in 1..Len(rows) : rows[i] \in Row /\ rows[i].created \in Nat
           /\ rows # <<>> => Len(rows) \in 1..Len(rows)
           /\ key.expires \in Nat /\ key.body \in Body
           /\ \A r \in Requests : held[r] \in Body /\ begun[r] \in Nat
           /\ faults \in Nat /\ deceits \in Nat
<1>1. \A i \in 1..Len(rows) : rows[i] \in Row /\ rows[i].created \in Nat
  <2>1. \A i \in 1..Len(rows) : rows[i] \in Row
    BY DEF TypeOK
  <2>2. QED
    BY <2>1 DEF Row
<1>2. rows # <<>> => Len(rows) \in 1..Len(rows)
  BY DEF TypeOK
<1>3. QED
  BY <1>1, <1>2, TimeAssumption, FaultsAssumption DEF TypeOK, Key

\* What a settlement leaves alone.
LEMMA Settled ==
    ASSUME TypeOK, NEW t \in 1..Len(rows), Settle(t)
    PROVE  /\ Len(rows') = Len(rows)
           /\ \A i \in 1..Len(rows) : rows'[i].created = rows[i].created
           /\ UNCHANGED <<now, key, pc, begun, held, answer, faults, deceits>>
BY Numbers DEF Settle, NoFault, TypeOK, Row

\* What an insert does to the rows.
LEMMA Inserted ==
    ASSUME TypeOK, rows' = Append(rows, NewRow)
    PROVE  /\ Len(rows') = Len(rows) + 1
           /\ \A i \in 1..Len(rows) : i \in 1..Len(rows') /\ rows'[i] = rows[i]
           /\ rows'[Len(rows) + 1].created = now /\ rows' # <<>>
BY Numbers DEF TypeOK, NewRow

-----------------------------------------------------------------------------
(* Finite sets.                                                            *)

LEMMA Fewer ==
    ASSUME NEW S, IsFiniteSet(S), NEW T, T \subseteq S
    PROVE  /\ IsFiniteSet(T) /\ Cardinality(T) <= Cardinality(S)
           /\ Cardinality(T) \in Nat /\ Cardinality(S) \in Nat
BY FS_Subset, FS_CardinalityType

LEMMA OneMore ==
    ASSUME NEW S, IsFiniteSet(S), NEW x, NEW T, T \subseteq S \union {x}
    PROVE  /\ IsFiniteSet(T) /\ Cardinality(T) <= Cardinality(S) + 1
           /\ Cardinality(T) \in Nat /\ Cardinality(S) \in Nat
<1>1. Cardinality(S) \in Nat
  BY FS_CardinalityType
<1>2. IsFiniteSet(S \union {x}) /\ Cardinality(S \union {x}) <= Cardinality(S) + 1
  <2>1. /\ IsFiniteSet(S \union {x})
        /\ Cardinality(S \union {x}) =
             IF x \in S THEN Cardinality(S) ELSE Cardinality(S) + 1
    BY FS_AddElement
  <2>2. QED
    BY <1>1, <2>1
<1>3. /\ IsFiniteSet(T) /\ Cardinality(T) <= Cardinality(S \union {x})
      /\ Cardinality(T) \in Nat /\ Cardinality(S \union {x}) \in Nat
  BY <1>2, Fewer
<1>4. QED
  BY <1>1, <1>2, <1>3

LEMMA OneLess ==
    ASSUME NEW S, IsFiniteSet(S), NEW x \in S, NEW T, T \subseteq S \ {x}
    PROVE  /\ IsFiniteSet(T) /\ Cardinality(T) <= Cardinality(S) - 1
           /\ Cardinality(T) \in Nat /\ Cardinality(S) \in Nat
<1>1. /\ IsFiniteSet(S \ {x}) /\ Cardinality(S) \in Nat
      /\ Cardinality(S \ {x}) = Cardinality(S) - 1
  BY FS_RemoveElement, FS_CardinalityType
<1>2. QED
  BY <1>1, Fewer

\* What the balance counts is finite.
LEMMA Counts ==
    TypeOK /\ IsFiniteSet(Owners) =>
        /\ IsFiniteSet(Acting) /\ IsFiniteSet(Repeats)
        /\ Cardinality(Owners) \in Nat /\ Cardinality(Acting) \in Nat
        /\ Cardinality(Repeats) \in Nat
<1> SUFFICES ASSUME TypeOK, IsFiniteSet(Owners)
             PROVE  /\ IsFiniteSet(Acting) /\ IsFiniteSet(Repeats)
                    /\ Cardinality(Owners) \in Nat /\ Cardinality(Acting) \in Nat
                    /\ Cardinality(Repeats) \in Nat
  OBVIOUS
<1>1. IsFiniteSet(Acting) /\ Cardinality(Acting) \in Nat /\ Cardinality(Owners) \in Nat
  BY Fewer DEF Acting
<1>2. IsFiniteSet(2..Len(rows))
  BY Numbers, FS_Interval
<1>3. IsFiniteSet(Repeats) /\ Cardinality(Repeats) \in Nat
  BY <1>2, Fewer DEF Repeats
<1>4. QED
  BY <1>1, <1>3

LEMMA CountsNext ==
    (TypeOK /\ IsFiniteSet(Owners) =>
        /\ IsFiniteSet(Acting) /\ IsFiniteSet(Repeats)
        /\ Cardinality(Owners) \in Nat /\ Cardinality(Acting) \in Nat
        /\ Cardinality(Repeats) \in Nat)'
BY Counts, PTL

-----------------------------------------------------------------------------
(* The balance of each kind of step.                                       *)

Balance == ChargesOK /\ RepeatsArePaidFor

\* A step that takes no more than it pays keeps the balance.
LEMMA Balanced ==
    ASSUME IInv, TypeOK', deceits' \in {deceits, deceits + 1}, IsFiniteSet(Owners)',
           Cardinality(Owners)' - Cardinality(Owners) <= Credit' - Credit,
           Debt' - Debt <= Credit' - Credit,
           Cardinality(Repeats)' <= deceits'
    PROVE  Balance'
<1>1. /\ Cardinality(Owners) \in Nat /\ Cardinality(Acting) \in Nat
      /\ Cardinality(Repeats) \in Nat /\ deceits \in Nat
      /\ Cardinality(Owners) <= Credit /\ Debt <= Credit
  BY Counts, Numbers DEF IInv, ChargesOK
<1>2. /\ Cardinality(Owners)' \in Nat /\ Cardinality(Acting)' \in Nat
      /\ Cardinality(Repeats)' \in Nat
  BY CountsNext
<1>3. Cardinality(Owners)' <= Credit' /\ Debt' <= Credit'
  BY <1>1, <1>2 DEF Debt, Credit
<1>4. QED
  BY <1>3 DEF Balance, ChargesOK, RepeatsArePaidFor

\* The rows are as they were, but for what the worker settled.
SameRows == /\ Len(rows') = Len(rows)
            /\ \A i \in 1..Len(rows) : rows'[i].created = rows[i].created

LEMMA SameRowsKeep ==
    ASSUME TypeOK, TypeOK', SameRows
    PROVE  /\ Repeats' = Repeats
           /\ rows' = <<>> <=> rows = <<>>
           /\ rows # <<>> => rows'[Len(rows')].created = rows[Len(rows)].created
<1>1. Repeats' = Repeats
  <2>1. Len(rows) \in Nat /\ Len(rows') = Len(rows)
    BY Numbers DEF SameRows
  <2>2. \A i \in 2..Len(rows) :
          rows'[i].created = rows[i].created /\ rows'[i - 1].created = rows[i - 1].created
    BY <2>1 DEF SameRows
  <2>3. QED
    BY <2>1, <2>2 DEF Repeats
<1>2. rows' = <<>> <=> rows = <<>>
  BY DEF TypeOK, SameRows
<1>3. QED
  BY <1>1, <1>2, Numbers DEF SameRows

\* A key written now outlives every need there is.
LEMMA WrittenIsSound ==
    ASSUME TypeOK, TimesOK, TypeOK', SameRows, now' = now,
           key'.state # "none", key'.expires = now + TTL,
           \A s \in Owners' : begun'[s] = begun[s] \/ begun'[s] = now
    PROVE  Sound'
<1>1. \A s \in Owners' : begun'[s] + TTL <= key'.expires
  BY Numbers DEF Owners, TimesOK
<1>2. rows' # <<>> => rows'[Len(rows')].created + TTL - MaxHandling <= key'.expires
  <2>1. rows # <<>> => rows[Len(rows)].created \in Nat /\ rows[Len(rows)].created <= now
    BY Numbers DEF TimesOK
  <2>2. QED
    BY <2>1, SameRowsKeep, Numbers
<1>3. QED
  BY <1>1, <1>2 DEF Sound

\* A step that adds no owner and no row takes nothing: the key is as it was, or
\* written anew, or a fault has paid for it.
LEMMA QuietStep ==
    ASSUME IInv, TypeOK', Owners' \subseteq Owners, Acting' \subseteq Acting,
           \A s \in Owners' : begun'[s] = begun[s],
           SameRows, now' = now, deceits' \in {deceits, deceits + 1},
           \/ key' = key
           \/ key'.state # "none" /\ key'.expires = now + TTL
           \/ deceits' = deceits + 1
    PROVE  Balance'
<1>1. TypeOK /\ TimesOK /\ IsFiniteSet(Owners) /\ Cardinality(Repeats) <= deceits
  BY DEF IInv, ChargesOK, RepeatsArePaidFor
<1>3. /\ IsFiniteSet(Owners') /\ Cardinality(Owners') <= Cardinality(Owners)
      /\ Cardinality(Owners') \in Nat /\ Cardinality(Owners) \in Nat
  BY <1>1, Fewer
<1>4. /\ Cardinality(Acting') <= Cardinality(Acting)
      /\ Cardinality(Acting') \in Nat /\ Cardinality(Acting) \in Nat
  BY <1>1, Counts, Fewer
<1>5. Cardinality(Repeats') = Cardinality(Repeats) /\ Cardinality(Repeats) \in Nat
  BY <1>1, Counts, SameRowsKeep
<1>6. Fresh' <=> Fresh
  BY <1>1, SameRowsKeep DEF Fresh
<1>7. deceits' = deceits + 1 \/ (deceits' = deceits /\ (Sound => Sound'))
  <2>1. CASE key' = key
    <3>1. Sound => Sound'
      BY <1>1, <2>1, SameRowsKeep DEF Sound
    <3>2. QED
      BY <3>1
  <2>2. CASE key'.state # "none" /\ key'.expires = now + TTL
    BY <1>1, <2>2, WrittenIsSound
  <2>3. QED
    BY <2>1, <2>2
<1>8. /\ Cardinality(Owners') - Cardinality(Owners) <= Credit' - Credit
      /\ Debt' - Debt <= Credit' - Credit
  <2>1. deceits \in Nat
    BY <1>1, Numbers
  <2>2. Cardinality(Owners') - Cardinality(Owners) <= Credit' - Credit
    BY <1>3, <1>7, <2>1 DEF Credit
  <2>3. Debt' - Debt <= Credit' - Credit
    BY <1>4, <1>5, <1>6, <1>7, <2>1 DEF Debt, Credit
  <2>4. QED
    BY <2>2, <2>3
<1>9. Cardinality(Repeats') <= deceits'
  BY <1>1, <1>5, Numbers
<1>10. QED
  BY <1>1, <1>3, <1>8, <1>9, Balanced

\* The owners and those that act after a handler moved to a step.
LEMMA OwnersMove ==
    ASSUME TypeOK, NEW r \in Requests, NEW step, pc' = [pc EXCEPT ![r] = step]
    PROVE  /\ step \notin {"insert", "mark", "clear"} =>
                Owners' = Owners \ {r} /\ Acting' = Acting \ {r}
           /\ step \in {"insert", "clear"} =>
                Owners' = Owners \union {r} /\ Acting' = Acting \union {r}
           /\ step = "mark" =>
                Owners' = Owners \union {r} /\ Acting' = Acting \ {r}
<1>1. /\ pc'[r] = step
      /\ \A s \in Requests : s # r => pc'[s] = pc[s]
  BY DEF TypeOK
<1>2. QED
  BY <1>1 DEF Owners, Acting

\* A handler that reads, waits, answers or dies.
LEMMA Keeps ==
    ASSUME IInv, TypeOK', NEW r \in Requests, NEW step,
           step \notin {"insert", "mark", "clear"},
           Enter(r, step) \/ Goto(r, step) \/ Leave(r, step),
           UNCHANGED <<now, rows>>, deceits' = deceits,
           key' = key \/ (key'.state # "none" /\ key'.expires = now + TTL)
    PROVE  Balance'
<1>1. TypeOK
  BY DEF IInv
<1>2. Owners' = Owners \ {r} /\ Acting' = Acting \ {r}
  BY <1>1, OwnersMove DEF Enter, Goto, Leave
<1>3. \A s \in Owners' : begun'[s] = begun[s]
  BY <1>1, <1>2 DEF Enter, Goto, Leave, Owners, TypeOK
<1>4. SameRows
  BY DEF SameRows
<1>5. QED
  BY <1>1, <1>2, <1>3, <1>4, QuietStep

\* SETNX succeeds on a missing key only: the new owner is paid for by the key
\* that it makes sound.
LEMMA Acquires ==
    ASSUME IInv, TypeOK', NEW r \in Requests, key.state = "none",
           SetKey("pending", NoBody), Enter(r, "insert"),
           UNCHANGED <<now, rows, deceits>>
    PROVE  Balance'
<1>1. /\ TypeOK /\ TimesOK /\ IsFiniteSet(Owners) /\ Cardinality(Repeats) <= deceits
      /\ deceits \in Nat
  BY Numbers DEF IInv, ChargesOK, RepeatsArePaidFor
<1>2. Owners' = Owners \union {r} /\ Acting' = Acting \union {r}
  BY <1>1, OwnersMove DEF Enter
<1>3. /\ IsFiniteSet(Owners') /\ Cardinality(Owners') <= Cardinality(Owners) + 1
      /\ Cardinality(Owners') \in Nat /\ Cardinality(Owners) \in Nat
  BY <1>1, <1>2, OneMore
<1>4. /\ Cardinality(Acting') <= Cardinality(Acting) + 1
      /\ Cardinality(Acting') \in Nat /\ Cardinality(Acting) \in Nat
  BY <1>1, <1>2, Counts, OneMore
<1>5. SameRows
  BY DEF SameRows
<1>6. Cardinality(Repeats') = Cardinality(Repeats) /\ Cardinality(Repeats) \in Nat
  BY <1>1, <1>5, Counts, SameRowsKeep
<1>7. Fresh' <=> Fresh
  BY DEF Fresh
<1>8. ~Sound /\ Sound'
  <2>1. \A s \in Owners' : begun'[s] = begun[s] \/ begun'[s] = now
    BY <1>1, <1>2 DEF Enter, Owners, TypeOK
  <2>2. key'.state # "none" /\ key'.expires = now + TTL
    BY DEF SetKey
  <2>3. QED
    BY <1>1, <1>5, <2>1, <2>2, WrittenIsSound DEF Sound
<1>9. Cardinality(Owners') - Cardinality(Owners) <= Credit' - Credit
  BY <1>1, <1>3, <1>8 DEF Credit
<1>10. Debt' - Debt <= Credit' - Credit
  BY <1>1, <1>4, <1>6, <1>7, <1>8 DEF Debt, Credit
<1>11. Cardinality(Repeats') <= deceits'
  BY <1>1, <1>6
<1>12. QED
  BY <1>1, <1>3, <1>9, <1>10, <1>11, Balanced

\* Clear may take a key that is needed, but its owner is gone with it.
LEMMA Clears ==
    ASSUME IInv, TypeOK', NEW r \in Requests, pc[r] = "clear", Leave(r, "done"),
           UNCHANGED <<now, rows, deceits>>
    PROVE  Balance'
<1>1. /\ TypeOK /\ IsFiniteSet(Owners) /\ Cardinality(Repeats) <= deceits
      /\ deceits \in Nat
  BY Numbers DEF IInv, ChargesOK, RepeatsArePaidFor
<1>2. /\ r \in Owners /\ r \in Acting
      /\ Owners' = Owners \ {r} /\ Acting' = Acting \ {r}
  BY <1>1, OwnersMove DEF Leave, Owners, Acting
<1>3. /\ IsFiniteSet(Owners') /\ Cardinality(Owners') <= Cardinality(Owners) - 1
      /\ Cardinality(Owners') \in Nat /\ Cardinality(Owners) \in Nat
  BY <1>1, <1>2, OneLess
<1>4. /\ Cardinality(Acting') <= Cardinality(Acting) - 1
      /\ Cardinality(Acting') \in Nat /\ Cardinality(Acting) \in Nat
  BY <1>1, <1>2, Counts, OneLess
<1>5. SameRows
  BY DEF SameRows
<1>6. Cardinality(Repeats') = Cardinality(Repeats) /\ Cardinality(Repeats) \in Nat
  BY <1>1, <1>5, Counts, SameRowsKeep
<1>7. Fresh' <=> Fresh
  BY DEF Fresh
<1>8. Cardinality(Owners') - Cardinality(Owners) <= Credit' - Credit
  BY <1>1, <1>3 DEF Credit
<1>9. Debt' - Debt <= Credit' - Credit
  BY <1>1, <1>4, <1>6, <1>7 DEF Debt, Credit
<1>10. Cardinality(Repeats') <= deceits'
  BY <1>1, <1>6
<1>11. QED
  BY <1>1, <1>3, <1>8, <1>9, <1>10, Balanced

\* A new row: one repeat more when the row before it was fresh, and now fresh
\* itself.  The inserting handler acts no more, or was told a lie.
LEMMA Inserts ==
    ASSUME IInv, TypeOK', NEW r \in Requests, NEW step, pc[r] = "insert", Goto(r, step),
           rows' = Append(rows, NewRow), UNCHANGED <<now, key>>,
           \/ step = "mark" /\ deceits' = deceits
           \/ step = "clear" /\ deceits' = deceits + 1
    PROVE  Balance'
<1>1. /\ TypeOK /\ TimesOK /\ IsFiniteSet(Owners) /\ Cardinality(Repeats) <= deceits
      /\ Debt <= Credit /\ deceits \in Nat /\ Len(rows) \in Nat
  BY Numbers DEF IInv, ChargesOK, RepeatsArePaidFor
<1>2. /\ r \in Owners /\ r \in Acting /\ Owners' = Owners
      /\ Acting' = IF step = "mark" THEN Acting \ {r} ELSE Acting
  <2>1. r \in Owners /\ r \in Acting
    BY DEF Owners, Acting
  <2>2. step = "mark" => Owners' = Owners \union {r} /\ Acting' = Acting \ {r}
    BY <1>1, OwnersMove DEF Goto
  <2>3. step = "clear" => Owners' = Owners \union {r} /\ Acting' = Acting \union {r}
    BY <1>1, OwnersMove DEF Goto
  <2>4. QED
    BY <2>1, <2>2, <2>3
<1>3. /\ IsFiniteSet(Owners') /\ Cardinality(Owners') = Cardinality(Owners)
      /\ Cardinality(Owners') \in Nat /\ Cardinality(Owners) \in Nat
      /\ IsFiniteSet(Acting) /\ IsFiniteSet(Repeats)
      /\ Cardinality(Acting) \in Nat /\ Cardinality(Repeats) \in Nat
  BY <1>1, <1>2, Counts
<1>4. /\ Cardinality(Acting') \in Nat
      /\ step = "mark" => Cardinality(Acting') <= Cardinality(Acting) - 1
      /\ step = "clear" => Cardinality(Acting') = Cardinality(Acting)
      /\ Cardinality(Acting) >= 1
  <2>1. Cardinality(Acting \ {r}) <= Cardinality(Acting) - 1 /\ Cardinality(Acting \ {r}) \in Nat
    BY <1>2, <1>3, OneLess
  <2>2. QED
    BY <1>2, <1>3, <2>1
<1>5. /\ Len(rows') = Len(rows) + 1
      /\ \A i \in 1..Len(rows) : rows'[i] = rows[i]
      /\ rows'[Len(rows')].created = now
  BY <1>1, Inserted
<1>6. Repeats' \subseteq Repeats \union {Len(rows) + 1}
  BY <1>1, <1>5, Numbers DEF Repeats
<1>7. ~Fresh => Repeats' \subseteq Repeats
  <2>1. ASSUME NEW i \in Repeats', i = Len(rows) + 1 PROVE Fresh
    <3>1. i \in 2..Len(rows) + 1 /\ rows # <<>>
      BY <1>1, <1>5, <2>1 DEF Repeats, TypeOK
    <3>2. rows'[i].created = now /\ rows'[i - 1].created = rows[Len(rows)].created
      BY <1>1, <1>5, <2>1, <3>1
    <3>3. rows'[i].created - rows'[i - 1].created < TTL - MaxHandling
      BY <2>1 DEF Repeats
    <3>4. QED
      BY <3>1, <3>2, <3>3 DEF Fresh
  <2>2. QED
    BY <1>6, <2>1
<1>8. /\ Cardinality(Repeats') \in Nat
      /\ Fresh => Cardinality(Repeats') <= Cardinality(Repeats) + 1
      /\ ~Fresh => Cardinality(Repeats') <= Cardinality(Repeats)
  BY <1>3, <1>6, <1>7, OneMore, Fewer
<1>9. Sound => Sound'
  <2>1. now <= begun[r] + MaxHandling
    BY <1>1, Numbers DEF TimesOK, InFlight
  <2>2. Sound => now + TTL - MaxHandling <= key.expires
    BY <1>1, <1>2, <2>1, Numbers DEF Sound
  <2>3. QED
    BY <1>2, <1>5, <2>2 DEF Sound, Goto
<1>10. Cardinality(Owners') - Cardinality(Owners) <= Credit' - Credit
  BY <1>1, <1>3, <1>9 DEF Credit
<1>11. Debt' - Debt <= Credit' - Credit
  <2>1. CASE step = "mark"
    <3>1. /\ Cardinality(Acting') <= Cardinality(Acting) - 1
          /\ deceits' = deceits /\ deceits \in Nat
      BY <1>1, <1>4, <2>1
    <3>2. CASE Fresh
      <4>1. Cardinality(Repeats') <= Cardinality(Repeats) + 1
        BY <1>8, <3>2
      <4>2. QED
        BY <1>3, <1>4, <1>8, <1>9, <3>1, <3>2, <4>1 DEF Debt, Credit
    <3>3. CASE ~Fresh
      <4>1. Cardinality(Repeats') <= Cardinality(Repeats)
        BY <1>8, <3>3
      <4>2. QED
        BY <1>3, <1>4, <1>8, <1>9, <3>1, <3>3, <4>1 DEF Debt, Credit
    <3>4. QED
      BY <3>2, <3>3
  <2>2. CASE step = "clear"
    <3>1. Cardinality(Acting') = Cardinality(Acting) /\ deceits' = deceits + 1
      BY <1>4, <2>2
    <3>2. QED
      BY <1>1, <1>3, <1>4, <1>8, <1>9, <3>1 DEF Debt, Credit
  <2>3. QED
    BY <2>1, <2>2
<1>12. Cardinality(Repeats') <= deceits'
  BY <1>1, <1>3, <1>4, <1>8 DEF Debt, Credit
<1>13. QED
  BY <1>1, <1>3, <1>10, <1>11, <1>12, Balanced

\* Redis drops a key in its time: when it was sound, no handler and no fresh row
\* needs it any more.
LEMMA Ticks == ASSUME IInv, TypeOK', Tick PROVE Balance'
<1>1. /\ TypeOK /\ TimesOK /\ IsFiniteSet(Owners) /\ Cardinality(Repeats) <= deceits
      /\ Cardinality(Owners) <= Credit /\ Debt <= Credit
      /\ deceits \in Nat /\ deceits' = deceits
  BY Numbers DEF IInv, ChargesOK, RepeatsArePaidFor, Tick, NoFault
<1>2. Owners' = Owners /\ Acting' = Acting /\ Repeats' = Repeats
  BY DEF Tick, Owners, Acting, Repeats
<1>3. /\ Cardinality(Owners) \in Nat /\ Cardinality(Acting) \in Nat
      /\ Cardinality(Repeats) \in Nat
  BY <1>1, Counts
<1>4. Fresh' => Fresh
  BY <1>1, Numbers DEF Fresh, Tick
<1>5. CASE Sound => Sound'
  <2>1. Cardinality(Owners') - Cardinality(Owners) <= Credit' - Credit
    BY <1>1, <1>2, <1>3, <1>5 DEF Credit
  <2>2. Debt' - Debt <= Credit' - Credit
    BY <1>1, <1>2, <1>3, <1>4, <1>5 DEF Debt, Credit
  <2>3. QED
    BY <1>1, <1>2, <2>1, <2>2, Balanced
<1>6. CASE Sound /\ ~Sound'
  <2>1. key.expires <= now + 1
    BY <1>2, <1>6 DEF Sound, Tick
  <2>2. Owners = {}
    <3>1. \A s \in Owners : now - begun[s] < MaxHandling
      BY DEF Tick, Owners, InFlight
    <3>2. \A s \in Owners : begun[s] + TTL <= key.expires /\ begun[s] \in Nat
      BY <1>1, <1>6, Numbers DEF Sound, Owners
    <3>3. QED
      BY <1>1, <2>1, <3>1, <3>2, Numbers
  <2>3. ~Fresh'
    <3>1. rows # <<>> => rows[Len(rows)].created + TTL - MaxHandling <= key.expires
      BY <1>6 DEF Sound
    <3>2. QED
      BY <1>1, <2>1, <3>1, Numbers DEF Fresh, Tick
  <2>4. Cardinality(Owners) = 0 /\ Cardinality(Acting) = 0
    BY <2>2, FS_EmptySet DEF Acting
  <2>5. Cardinality(Owners)' <= Credit' /\ Debt' <= Credit'
    BY <1>1, <1>2, <1>3, <2>3, <2>4 DEF Debt, Credit
  <2>6. QED
    BY <1>1, <1>2, <2>5 DEF Balance, ChargesOK, RepeatsArePaidFor
<1>7. QED
  BY <1>5, <1>6

LEMMA BalanceStep == ASSUME IInv, TypeOK', [Next]_vars PROVE Balance'
<1>0. TypeOK
  BY DEF IInv
<1> USE DEF NoFault, Respond
<1>1. ASSUME NEW r \in Requests, Begin(r) PROVE Balance'
  <2>1. CASE key.state = "none"
    BY <1>1, <2>1, Acquires DEF Begin
  <2>2. CASE key.state # "none"
    BY <1>1, <2>2, Keeps DEF Begin
  <2>3. QED
    BY <2>1, <2>2
<1>2. ASSUME NEW r \in Requests, BeginResent(r) PROVE Balance'
  BY <1>0, <1>2, Keeps, FaultType DEF BeginResent, SetKey, Deceits
<1>3. ASSUME NEW r \in Requests, Read(r) \/ Select(r) \/ GiveUp(r) PROVE Balance'
  BY <1>3, Keeps DEF Read, Select, GiveUp
<1>4. ASSUME NEW r \in Requests, Remark(r) \/ Mark(r) PROVE Balance'
  BY <1>0, <1>4, Keeps, FaultType DEF Remark, Mark, SetKey, Deceits
<1>5. ASSUME NEW r \in Requests, Insert(r) PROVE Balance'
  BY <1>5, Inserts DEF Insert
<1>6. ASSUME NEW r \in Requests, InsertFails(r) PROVE Balance'
  <2>1. CASE Fault("lostInsert") /\ rows' = Append(rows, NewRow)
    BY <1>0, <1>6, <2>1, Inserts, FaultType DEF InsertFails, Deceits
  <2>2. CASE Fault("database") /\ UNCHANGED rows
    <3>1. Owners' = Owners \union {r} /\ Acting' = Acting \union {r}
      BY <1>0, <1>6, OwnersMove DEF InsertFails, Goto
    <3>2. r \in Owners /\ r \in Acting
      BY <1>6 DEF InsertFails, Owners, Acting
    <3>3. SameRows /\ deceits' = deceits
      BY <1>0, <2>2, FaultType DEF SameRows, Deceits
    <3>4. QED
      BY <1>0, <1>6, <3>1, <3>2, <3>3, Numbers, QuietStep DEF InsertFails, Goto
  <2>3. QED
    BY <1>6, <2>1, <2>2 DEF InsertFails
<1>7. ASSUME NEW r \in Requests, Clear(r) PROVE Balance'
  BY <1>0, <1>7, Clears, FaultType DEF Clear, Deceits
<1>8. ASSUME (\E r \in Requests : ClearResent(r)) \/ Restart PROVE Balance'
  <2>1. deceits' = deceits + 1 /\ UNCHANGED <<now, rows, pc, begun>>
    BY <1>0, <1>8, FaultType DEF ClearResent, Restart, Deceits
  <2>2. Owners' = Owners /\ Acting' = Acting /\ SameRows
    BY <2>1 DEF Owners, Acting, SameRows
  <2>3. QED
    BY <1>0, <2>1, <2>2, Numbers, QuietStep
<1>9. ASSUME NEW r \in Requests, RedisFails(r) PROVE Balance'
  BY <1>0, <1>9, Keeps, FaultType DEF RedisFails, SetKey, Deceits
<1>10. ASSUME NEW r \in Requests, LookupFails(r) \/ Die(r) PROVE Balance'
  BY <1>0, <1>10, Keeps, FaultType DEF LookupFails, Die, Deceits
<1>11. ASSUME NEW t \in 1..Len(rows), Settle(t) PROVE Balance'
  <2>1. SameRows /\ UNCHANGED <<now, key, pc, begun, deceits>>
    BY <1>0, <1>11, Settled DEF SameRows
  <2>2. Owners' = Owners /\ Acting' = Acting
    BY <2>1 DEF Owners, Acting
  <2>3. QED
    BY <1>0, <2>1, <2>2, Numbers, QuietStep
<1>12. CASE Tick
  BY <1>12, Ticks
<1>13. CASE UNCHANGED vars
  <2>1. SameRows /\ Owners' = Owners /\ Acting' = Acting
    BY <1>13 DEF vars, SameRows, Owners, Acting
  <2>2. QED
    BY <1>0, <1>13, <2>1, Numbers, QuietStep DEF vars
<1>14. QED
  BY <1>1, <1>2, <1>3, <1>4, <1>5, <1>6, <1>7, <1>8, <1>9, <1>10, <1>11,
     <1>12, <1>13 DEF Next, Handle

-----------------------------------------------------------------------------
(* Times, cached bodies and answers.                                       *)

\* A handler starts, goes on or ends.
Moves(r) == \/ \E step : Enter(r, step)
            \/ \E step : pc[r] \in InFlight /\ Goto(r, step)
            \/ \E step : step \notin InFlight /\ Leave(r, step)

\* The clock and the handlers' times.
LEMMA TimesStep == ASSUME IInv, TypeOK', [Next]_vars PROVE TimesOK'
<1>0. TypeOK /\ TimesOK
  BY DEF IInv
<1>a. USE <1>0, Numbers
<1>1. key'.state # "none" => now' < key'.expires
  <2>1. CASE Tick
    BY <2>1 DEF Tick, TimesOK, NoKey
  <2>2. CASE Restart
    BY <2>2 DEF Restart, NoKey
  <2>3. CASE now' = now /\ (key' = key \/ key' = NoKey \/ key'.expires = now + TTL)
    BY <2>3 DEF TimesOK, NoKey
  <2>4. ASSUME NEW r \in Requests, Handle(r)
        PROVE  now' = now /\ (key' = key \/ key' = NoKey \/ key'.expires = now + TTL)
    BY <2>4 DEF Handle, Begin, BeginResent, Read, Select, Remark, GiveUp, Insert,
                InsertFails, Mark, Clear, ClearResent, RedisFails, LookupFails, Die, SetKey
  <2>5. QED
    BY <2>1, <2>2, <2>3, <2>4 DEF Next, Settle, vars
<1>2. \A i \in 1..Len(rows') : rows'[i].created <= now'
  <2>1. CASE Tick
    BY <2>1 DEF Tick, TimesOK
  <2>2. CASE rows' = rows /\ now' = now
    BY <2>2 DEF TimesOK
  <2>3. CASE rows' = Append(rows, NewRow) /\ now' = now
    BY <2>3, Inserted DEF TimesOK
  <2>4. ASSUME NEW t \in 1..Len(rows), Settle(t)
        PROVE  \A i \in 1..Len(rows') : rows'[i].created <= now'
    BY <2>4, Settled DEF TimesOK
  <2>5. ASSUME NEW r \in Requests, Handle(r)
        PROVE  now' = now /\ (rows' = rows \/ rows' = Append(rows, NewRow))
    BY <2>5 DEF Handle, Begin, BeginResent, Read, Select, Remark, GiveUp, Insert,
                InsertFails, Mark, Clear, ClearResent, RedisFails, LookupFails, Die
  <2>6. QED
    BY <2>1, <2>2, <2>3, <2>4, <2>5 DEF Next, Restart, vars
<1>3. ASSUME NEW s \in Requests
      PROVE  begun'[s] <= now' /\ (pc'[s] \in InFlight => now' - begun'[s] <= MaxHandling)
  <2>1. CASE Tick
    BY <2>1 DEF Tick, TimesOK
  <2>2. CASE UNCHANGED <<now, pc, begun>>
    BY <2>2 DEF TimesOK
  <2>3. ASSUME NEW r \in Requests, Moves(r), now' = now
        PROVE  begun'[s] <= now' /\ (pc'[s] \in InFlight => now' - begun'[s] <= MaxHandling)
    <3>1. s # r => pc'[s] = pc[s] /\ begun'[s] = begun[s]
      BY <2>3 DEF Moves, Enter, Leave, Goto, TypeOK
    <3>2. s = r => \/ begun'[s] = now
                   \/ begun'[s] = 0 /\ pc'[s] \notin InFlight
                   \/ begun'[s] = begun[s] /\ pc[s] \in InFlight
      BY <2>3 DEF Moves, Enter, Leave, Goto, TypeOK
    <3>3. QED
      BY <2>3, <3>1, <3>2 DEF TimesOK
  <2>4. ASSUME NEW r \in Requests, Handle(r)
        PROVE  now' = now /\ (Moves(r) \/ UNCHANGED <<pc, begun>>)
    BY <2>4 DEF Handle, Begin, BeginResent, Read, Select, Remark, GiveUp, Insert,
                InsertFails, Mark, Clear, ClearResent, RedisFails, LookupFails, Die,
                Respond, InFlight, Moves
  <2>5. QED
    BY <2>1, <2>2, <2>3, <2>4 DEF Next, Settle, Restart, vars
<1>4. QED
  BY <1>1, <1>2, <1>3 DEF TimesOK

\* Rows are added and settled, and otherwise stay as they are.
Grown == \A n \in 1..Len(rows) : n \in 1..Len(rows') /\ rows'[n].created = rows[n].created

LEMMA GrownStep == ASSUME TypeOK, [Next]_vars PROVE Grown
<1>1. CASE rows' = rows
  BY <1>1 DEF Grown
<1>2. CASE rows' = Append(rows, NewRow)
  BY <1>2, Inserted DEF Grown
<1>3. ASSUME NEW t \in 1..Len(rows), Settle(t) PROVE Grown
  BY <1>3, Settled DEF Grown
<1>4. ASSUME NEW r \in Requests, Handle(r)
      PROVE  rows' = rows \/ rows' = Append(rows, NewRow)
  BY <1>4 DEF Handle, Begin, BeginResent, Read, Select, Remark, GiveUp, Insert,
              InsertFails, Mark, Clear, ClearResent, RedisFails, LookupFails, Die
<1>5. QED
  BY <1>1, <1>2, <1>3, <1>4 DEF Next, Restart, Tick, vars

\* What a handler is about to answer with is as young as its answer may be.
LEMMA HeldIsYoung ==
    ASSUME IInv, NEW r \in Requests, pc[r] \in {"mark", "remark"}
    PROVE  /\ Known(held[r].txn)
           /\ now + TTL <= rows[held[r].txn].created + 2 * TTL + MaxHandling
<1>1. TypeOK /\ Known(held[r].txn) /\ begun[r] <= rows[held[r].txn].created + TTL
  BY DEF IInv, YoungHeld
<1>2. now - begun[r] <= MaxHandling
  BY DEF IInv, TimesOK, InFlight
<1>3. begun[r] \in Nat /\ rows[held[r].txn].created \in Nat
  BY <1>1, Numbers DEF Known
<1>4. \A b, c, n, t, h \in Nat :
        b <= c + t /\ n - b <= h => n + t <= c + 2 * t + h
  OBVIOUS
<1>5. QED
  BY <1>1, <1>2, <1>3, <1>4, Numbers

LEMMA YoungKeyStep == ASSUME IInv, [Next]_vars PROVE YoungKey'
<1>1. TypeOK /\ YoungKey /\ Grown
  BY GrownStep DEF IInv
<1>2. CASE key' = key \/ key'.state # "completed"
  BY <1>1, <1>2 DEF YoungKey, Known, Grown
<1>3. ASSUME NEW r \in Requests, Remark(r) \/ Mark(r), SetKey("completed", held[r])
      PROVE  YoungKey'
  BY <1>1, <1>3, HeldIsYoung DEF Remark, Mark, SetKey, YoungKey, Known, Grown
<1>4. ASSUME NEW r \in Requests, Handle(r)
      PROVE  \/ key' = key \/ key'.state # "completed"
             \/ (Remark(r) \/ Mark(r)) /\ SetKey("completed", held[r])
  BY <1>4 DEF Handle, Begin, BeginResent, Read, Select, Remark, GiveUp, Insert,
              InsertFails, Mark, Clear, ClearResent, RedisFails, LookupFails, Die,
              SetKey, NoKey
<1>5. QED
  BY <1>2, <1>3, <1>4 DEF Next, Settle, Restart, Tick, vars, NoKey

LEMMA YoungHeldStep == ASSUME IInv, [Next]_vars PROVE YoungHeld'
<1>1. TypeOK /\ YoungHeld /\ Grown
  BY GrownStep DEF IInv
<1>2. CASE UNCHANGED <<pc, begun, held>>
  BY <1>1, <1>2 DEF YoungHeld, Known, Grown
<1>3. ASSUME NEW r \in Requests,
             \A s \in Requests : s # r =>
               pc'[s] = pc[s] /\ begun'[s] = begun[s] /\ held'[s] = held[s],
             pc'[r] \in {"mark", "remark"} =>
               held'[r].txn \in 1..Len(rows') /\ begun'[r] <= rows'[held'[r].txn].created + TTL
      PROVE  YoungHeld'
  BY <1>1, <1>3 DEF YoungHeld, Known, Grown
<1>4. ASSUME NEW r \in Requests, Select(r) PROVE YoungHeld'
  <2>1. \A s \in Requests : s # r =>
          pc'[s] = pc[s] /\ begun'[s] = begun[s] /\ held'[s] = held[s]
    BY <1>1, <1>4 DEF Select, Goto, TypeOK
  <2>2. pc'[r] \in {"mark", "remark"} => rows # <<>> /\ Replayable(rows[Len(rows)])
    BY <1>1, <1>4 DEF Select, Goto, TypeOK
  <2>3. ASSUME rows # <<>>, Replayable(rows[Len(rows)])
        PROVE  held'[r].txn \in 1..Len(rows') /\ begun'[r] <= rows'[held'[r].txn].created + TTL
    <3>1. held'[r].txn = Len(rows) /\ begun'[r] = begun[r] /\ rows' = rows
      BY <1>1, <1>4, <2>3 DEF Select, Goto, Newest, TypeOK
    <3>2. begun[r] <= now
      BY DEF IInv, TimesOK
    <3>3. Len(rows) \in 1..Len(rows) /\ now - rows[Len(rows)].created <= TTL
      BY <1>1, <2>3, Numbers DEF Replayable
    <3>4. QED
      BY <1>1, <3>1, <3>2, <3>3, Numbers DEF Known
  <2>4. QED
    BY <1>3, <2>1, <2>2, <2>3
<1>5. ASSUME NEW r \in Requests, Insert(r) PROVE YoungHeld'
  <2>1. \A s \in Requests : s # r =>
          pc'[s] = pc[s] /\ begun'[s] = begun[s] /\ held'[s] = held[s]
    BY <1>1, <1>5 DEF Insert, Goto, TypeOK
  <2>2. held'[r].txn = Len(rows) + 1 /\ begun'[r] = begun[r] /\ begun[r] <= now
    BY <1>1, <1>5 DEF Insert, Goto, TypeOK, IInv, TimesOK
  <2>3. Len(rows') = Len(rows) + 1 /\ rows'[Len(rows) + 1].created = now
    BY <1>1, <1>5, Inserted DEF Insert
  <2>4. QED
    BY <1>1, <1>3, <2>1, <2>2, <2>3, Numbers DEF Known
<1>6. ASSUME NEW r \in Requests, Handle(r), ~Select(r), ~Insert(r) PROVE YoungHeld'
  <2>1. \/ UNCHANGED <<pc, begun, held>>
        \/ /\ \A s \in Requests : s # r =>
                  pc'[s] = pc[s] /\ begun'[s] = begun[s] /\ held'[s] = held[s]
           /\ pc'[r] \notin {"mark", "remark"}
    BY <1>1, <1>6
    DEF Handle, Begin, BeginResent, Read, Remark, GiveUp, InsertFails, Mark, Clear,
        ClearResent, RedisFails, LookupFails, Die, Respond, Enter, Goto, Leave, TypeOK
  <2>2. QED
    BY <1>2, <1>3, <2>1
<1>7. QED
  BY <1>2, <1>4, <1>5, <1>6, Settled, <1>1 DEF Next, Restart, Tick, vars

\* A handler writes its answer: no acceptance, or that of a row young enough.
Answers(r, code, body) ==
    /\ pc[r] # "done" /\ code \in {202, 409, 500}
    /\ \E replayed : Respond(r, code, body, replayed)
    /\ UNCHANGED <<now, rows>>
    /\ code = 202 => /\ body \in Body /\ Known(body.txn)
                     /\ now - rows[body.txn].created < 2 * TTL + MaxHandling

\* Whatever a handler answers, it answers like that.
LEMMA Answering ==
    ASSUME IInv, NEW r \in Requests, Handle(r)
    PROVE  \/ \E code, body : Answers(r, code, body)
           \/ /\ answer' = answer
              /\ \A s \in Requests : pc[s] = "done" <=> pc'[s] = "done"
<1>0. TypeOK
  BY DEF IInv
<1>1. CASE Read(r) /\ key.state = "completed"
  <2>1. /\ Known(key.body.txn) /\ now < key.expires
        /\ key.expires <= rows[key.body.txn].created + 2 * TTL + MaxHandling
    BY <1>1 DEF IInv, YoungKey, TimesOK
  <2>2. rows[key.body.txn].created \in Nat
    BY <1>0, <2>1, Numbers DEF Known
  <2>3. now - rows[key.body.txn].created < 2 * TTL + MaxHandling
    <3>1. \A n, e, c, t, h \in Nat : n < e /\ e <= c + 2 * t + h => n - c < 2 * t + h
      OBVIOUS
    <3>2. QED
      BY <1>0, <2>1, <2>2, <3>1, Numbers
  <2>4. Answers(r, 202, key.body)
    BY <1>0, <1>1, <2>1, <2>3, Numbers DEF Read, Answers
  <2>5. QED
    BY <2>4
<1>2. CASE Remark(r) \/ Mark(r)
  <2>1. /\ Known(held[r].txn)
        /\ now + TTL <= rows[held[r].txn].created + 2 * TTL + MaxHandling
    BY <1>2, HeldIsYoung DEF Remark, Mark
  <2>2. rows[held[r].txn].created \in Nat
    BY <1>0, <2>1, Numbers DEF Known
  <2>3. now - rows[held[r].txn].created < 2 * TTL + MaxHandling
    <3>1. \A n, c, t, h \in Nat :
            0 < t /\ n + t <= c + 2 * t + h => n - c < 2 * t + h
      OBVIOUS
    <3>2. QED
      BY <1>0, <2>1, <2>2, <3>1, Numbers
  <2>4. Answers(r, 202, held[r])
    BY <1>0, <1>2, <2>1, <2>3, Numbers DEF Remark, Mark, Answers
  <2>5. QED
    BY <2>4
<1>3. CASE GiveUp(r) \/ Clear(r) \/ RedisFails(r) \/ LookupFails(r)
  <2>1. \E code \in {409, 500} : Answers(r, code, NoBody)
    BY <1>3 DEF GiveUp, Clear, RedisFails, LookupFails, Answers
  <2>2. QED
    BY <2>1
<1>4. CASE \/ Begin(r) \/ BeginResent(r) \/ Select(r) \/ Insert(r) \/ InsertFails(r)
           \/ ClearResent(r) \/ Die(r) \/ (Read(r) /\ key.state # "completed")
  BY <1>0, <1>4 DEF Begin, BeginResent, Select, Insert, InsertFails, ClearResent, Die,
                    Read, Enter, Goto, Leave, InFlight, TypeOK
<1>5. QED
  BY <1>1, <1>2, <1>3, <1>4 DEF Handle

LEMMA AnswersStep == ASSUME IInv, [Next]_vars PROVE AnswersOK'
<1>1. TypeOK /\ AnswersOK /\ Grown
  BY GrownStep DEF IInv
<1>2. ASSUME answer' = answer, \A s \in Requests : pc[s] = "done" <=> pc'[s] = "done"
      PROVE  AnswersOK'
  BY <1>1, <1>2 DEF AnswersOK, Known, Grown
<1>3. ASSUME NEW r \in Requests, NEW code, NEW body, Answers(r, code, body)
      PROVE  AnswersOK'
  <2>1. /\ pc'[r] = "done"
        /\ \A s \in Requests : s # r => pc'[s] = pc[s]
        /\ answer'[r].code = code /\ answer'[r].body = body /\ answer'[r].at = now
        /\ \A s \in Requests : s # r => answer'[s] = answer[s]
    BY <1>1, <1>3 DEF Answers, Respond, Leave, TypeOK
  <2>2. /\ UNCHANGED <<now, rows>> /\ code # 0
        /\ code = 202 => /\ Known(body.txn)
                         /\ now - rows[body.txn].created < 2 * TTL + MaxHandling
    BY <1>3 DEF Answers
  <2>3. QED
    BY <1>1, <2>1, <2>2 DEF AnswersOK, Known
<1>4. QED
  BY <1>1, <1>2, <1>3, Answering, Settled DEF Next, Restart, Tick, vars

-----------------------------------------------------------------------------
(* Theorems.                                                               *)

LEMMA InitIInv == Init => IInv
<1> SUFFICES ASSUME Init PROVE IInv
  OBVIOUS
<1>1. TypeOK
  BY Values, FaultsAssumption DEF Init, TypeOK, Steps
<1>2. TimesOK /\ YoungKey /\ YoungHeld /\ AnswersOK
  BY TimeAssumption
  DEF Init, TimesOK, YoungKey, YoungHeld, AnswersOK, NoKey, NoAnswer, InFlight
<1>3. Owners = {} /\ Acting = {} /\ Repeats = {} /\ ~Fresh /\ deceits = 0
  BY DEF Init, Owners, Acting, Repeats, Fresh
<1>4. Balance
  BY <1>3, FS_EmptySet DEF Balance, ChargesOK, RepeatsArePaidFor, Debt, Credit
<1>5. QED
  BY <1>1, <1>2, <1>4 DEF IInv, Balance

\* IInv holds at all times, whatever fails, dies, is lost or expires.
THEOREM Invariance == Spec => []IInv
<1>1. IInv /\ [Next]_vars => IInv'
  <2> SUFFICES ASSUME IInv, [Next]_vars PROVE IInv'
    OBVIOUS
  <2>1. TypeOK'
    BY TypeStep DEF IInv
  <2>2. QED
    BY <2>1, TimesStep, BalanceStep, YoungKeyStep, YoungHeldStep, AnswersStep
    DEF IInv, Balance
<1>2. QED
  BY <1>1, InitIInv, PTL DEF Spec

\* Every variable keeps its type.
THEOREM TypeCorrect == Spec => []TypeOK
<1>1. IInv => TypeOK
  BY DEF IInv
<1>2. QED
  BY <1>1, Invariance, PTL

\* The key is a lock: one handler is between its SETNX and its answer, and one
\* more for each time that an insert was there though it failed, a DEL came
\* back or a write was forgotten; none more for handlers that die, calls that
\* fail, and keys that expire.
THEOREM LockHolds == Spec => []FewOwners
<1>1. IInv => FewOwners
  <2> SUFFICES ASSUME IInv PROVE FewOwners
    OBVIOUS
  <2>1. Cardinality(Owners) \in Nat /\ Cardinality(Owners) <= Credit /\ deceits \in Nat
    BY Counts, Numbers DEF IInv, ChargesOK
  <2>2. QED
    BY <2>1 DEF FewOwners, Credit
<1>2. QED
  BY <1>1, Invariance, PTL

\* A reference is processed again within its TTL (less a handler's life) no
\* more often than the deceits account for.
THEOREM RepeatsBounded == Spec => []RepeatsArePaidFor
<1>1. IInv => RepeatsArePaidFor
  BY DEF IInv
<1>2. QED
  BY <1>1, Invariance, PTL

\* Without those deceits a reference is not processed again at all before its
\* TTL, less the ticks that a handler may live through, is over.
THEOREM AtMostOnce ==
    ASSUME Faults \intersect Deceits = {}
    PROVE  Spec => [](\A i \in 2..Len(rows) :
                        rows[i].created - rows[i - 1].created >= TTL - MaxHandling)
<1>1. Init => deceits = 0
  BY DEF Init
<1>2. deceits = 0 /\ [Next]_vars => (deceits = 0)'
  <2>1. ASSUME NEW kind, Fault(kind) PROVE deceits' = deceits
    BY <2>1 DEF Fault
  <2>2. ASSUME NEW r \in Requests, Handle(r) PROVE deceits' = deceits
    BY <2>1, <2>2
    DEF Handle, Begin, BeginResent, Read, Select, Remark, GiveUp, Insert, InsertFails,
        Mark, Clear, ClearResent, RedisFails, LookupFails, Die, NoFault
  <2>3. QED
    BY <2>1, <2>2 DEF Next, Settle, Restart, Tick, NoFault, vars
<1>3. IInv /\ deceits = 0 =>
        \A i \in 2..Len(rows) : rows[i].created - rows[i - 1].created >= TTL - MaxHandling
  <2> SUFFICES ASSUME IInv, deceits = 0, NEW i \in 2..Len(rows)
               PROVE  rows[i].created - rows[i - 1].created >= TTL - MaxHandling
    OBVIOUS
  <2>1. IsFiniteSet(Repeats) /\ Cardinality(Repeats) \in Nat /\ Cardinality(Repeats) <= 0
    BY Counts DEF IInv, ChargesOK, RepeatsArePaidFor
  <2>2. Repeats = {}
    BY <2>1, FS_EmptySet
  <2>3. i - 1 \in 1..Len(rows) /\ i \in 1..Len(rows)
    BY Numbers DEF IInv
  <2>4. /\ rows[i].created \in Nat /\ rows[i - 1].created \in Nat
        /\ TTL \in Nat /\ MaxHandling \in Nat
    BY <2>3, Numbers DEF IInv
  <2>5. ~(rows[i].created - rows[i - 1].created < TTL - MaxHandling)
    BY <2>2 DEF Repeats
  <2>6. QED
    BY <2>4, <2>5
<1>4. QED
  BY <1>1, <1>2, <1>3, Invariance, PTL DEF Spec

\* Replays of a transaction end before twice the TTL and a handler's life: the
\* row is replayed while it is young, and the key that this renews once more.
THEOREM ReplayEnds ==
    Spec => [](\A r \in Accepted :
                 answer[r].at - rows[answer[r].body.txn].created < 2 * TTL + MaxHandling)
<1>1. IInv => \A r \in Accepted :
                 answer[r].at - rows[answer[r].body.txn].created < 2 * TTL + MaxHandling
  BY DEF IInv, AnswersOK, Accepted
<1>2. QED
  BY <1>1, Invariance, PTL

-----------------------------------------------------------------------------
(* The refinement of ReferenceSpec.                                        *)

CreatedSeq == [i \in 1..Len(rows) |-> rows[i].created]
BoundTo == [r \in Requests |-> IF answer[r].code = 202 THEN answer[r].body.txn ELSE 0]

LEMMA Updated ==
    ASSUME NEW S, NEW f, NEW g, NEW x \in S,
           f = [s \in S |-> f[s]], g = [s \in S |-> g[s]],
           \A s \in S : s # x => g[s] = f[s]
    PROVE  g = [f EXCEPT ![x] = g[x]]
OBVIOUS

LEMMA RepeatsMap == TypeOK => Reference!Repeats = Repeats
<1> SUFFICES ASSUME TypeOK PROVE Reference!Repeats = Repeats
  OBVIOUS
<1>1. Len(rows) \in Nat
  BY Numbers
<1>2. Len(CreatedSeq) = Len(rows) /\ \A i \in 1..Len(rows) : CreatedSeq[i] = rows[i].created
  BY <1>1 DEF CreatedSeq
<1>3. \A i \in 2..Len(rows) : i - 1 \in 1..Len(rows) /\ i \in 1..Len(rows)
  BY <1>1
<1>4. QED
  BY <1>2, <1>3 DEF Reference!Repeats, Repeats, CreatedSeq

LEMMA RepeatsMapNext == (TypeOK => Reference!Repeats = Repeats)'
BY RepeatsMap, PTL

\* ReferenceSpec counts as Idempotency does.
LEMMA SameCount == \A S : Reference!Cardinality(S) = Cardinality(S)
BY DEF Reference!Cardinality, Cardinality

\* An answer accepts for the reference, or says nothing to it.
LEMMA AnswerMaps ==
    ASSUME IInv, NEW r \in Requests, NEW code, NEW body, Answers(r, code, body),
           deceits' = deceits
    PROVE  Reference!Accept(r) \/ UNCHANGED Reference!vars
<1>1. TypeOK /\ AnswersOK /\ UNCHANGED <<now, rows>>
  BY DEF IInv, Answers
<1>2. /\ answer'[r].code = code /\ answer'[r].body = body
      /\ \A s \in Requests : s # r => answer'[s] = answer[s]
      /\ answer[r].code = 0
  BY <1>1 DEF Answers, Respond, TypeOK, AnswersOK
<1>3. CreatedSeq' = CreatedSeq
  BY <1>1 DEF CreatedSeq
<1>4. CASE code = 202
  <2>1. BoundTo[r] = 0 /\ BoundTo' = [BoundTo EXCEPT ![r] = body.txn]
    <3>1. BoundTo[r] = 0
      BY <1>2 DEF BoundTo
    <3>2. BoundTo'[r] = body.txn
      BY <1>2, <1>4 DEF BoundTo
    <3>3. \A s \in Requests : s # r => BoundTo'[s] = BoundTo[s]
      BY <1>2 DEF BoundTo
    <3>4. /\ BoundTo = [s \in Requests |-> BoundTo[s]]
          /\ BoundTo' = [s \in Requests |-> BoundTo'[s]]
      BY DEF BoundTo
    <3>5. QED
      BY <3>1, <3>2, <3>3, <3>4, Updated
  <2>2. body.txn \in 1..Len(rows) /\ now - CreatedSeq[body.txn] < 2 * TTL + MaxHandling
    BY <1>1, <1>4 DEF Answers, Known, CreatedSeq
  <2>3. Len(CreatedSeq) = Len(rows)
    BY <1>1, Numbers DEF CreatedSeq
  <2>4. Reference!Accept(r)
    BY <1>1, <1>3, <2>1, <2>2, <2>3 DEF Reference!Accept, CreatedSeq, BoundTo
  <2>5. QED
    BY <2>4
<1>5. CASE code # 202
  <2>1. BoundTo' = BoundTo
    BY <1>2, <1>5 DEF BoundTo
  <2>2. QED
    BY <1>1, <1>3, <2>1 DEF Reference!vars, CreatedSeq, BoundTo
<1>6. QED
  BY <1>4, <1>5

\* A new row is a creation, which the balance allows.
LEMMA InsertMaps ==
    ASSUME IInv, IInv', rows' = Append(rows, NewRow), UNCHANGED <<now, answer>>,
           deceits' \in {deceits, deceits + 1}
    PROVE  Reference!Create
<1>1. TypeOK /\ TypeOK' /\ Cardinality(Repeats)' <= deceits'
  BY DEF IInv, RepeatsArePaidFor
<1>2. /\ Len(rows') = Len(rows) + 1 /\ rows'[Len(rows) + 1].created = now
      /\ \A i \in 1..Len(rows) : rows'[i] = rows[i]
  BY <1>1, Inserted
<1>3. CreatedSeq' = Append(CreatedSeq, now)
  BY <1>1, <1>2, Numbers DEF CreatedSeq
<1>4. BoundTo' = BoundTo
  BY DEF BoundTo
<1>5. Reference!Repeats' = Repeats'
  BY <1>1, RepeatsMapNext
<1>6. Reference!Cardinality(Reference!Repeats') <= deceits'
  BY <1>1, <1>5, SameCount
<1>7. QED
  BY <1>1, <1>3, <1>4, <1>6 DEF Reference!Create, CreatedSeq, BoundTo

\* Every step of the handlers, of the worker and of the clock is a step that
\* ReferenceSpec allows.
LEMMA StepMaps ==
    ASSUME IInv, IInv', [Next]_vars
    PROVE  [Reference!Next]_(Reference!vars)
<1>0. TypeOK
  BY DEF IInv
<1>1. ASSUME UNCHANGED <<now, answer>>, CreatedSeq' = CreatedSeq,
             deceits' \in {deceits, deceits + 1}
      PROVE  [Reference!Next]_(Reference!vars)
  <2>1. BoundTo' = BoundTo
    BY <1>1 DEF BoundTo
  <2>2. QED
    BY <1>1, <2>1 DEF Reference!Next, Reference!Deceive, Reference!vars, CreatedSeq, BoundTo
<1>2. ASSUME UNCHANGED <<now, rows, answer>>, deceits' \in {deceits, deceits + 1}
      PROVE  [Reference!Next]_(Reference!vars)
  BY <1>1, <1>2 DEF CreatedSeq
<1>3. ASSUME NEW kind, Fault(kind)
      PROVE  /\ deceits' \in {deceits, deceits + 1}
             /\ kind \notin Deceits => deceits' = deceits
  BY <1>3 DEF Fault
<1>4. ASSUME NEW r \in Requests, NEW code, NEW body, Answers(r, code, body), Handle(r)
      PROVE  [Reference!Next]_(Reference!vars)
  <2>1. deceits' = deceits
    <3>1. answer'[r].code = code /\ code # 0 /\ answer[r].code = 0
      BY <1>0, <1>4 DEF Answers, Respond, TypeOK, IInv, AnswersOK
    <3>2. answer' # answer
      BY <3>1
    <3>3. QED
      BY <1>3, <1>4, <3>2
      DEF Handle, Begin, BeginResent, Read, Select, Remark, GiveUp, Insert, InsertFails,
          Mark, Clear, ClearResent, RedisFails, LookupFails, Die, NoFault, Deceits
  <2>2. Reference!Accept(r) \/ UNCHANGED Reference!vars
    BY <1>4, <2>1, AnswerMaps
  <2>3. QED
    BY <2>2 DEF Reference!Next
<1>5. ASSUME NEW r \in Requests, Insert(r) \/ InsertFails(r)
      PROVE  [Reference!Next]_(Reference!vars)
  <2>1. /\ UNCHANGED <<now, answer>> /\ deceits' \in {deceits, deceits + 1}
        /\ rows' = rows \/ rows' = Append(rows, NewRow)
    BY <1>3, <1>5 DEF Insert, InsertFails, NoFault
  <2>2. QED
    BY <1>2, <2>1, InsertMaps DEF Reference!Next
<1>6. ASSUME NEW r \in Requests, Handle(r), answer' = answer, ~Insert(r), ~InsertFails(r)
      PROVE  [Reference!Next]_(Reference!vars)
  <2>1. UNCHANGED <<now, rows>> /\ deceits' \in {deceits, deceits + 1}
    BY <1>3, <1>6
    DEF Handle, Begin, BeginResent, Read, Select, Remark, GiveUp, Mark, Clear,
        ClearResent, RedisFails, LookupFails, Die, NoFault
  <2>2. QED
    BY <1>2, <1>6, <2>1
<1>7. ASSUME NEW t \in 1..Len(rows), Settle(t)
      PROVE  [Reference!Next]_(Reference!vars)
  <2>1. CreatedSeq' = CreatedSeq /\ UNCHANGED <<now, answer, deceits>>
    BY <1>0, <1>7, Settled DEF CreatedSeq
  <2>2. QED
    BY <1>1, <2>1
<1>8. CASE Restart
  BY <1>2, <1>3, <1>8 DEF Restart
<1>9. CASE Tick
  <2>1. now' = now + 1 /\ CreatedSeq' = CreatedSeq /\ BoundTo' = BoundTo /\ deceits' = deceits
    BY <1>9 DEF Tick, CreatedSeq, BoundTo, NoFault
  <2>2. QED
    BY <2>1 DEF Reference!Next, Reference!Tick, CreatedSeq, BoundTo
<1>10. CASE UNCHANGED vars
  BY <1>2, <1>10 DEF vars
<1>11. QED
  BY <1>4, <1>5, <1>6, <1>7, <1>8, <1>9, <1>10, Answering DEF Next

\* Over a key that expires, fails and is lost, the handlers do what ReferenceSpec
\* promises of the reference.
THEOREM Refinement == Spec => ImplementsReference
<1>1. Init => Reference!Init
  <2> SUFFICES ASSUME Init PROVE Reference!Init
    OBVIOUS
  <2>1. CreatedSeq = <<>>
    BY DEF Init, CreatedSeq
  <2>2. BoundTo = [r \in Requests |-> 0]
    BY DEF Init, BoundTo, NoAnswer
  <2>3. QED
    BY <2>1, <2>2 DEF Init, Reference!Init, CreatedSeq, BoundTo
<1>2. IInv /\ IInv' /\ [Next]_vars => [Reference!Next]_(Reference!vars)
  BY StepMaps
<1>3. QED
  BY <1>1, <1>2, Invariance, PTL DEF Spec, ImplementsReference, Reference!Spec
=============================================================================
