--------------------------- MODULE ReadingProofs ---------------------------
(***************************************************************************)
(* What a client is told by the read endpoints while the pool works, for   *)
(* any transactions, workers, faults and page sizes.  The pool's own       *)
(* invariant comes from LedgerProofs: the endpoints change nothing.        *)
(***************************************************************************)
EXTENDS Reading, LedgerProofs

-----------------------------------------------------------------------------
(* The lists.                                                              *)

\* What is in a list is a finite set of numbers.
LEMMA ItemsFacts ==
    ASSUME IInv, IsFiniteSet(Existing), NEW l \in Lists
    PROVE  IsFiniteSet(Items(l)) /\ Items(l) \subseteq Nat
<1>1. CASE l = "ledger"
  <2> DEFINE ids == {ledger[i].id : i \in 1..Len(ledger)}
             f == [i \in 1..Len(ledger) |-> ledger[i].id]
  <2>1. /\ Len(ledger) \in Nat
        /\ \A i \in 1..Len(ledger) : ledger[i].id \in Nat
    <3>1. ledger \in Seq(Entry)
      BY DEF IInv, TypeOK
    <3>2. Len(ledger) \in Nat /\ \A i \in 1..Len(ledger) : ledger[i] \in Entry
      BY <3>1
    <3>3. QED
      BY <3>2 DEF Entry
  <2>2. f \in Surjection(1..Len(ledger), ids) /\ IsFiniteSet(1..Len(ledger))
    <3>1. IsFiniteSet(1..Len(ledger))
      <4>1. Len(ledger) \in Int /\ 1 \in Int
        BY <2>1
      <4>2. QED
        BY <4>1, FS_Interval
    <3>2. f \in Surjection(1..Len(ledger), ids)
      BY DEF Surjection
    <3>3. QED
      BY <3>1, <3>2
  <2>3. IsFiniteSet(ids)
    <3> HIDE DEF ids, f
    <3>1. QED
      BY <2>2, FS_Surjection
  <2>4. QED
    BY <1>1, <2>1, <2>3 DEF Items
<1>2. CASE l # "ledger"
  <2>1. Items(l) \subseteq Existing
    BY <1>2 DEF Items, Existing, Lists
  <2>2. QED
    BY <2>1, FS_Subset, TxnsAssumption DEF Existing
<1>3. QED
  BY <1>1, <1>2

LEMMA RankType ==
    ASSUME NEW l, IsFiniteSet(Items(l)), NEW x
    PROVE  /\ IsFiniteSet({y \in Items(l) : Before(y, x)})
           /\ Rank(l, x) \in Nat
<1>1. {y \in Items(l) : Before(y, x)} \subseteq Items(l)
  OBVIOUS
<1>2. IsFiniteSet({y \in Items(l) : Before(y, x)})
  BY <1>1, FS_Subset
<1>3. QED
  BY <1>2, FS_CardinalityType DEF Rank

\* Every item has a rank below the total.
LEMMA RankBelowTotal ==
    ASSUME NEW l, IsFiniteSet(Items(l)), Items(l) \subseteq Nat, NEW x \in Items(l)
    PROVE  Rank(l, x) < Cardinality(Items(l))
<1> DEFINE S == {y \in Items(l) : Before(y, x)}
<1>1. S \subseteq Items(l) /\ S # Items(l)
  BY DEF Before
<1>2. Cardinality(S) <= Cardinality(Items(l)) /\ Cardinality(S) # Cardinality(Items(l))
  <2> HIDE DEF S
  <2>1. QED
    BY <1>1, FS_Subset
<1>3. Cardinality(Items(l)) \in Nat /\ Cardinality(S) \in Nat
  BY FS_CardinalityType, RankType DEF Rank
<1>4. QED
  BY <1>2, <1>3 DEF Rank

\* An item has a smaller rank than the ones after it.
LEMMA RankOrder ==
    ASSUME NEW l, IsFiniteSet(Items(l)), Items(l) \subseteq Nat,
           NEW x \in Items(l), NEW y \in Items(l), Before(x, y)
    PROVE  Rank(l, x) < Rank(l, y)
<1> DEFINE S == {z \in Items(l) : Before(z, x)}
           T == {z \in Items(l) : Before(z, y)}
<1>1. S \subseteq T /\ S # T
  BY DEF Before
<1>2. IsFiniteSet(T) /\ Cardinality(T) \in Nat /\ Cardinality(S) \in Nat
  BY RankType DEF Rank
<1>3. Cardinality(S) <= Cardinality(T) /\ Cardinality(S) # Cardinality(T)
  <2> HIDE DEF S, T
  <2>1. QED
    BY <1>1, <1>2, FS_Subset
<1>4. QED
  BY <1>2, <1>3 DEF Rank

\* While nothing leaves a list, no rank falls.
LEMMA RankGrows ==
    ASSUME NEW l, IsFiniteSet(Items(l)), IsFiniteSet(Items(l)'), NEW x,
           \A y \in Items(l) : Before(y, x) => y \in Items(l)'
    PROVE  Rank(l, x) <= Rank(l, x)'
<1> DEFINE S == {y \in Items(l) : Before(y, x)}
           T == {y \in Items(l)' : Before(y, x)}
<1>1. S \subseteq T
  OBVIOUS
<1>2. IsFiniteSet(T)
  <2>1. T \subseteq Items(l)'
    OBVIOUS
  <2>2. QED
    <3> HIDE DEF T
    <3>1. QED
      BY <2>1, FS_Subset
<1>3. Cardinality(S) <= Cardinality(T)
  <2> HIDE DEF S, T
  <2>1. QED
    BY <1>1, <1>2, FS_Subset
<1>4. QED
  BY <1>3 DEF Rank, Before

\* A page holds at most as many items as were asked for, and what it leaves
\* out from its beginning on belongs to a later page.
LEMMA PageFacts ==
    ASSUME NEW l, IsFiniteSet(Items(l)), Items(l) \subseteq Nat,
           NEW first \in Nat, NEW size \in Nat
    PROVE  LET p == Page(Items(l), first, size)
           IN  /\ p \subseteq Items(l) /\ IsFiniteSet(p)
               /\ Cardinality(p) \in Nat /\ Cardinality(p) <= size
               /\ \A x \in Items(l) : Rank(l, x) >= first /\ x \notin p =>
                    Rank(l, x) >= first + Cardinality(p)
<1> DEFINE p == Page(Items(l), first, size)
           f == [x \in p |-> Rank(l, x)]
           ranks == first..(first + size - 1)
<1>1. /\ p \subseteq Items(l)
      /\ \A x \in Items(l) :
           x \in p <=> first <= Rank(l, x) /\ Rank(l, x) < first + size
  BY DEF Page, Rank
<1>2. IsFiniteSet(p) /\ Cardinality(p) \in Nat
  <2> HIDE DEF p
  <2>1. QED
    BY <1>1, FS_Subset, FS_CardinalityType
<1>3. \A x \in Items(l) : Rank(l, x) \in Nat
  BY RankType
<1>4. f \in Injection(p, ranks)
  <2> HIDE DEF p
  <2>1. \A x \in p : Rank(l, x) \in ranks
    BY <1>1, <1>3
  <2>2. ASSUME NEW x \in p, NEW y \in p, Rank(l, x) = Rank(l, y)
        PROVE  x = y
    <3>1. x \in Items(l) /\ y \in Items(l) /\ x \in Nat /\ y \in Nat
      BY <1>1
    <3>2. CASE x > y
      <4>1. Rank(l, x) < Rank(l, y)
        BY <3>1, <3>2, RankOrder DEF Before
      <4>2. QED
        BY <1>3, <2>2, <3>1, <4>1
    <3>3. CASE y > x
      <4>1. Rank(l, y) < Rank(l, x)
        BY <3>1, <3>3, RankOrder DEF Before
      <4>2. QED
        BY <1>3, <2>2, <3>1, <4>1
    <3>4. QED
      BY <3>1, <3>2, <3>3
  <2>3. QED
    BY <2>1, <2>2 DEF Injection, IsInjective
<1>5. IsFiniteSet(ranks) /\ Cardinality(ranks) = size
  <2>1. first \in Int /\ first + size - 1 \in Int
    OBVIOUS
  <2>2. QED
    BY <2>1, FS_Interval
<1>6. Cardinality(p) <= size
  <2> HIDE DEF p, f, ranks
  <2>1. QED
    BY <1>4, <1>5, FS_Injection
<1>7. ASSUME NEW x \in Items(l), Rank(l, x) >= first, x \notin p
      PROVE  Rank(l, x) >= first + Cardinality(p)
  <2> HIDE DEF p
  <2>1. Rank(l, x) >= first + size
    BY <1>1, <1>3, <1>7
  <2>2. QED
    BY <1>2, <1>3, <1>6, <2>1
<1>8. QED
  BY <1>1, <1>2, <1>6, <1>7

-----------------------------------------------------------------------------
(* What a step of the pool does to the lists.                              *)

\* Rows are never taken back and settled ones stay settled; what leaves the
\* pending list is settled, and only a new row joins it; entries are appended.
LEMMA ListSteps ==
    ASSUME IInv, IsFiniteSet(Existing), [Next]_vars
    PROVE  /\ Existing \subseteq Existing' /\ IsFiniteSet(Existing')
           /\ Settled \subseteq Settled'
           /\ {t \in Txns : rows[t].status = "completed"}
                \subseteq {t \in Txns : rows'[t].status = "completed"}
           /\ {t \in Txns : rows[t].status = "failed"}
                \subseteq {t \in Txns : rows'[t].status = "failed"}
           /\ \A t \in Items("pending") : t \in Items("pending")' \/ t \in Settled'
           /\ \A t \in Items("pending")' : t \in Existing => t \in Items("pending")
           /\ \A i \in 1..Len(ledger) :
                i \in 1..Len(ledger') /\ ledger'[i] = ledger[i]
<1> USE DEF Items, Existing, Settled, Terminal
<1>1. ASSUME NEW t \in Txns, Submit(t)
      PROVE  /\ Existing' = Existing \union {t} /\ rows[t].status = "absent"
             /\ rows'[t].status = "pending" /\ ledger' = ledger
             /\ \A u \in Txns : u # t => rows'[u] = rows[u]
  <2>1. /\ rows[t].status = "absent" /\ rows'[t].status = "pending" /\ ledger' = ledger
        /\ \A u \in Txns : u # t => rows'[u] = rows[u]
    BY <1>1 DEF Submit, IInv, TypeOK
  <2>2. Existing' = Existing \union {t}
    BY <2>1
  <2>3. QED
    BY <2>1, <2>2
<1>2. ASSUME NEW w \in Workers, pc[w] = "written", Install(w)
      PROVE  /\ claim[w] \in Txns /\ rows[claim[w]].status = "pending"
             /\ rows'[claim[w]].status \in Terminal
             /\ \A u \in Txns : u # claim[w] => rows'[u] = rows[u]
             /\ \A i \in 1..Len(ledger) :
                  i \in 1..Len(ledger') /\ ledger'[i] = ledger[i]
  <2>1. ledger' = ledger \/ ledger' = Append(ledger, newEntry[w])
    BY <1>2 DEF Install
  <2>2. ledger \in Seq(Entry)
    BY DEF IInv, TypeOK
  <2>3. \A i \in 1..Len(ledger) : i \in 1..Len(ledger') /\ ledger'[i] = ledger[i]
    BY <2>1, <2>2
  <2>4. QED
    BY <1>2, <2>3, InstallSettles
<1>3. CASE \E t \in Txns : Submit(t)
  <2>1. PICK t \in Txns : Submit(t)
    BY <1>3
  <2>2. /\ Existing' = Existing \union {t} /\ rows[t].status = "absent"
        /\ rows'[t].status = "pending" /\ ledger' = ledger
        /\ \A u \in Txns : u # t => rows'[u] = rows[u]
    BY <1>1, <2>1
  <2>3. IsFiniteSet(Existing')
    <3>1. IsFiniteSet(Existing \union {t})
      <4> HIDE DEF Existing
      <4>1. QED
        BY FS_AddElement
    <3>2. QED
      <4> HIDE DEF Existing
      <4>1. QED
        BY <2>2, <3>1
  <2>4. QED
    BY <2>2, <2>3
<1>4. CASE \E w \in Workers : pc[w] = "written" /\ Install(w)
  <2>1. PICK w \in Workers : pc[w] = "written" /\ Install(w)
    BY <1>4
  <2>2. /\ claim[w] \in Txns /\ rows[claim[w]].status = "pending"
        /\ rows'[claim[w]].status \in Terminal
        /\ \A u \in Txns : u # claim[w] => rows'[u] = rows[u]
        /\ \A i \in 1..Len(ledger) :
             i \in 1..Len(ledger') /\ ledger'[i] = ledger[i]
    BY <1>2, <2>1
  <2>3. Existing' = Existing
    BY <2>2
  <2>4. IsFiniteSet(Existing')
    <3> HIDE DEF Existing
    <3>1. QED
      BY <2>3
  <2>5. QED
    BY <2>2, <2>3, <2>4
<1>5. CASE UNCHANGED <<rows, balance, ledger>>
  BY <1>5
<1>6. QED
  BY <1>3, <1>4, <1>5, StoreSteps

\* Every list but the pending one only grows.
LEMMA ListsGrow ==
    ASSUME IInv, IsFiniteSet(Existing), [Next]_vars, NEW l \in Lists, l # "pending"
    PROVE  Items(l) \subseteq Items(l)'
<1>1. CASE l = "ledger"
  BY <1>1, ListSteps DEF Items
<1>2. CASE l = "all"
  BY <1>2, ListSteps DEF Items, Existing
<1>3. CASE l \in {"completed", "failed"}
  BY <1>3, ListSteps DEF Items
<1>4. QED
  BY <1>1, <1>2, <1>3 DEF Lists

LEMMA IInvStep ==
    IInv /\ [Next]_vars => IInv'
BY TypeStep, LocksStep, ReadsStep, StagedStep, IdsStep, RowsStep, ChainStep,
   SettledStep DEF IInv

-----------------------------------------------------------------------------
(* The invariant: a step of the pool.                                      *)

\* The lists stay finite sets of numbers.
LEMMA ListsFinite ==
    IInv /\ IsFiniteSet(Existing) =>
        \A l \in Lists : IsFiniteSet(Items(l)) /\ Items(l) \subseteq Nat
BY ItemsFacts

LEMMA ListsFiniteNext ==
    (IInv /\ IsFiniteSet(Existing) =>
        \A l \in Lists : IsFiniteSet(Items(l)) /\ Items(l) \subseteq Nat)'
BY ListsFinite, PTL

\* A pass loses its place in no list but the pending one, and there only to
\* the settlement of a younger transaction.
LEMMA AheadKept ==
    ASSUME ReadingIInv, [Next]_vars, UNCHANGED client
    PROVE  Ahead'
<1>1. SUFFICES ASSUME NEW l \in Lists, l = list
               PROVE  Ahead'
  BY DEF ReadingIInv, ReadingTypeOK
<1>2. /\ IInv /\ IInv' /\ IsFiniteSet(Existing)
      /\ offset \in Nat /\ Cardinality(page) \in Nat
  BY IInvStep, FS_CardinalityType DEF ReadingIInv, ReadingTypeOK, PassOK
<1>3. UNCHANGED <<list, offset, page, shown, present, finished>>
  BY DEF client
<1>4. Settled \subseteq Settled' /\ finished \subseteq Settled
  BY <1>2, ListSteps DEF ReadingIInv, PassOK
<1>5. /\ IsFiniteSet(Items(l)) /\ Items(l) \subseteq Nat
      /\ IsFiniteSet(Items(l)') /\ Items(l)' \subseteq Nat
  <2>1. IsFiniteSet(Existing')
    BY <1>2, ListSteps
  <2>2. QED
    BY <1>2, <2>1, ListsFinite, ListsFiniteNext
<1>6. ASSUME NEW x \in (present \ shown) \intersect Items(l)'
      PROVE  x \in Items(l)
  <2>1. CASE l = "pending"
    <3>1. x \in Existing
      BY <1>1, <1>6, <2>1 DEF ReadingIInv, PassOK
    <3>2. \A t \in Items("pending")' : t \in Existing => t \in Items("pending")
      BY <1>2, ListSteps
    <3>3. QED
      BY <1>6, <2>1, <3>1, <3>2
  <2>2. CASE l # "pending"
    BY <1>1, <1>6, <2>2 DEF ReadingIInv, PassOK
  <2>3. QED
    BY <2>1, <2>2
<1>7. ASSUME NEW x \in (present \ shown) \intersect Items(l)', ~Overtaken(x)'
      PROVE  Rank(l, x) <= Rank(l, x)'
  <2>1. ASSUME NEW y \in Items(l), Before(y, x) PROVE y \in Items(l)'
    <3>1. CASE l = "pending"
      <4>1. ASSUME y \in Settled' PROVE FALSE
        <5>1. y \notin finished
          BY <1>4, <2>1, <3>1 DEF Items, Settled, Terminal
        <5>2. QED
          BY <1>1, <1>3, <1>7, <2>1, <3>1, <4>1, <5>1 DEF Overtaken, Before
      <4>2. \A t \in Items("pending") : t \in Items("pending")' \/ t \in Settled'
        BY <1>2, ListSteps
      <4>3. QED
        BY <2>1, <3>1, <4>1, <4>2
    <3>2. CASE l # "pending"
      <4>1. Items(l) \subseteq Items(l)'
        BY <1>2, <3>2, ListsGrow
      <4>2. QED
        BY <2>1, <4>1
    <3>3. QED
      BY <3>1, <3>2
  <2>2. QED
    BY <1>5, <2>1, RankGrows
<1>8. ASSUME NEW x \in (present \ shown) \intersect Items(l)', ~Overtaken(x)'
      PROVE  Rank(l, x)' >= IF x \in page THEN offset ELSE offset + Cardinality(page)
  <2>1. Rank(l, x) <= Rank(l, x)'
    BY <1>7, <1>8
  <2>2. ~Overtaken(x)
    BY <1>3, <1>4, <1>8 DEF Overtaken
  <2>3. x \in Items(l)
    BY <1>6, <1>8
  <2>4. Rank(l, x) >= IF x \in page THEN offset ELSE offset + Cardinality(page)
    BY <1>1, <1>8, <2>2, <2>3 DEF ReadingIInv, Ahead
  <2>5. Rank(l, x) \in Nat /\ Rank(l, x)' \in Nat
    <3>1. Rank(l, x) \in Nat
      BY <1>5, RankType
    <3>2. Cardinality({y \in Items(l)' : Before(y, x)}) \in Nat
      <4>1. {y \in Items(l)' : Before(y, x)} \subseteq Items(l)'
        OBVIOUS
      <4>2. QED
        BY <1>5, <4>1, FS_Subset, FS_CardinalityType
    <3>3. QED
      BY <3>1, <3>2 DEF Rank, Before
  <2>6. QED
    BY <1>2, <2>1, <2>4, <2>5
<1>9. QED
  BY <1>1, <1>3, <1>8 DEF Ahead

\* What the client saw goes on being explained: entries are only appended,
\* and the list of a pass that has begun is the one it began with.
LEMMA SeenKept ==
    ASSUME ReadingIInv, [Next]_vars, UNCHANGED client
    PROVE  SeenOK'
<1>1. \A i \in 1..Len(ledger) : i \in 1..Len(ledger') /\ ledger'[i] = ledger[i]
  BY ListSteps DEF ReadingIInv, PassOK
<1>2. Items("ledger") \subseteq Items("ledger")'
  BY <1>1 DEF Items
<1>3. ASSUME NEW S, NEW T, S \subseteq T, Explains(S)
      PROVE  /\ \A t \in sawCompleted : \E i \in 1..Len(ledger') :
                  ledger'[i].txn = t /\ ledger'[i].id \in T
             /\ sawBalance # 0 => \E i \in 1..Len(ledger') :
                  ledger'[i].new = sawBalance /\ ledger'[i].id \in T
  BY <1>1, <1>3 DEF Explains
<1>4. Explains(Items("ledger"))'
  <2>1. Explains(Items("ledger"))
    BY DEF ReadingIInv, SeenOK
  <2>2. QED
    BY <1>2, <1>3, <2>1 DEF Explains, client
<1>5. ASSUME list = "ledger" /\ (at \in {"count", "done"} \/ offset > 0)
      PROVE  Explains(present)'
  <2>1. Explains(present)
    BY <1>5 DEF ReadingIInv, SeenOK
  <2>2. QED
    BY <1>3, <2>1 DEF Explains, client
<1>6. QED
  BY <1>4, <1>5 DEF SeenOK, client

LEMMA PoolStep ==
    ASSUME ReadingIInv, [Next]_vars, UNCHANGED client, late' \subseteq Txns \X Txns
    PROVE  ReadingIInv'
<1> USE DEF ReadingIInv
<1>1. IInv' /\ TypeOK'
  BY IInvStep DEF IInv
<1>2. ReadingTypeOK'
  BY <1>1 DEF ReadingTypeOK, client
<1>3. /\ IsFiniteSet(Existing') /\ Existing \subseteq Existing'
      /\ Settled \subseteq Settled'
      /\ \A t \in Items("pending")' : t \in Existing => t \in Items("pending")
  BY ListSteps DEF PassOK
<1>4. PassOK'
  <2>1. SUFFICES ASSUME NEW l \in Lists, l = list
                 PROVE  PassOK'
    BY DEF ReadingTypeOK
  <2>2. present \subseteq IF l = "pending" THEN Existing' ELSE Items(l)'
    <3>1. CASE l = "pending"
      BY <1>3, <2>1, <3>1 DEF PassOK
    <3>2. CASE l # "pending"
      <4>1. Items(l) \subseteq Items(l)'
        BY <3>2, ListsGrow DEF PassOK
      <4>2. present \subseteq Items(l)
        BY <2>1, <3>2 DEF PassOK
      <4>3. QED
        BY <3>2, <4>1, <4>2
    <3>3. QED
      BY <3>1, <3>2
  <2>3. UNCHANGED <<at, list, offset, page, present, finished>>
    BY DEF client
  <2>4. QED
    BY <1>3, <2>1, <2>2, <2>3 DEF PassOK
<1>5. Ahead' /\ SeenOK'
  BY AheadKept, SeenKept
<1>6. PassIsComplete'
  BY DEF PassIsComplete, client
<1>7. MissedWasOvertaken'
  <2>1. UNCHANGED <<at, list, shown, present, finished>>
    BY DEF client
  <2>2. ASSUME at = "done", list = "pending",
               NEW t \in (present \ shown) \intersect Items("pending")'
        PROVE  \E u \in Settled' \ finished : t < u
    <3>1. t \in Items("pending")
      BY <1>3, <2>2 DEF PassOK
    <3>2. \E u \in Settled \ finished : t < u
      BY <2>2, <3>1 DEF MissedWasOvertaken
    <3>3. QED
      BY <1>3, <3>2
  <2>3. QED
    BY <2>1, <2>2 DEF MissedWasOvertaken
<1>8. QED
  BY <1>1, <1>2, <1>4, <1>5, <1>6, <1>7

-----------------------------------------------------------------------------
(* The invariant: a request.                                               *)

\* A request changes none of what the pool works on.
LEMMA ReadOnly ==
    ASSUME ReadingIInv, UNCHANGED vars
    PROVE  /\ IInv' /\ TypeOK' /\ IsFiniteSet(Existing')
           /\ UNCHANGED <<rows, ledger, Existing, Settled>>
           /\ \A l : Items(l)' = Items(l) /\ \A x : Rank(l, x)' = Rank(l, x)
<1>1. [Next]_vars /\ UNCHANGED <<rows, ledger>>
  BY DEF vars, store
<1>2. IInv'
  BY <1>1, IInvStep DEF ReadingIInv
<1>3. UNCHANGED <<Existing, Settled>> /\ \A l : Items(l)' = Items(l)
  BY <1>1 DEF Existing, Settled, Items
<1>4. \A l, x : Rank(l, x)' = Rank(l, x)
  BY <1>3 DEF Rank, Before
<1>5. QED
  BY <1>1, <1>2, <1>3, <1>4 DEF ReadingIInv, PassOK, IInv

\* A completed transaction has its entry, and a balance that is not 0 is the
\* one some entry left.
LEMMA LooksOK ==
    ASSUME ReadingIInv, UNCHANGED vars,
           GetBalance \/ \E t \in Txns : GetTransaction(t),
           late' \subseteq Txns \X Txns
    PROVE  ReadingIInv'
<1>1. /\ IInv' /\ TypeOK' /\ IsFiniteSet(Existing')
      /\ UNCHANGED <<rows, ledger, Existing, Settled>>
      /\ \A l : Items(l)' = Items(l) /\ \A x : Rank(l, x)' = Rank(l, x)
  BY ReadOnly
<1>2. /\ UNCHANGED <<at, list, limit, offset, page, shown, present, finished>>
      /\ at = "idle" /\ list = "all" /\ present = {} /\ finished = {}
  BY DEF GetBalance, GetTransaction, ReadingIInv, PassOK
<1>3. ReadingTypeOK'
  <2>1. sawBalance' \in Int64
    BY AmountsAssumption
    DEF GetBalance, GetTransaction, ReadingIInv, ReadingTypeOK, TypeOK, Int64
  <2>2. sawCompleted' \subseteq Txns
    BY DEF GetBalance, GetTransaction, ReadingIInv, ReadingTypeOK
  <2>3. QED
    BY <1>1, <1>2, <2>1, <2>2 DEF ReadingIInv, ReadingTypeOK
<1>4. PassOK'
  BY <1>1, <1>2 DEF ReadingIInv, PassOK
<1>5. Ahead' /\ PassIsComplete' /\ MissedWasOvertaken'
  BY <1>2 DEF Ahead, PassIsComplete, MissedWasOvertaken
<1>6. SeenOK'
  <2>1. \A t \in sawCompleted : \E i \in 1..Len(ledger) :
          ledger[i].txn = t /\ ledger[i].id \in Items("ledger")
    BY DEF ReadingIInv, SeenOK, Explains
  <2>2. sawBalance # 0 => \E i \in 1..Len(ledger) :
          ledger[i].new = sawBalance /\ ledger[i].id \in Items("ledger")
    BY DEF ReadingIInv, SeenOK, Explains
  <2>3. \A i \in 1..Len(ledger) : ledger[i].id \in Items("ledger")
    BY DEF Items
  <2>4. CASE \E t \in Txns : GetTransaction(t)
    <3>1. PICK t \in Txns : GetTransaction(t)
      BY <2>4
    <3>2. \E i \in 1..Len(ledger) : ledger[i].txn = t
      BY <3>1 DEF GetTransaction, ReadingIInv, IInv, SettledOnce
    <3>3. sawCompleted' = sawCompleted \union {t} /\ sawBalance' = sawBalance
      BY <3>1 DEF GetTransaction
    <3>4. QED
      BY <1>1, <1>2, <2>1, <2>2, <2>3, <3>2, <3>3 DEF SeenOK, Explains
  <2>5. CASE GetBalance
    <3>1. sawCompleted' = sawCompleted /\ sawBalance' \in {0, balance}
      BY <2>5 DEF GetBalance
    <3>2. balance # 0 => Len(ledger) \in 1..Len(ledger) /\ ledger[Len(ledger)].new = balance
      <4>1. ledger \in Seq(Entry) /\ LedgerIsChain
        BY DEF ReadingIInv, IInv, TypeOK
      <4>2. ledger # <<>> => Len(ledger) \in 1..Len(ledger)
        BY <4>1
      <4>3. QED
        BY <4>1, <4>2 DEF LedgerIsChain
    <3>3. sawBalance' # 0 => \E i \in 1..Len(ledger) : ledger[i].new = sawBalance'
      BY <3>1, <3>2
    <3>4. QED
      BY <1>1, <1>2, <2>1, <2>3, <3>1, <3>3 DEF SeenOK, Explains
  <2>6. QED
    BY <2>4, <2>5
<1>7. QED
  BY <1>1, <1>3, <1>4, <1>5, <1>6 DEF ReadingIInv

LEMMA StartPassOK ==
    ASSUME ReadingIInv, StartPass, late' \subseteq Txns \X Txns PROVE ReadingIInv'
<1>1. UNCHANGED vars
  BY DEF StartPass
<1>2. /\ IInv' /\ TypeOK' /\ IsFiniteSet(Existing')
      /\ UNCHANGED <<rows, ledger, Existing, Settled>>
      /\ \A l : Items(l)' = Items(l) /\ \A x : Rank(l, x)' = Rank(l, x)
  BY <1>1, ReadOnly
<1>3. /\ UNCHANGED <<offset, page, shown, present, finished>>
      /\ sawCompleted' \in {sawCompleted, {}} /\ sawBalance' \in {sawBalance, 0}
      /\ list' \in Lists /\ at' = "page" /\ limit' \in 1..MaxLimit
      /\ offset = 0 /\ present = {} /\ finished = {} /\ page = {}
  <2>1. at = "idle"
    BY DEF StartPass
  <2>2. limit' \in 1..MaxLimit
    BY LimitsAssumption DEF StartPass, Acceptable, Normalized
  <2>3. QED
    BY <2>1, <2>2 DEF StartPass, ReadingIInv, PassOK
<1>4. ReadingTypeOK'
  BY <1>2, <1>3, ZeroTypes DEF ReadingIInv, ReadingTypeOK
<1>5. PassOK'
  BY <1>2, <1>3 DEF ReadingIInv, PassOK
<1>6. Ahead' /\ PassIsComplete' /\ MissedWasOvertaken'
  BY <1>3 DEF Ahead, PassIsComplete, MissedWasOvertaken
<1>7. SeenOK'
  <2>1. Explains(Items("ledger"))
    BY DEF ReadingIInv, SeenOK
  <2>2. Explains(Items("ledger"))'
    BY <1>2, <1>3, <2>1 DEF Explains
  <2>3. QED
    BY <1>3, <2>2 DEF SeenOK
<1>8. QED
  BY <1>2, <1>4, <1>5, <1>6, <1>7 DEF ReadingIInv

\* The page takes what it is asked for; what it leaves out comes later.
LEMMA ReadPageOK ==
    ASSUME ReadingIInv, ReadPage, late' \subseteq Txns \X Txns PROVE ReadingIInv'
<1>1. UNCHANGED vars
  BY DEF ReadPage
<1>2. /\ IInv' /\ TypeOK' /\ IsFiniteSet(Existing')
      /\ UNCHANGED <<rows, ledger, Existing, Settled>>
      /\ \A l : Items(l)' = Items(l) /\ \A x : Rank(l, x)' = Rank(l, x)
  BY <1>1, ReadOnly
<1>3. /\ UNCHANGED <<list, limit, offset, shown, sawCompleted, sawBalance>>
      /\ at = "page" /\ at' = "count"
      /\ page' = Page(Items(list), offset, limit)
      /\ IF offset = 0
         THEN /\ present' = Items(list)
              /\ finished' = IF list = "pending" THEN Settled ELSE {}
         ELSE UNCHANGED <<present, finished>>
  BY DEF ReadPage
<1>4. /\ IInv /\ IsFiniteSet(Existing) /\ list \in Lists
      /\ offset \in Nat /\ limit \in Nat /\ page = {}
  BY <1>3 DEF ReadingIInv, ReadingTypeOK, PassOK
<1>5. IsFiniteSet(Items(list)) /\ Items(list) \subseteq Nat
  BY <1>4, ListsFinite
<1>6. /\ page' \subseteq Items(list) /\ IsFiniteSet(page')
      /\ Cardinality(page') \in Nat
      /\ \A x \in Items(list) : Rank(list, x) >= offset /\ x \notin page' =>
           Rank(list, x) >= offset + Cardinality(page')
  BY <1>3, <1>4, <1>5, PageFacts
<1>7. Settled \subseteq Txns
  BY DEF Settled
<1>8. ReadingTypeOK'
  BY <1>2, <1>3, <1>5, <1>6, <1>7 DEF ReadingIInv, ReadingTypeOK
<1>9. PassOK'
  <2>1. finished' \subseteq Settled
    BY <1>3 DEF ReadingIInv, PassOK
  <2>2. present' \subseteq IF list = "pending" THEN Existing ELSE Items(list)
    <3>1. list = "pending" => Items(list) \subseteq Existing
      BY DEF Items, Existing
    <3>2. QED
      BY <1>3, <3>1 DEF ReadingIInv, PassOK
  <2>3. QED
    BY <1>2, <1>3, <1>6, <2>1, <2>2 DEF PassOK
<1>10. Ahead'
  <2>1. ASSUME NEW x \in (present' \ shown) \intersect Items(list), ~Overtaken(x)'
        PROVE  Rank(list, x) >= offset
    <3>1. Rank(list, x) \in Nat
      BY <1>5, RankType
    <3>2. CASE offset = 0
      BY <3>1, <3>2
    <3>3. CASE offset # 0
      <4>1. present' = present /\ finished' = finished
        BY <1>3, <3>3
      <4>2. ~Overtaken(x)
        BY <1>2, <1>3, <2>1, <4>1 DEF Overtaken
      <4>3. Rank(list, x) >= offset + Cardinality({})
        BY <1>4, <2>1, <4>1, <4>2 DEF ReadingIInv, Ahead
      <4>4. QED
        BY <1>4, <4>3, FS_EmptySet
    <3>4. QED
      BY <3>2, <3>3
  <2>2. ASSUME NEW x \in (present' \ shown) \intersect Items(list), ~Overtaken(x)'
        PROVE  Rank(list, x) >= IF x \in page' THEN offset ELSE offset + Cardinality(page')
    BY <1>6, <2>1, <2>2
  <2>3. QED
    BY <1>2, <1>3, <2>2 DEF Ahead
<1>11. PassIsComplete' /\ MissedWasOvertaken'
  BY <1>3 DEF PassIsComplete, MissedWasOvertaken
<1>12. SeenOK'
  <2>1. Explains(Items("ledger"))
    BY DEF ReadingIInv, SeenOK
  <2>2. Explains(Items("ledger"))'
    BY <1>2, <1>3, <2>1 DEF Explains
  <2>3. list = "ledger" => Explains(present)'
    <3>1. list = "ledger" => Explains(present')
      <4>1. CASE offset = 0
        BY <1>3, <2>1, <4>1
      <4>2. CASE offset # 0
        BY <1>3, <1>4, <4>2 DEF ReadingIInv, SeenOK
      <4>3. QED
        BY <4>1, <4>2
    <3>2. QED
      BY <1>2, <1>3, <3>1 DEF Explains
  <2>4. QED
    BY <1>3, <2>2, <2>3 DEF SeenOK
<1>13. QED
  BY <1>2, <1>8, <1>9, <1>10, <1>11, <1>12 DEF ReadingIInv

\* A pass ends when the page reaches the total: nothing is left ahead of it.
LEMMA ReadCountOK ==
    ASSUME ReadingIInv, ReadCount, late' \subseteq Txns \X Txns PROVE ReadingIInv'
<1>1. UNCHANGED vars
  BY DEF ReadCount
<1>2. /\ IInv' /\ TypeOK' /\ IsFiniteSet(Existing')
      /\ UNCHANGED <<rows, ledger, Existing, Settled>>
      /\ \A l : Items(l)' = Items(l) /\ \A x : Rank(l, x)' = Rank(l, x)
  BY <1>1, ReadOnly
<1> DEFINE next == offset + Cardinality(page)
           total == Cardinality(Items(list))
<1>3. /\ UNCHANGED <<list, limit, present, finished, sawCompleted, sawBalance>>
      /\ at = "count" /\ shown' = shown \union page /\ page' = {}
      /\ \/ next < total /\ offset' = next /\ at' = "page"
         \/ ~(next < total) /\ offset' = 0 /\ at' = "done"
  BY DEF ReadCount, Respond
<1>4. /\ IInv /\ IsFiniteSet(Existing) /\ list \in Lists
      /\ offset \in Nat /\ Cardinality(page) \in Nat /\ next \in Nat
  BY FS_CardinalityType DEF ReadingIInv, ReadingTypeOK, PassOK
<1>5. IsFiniteSet(Items(list)) /\ Items(list) \subseteq Nat /\ total \in Nat
  <2>1. IsFiniteSet(Items(list)) /\ Items(list) \subseteq Nat
    BY <1>4, ListsFinite
  <2>2. QED
    BY <2>1, FS_CardinalityType
<1>6. ASSUME NEW x \in (present \ shown') \intersect Items(list), ~Overtaken(x)
      PROVE  Rank(list, x) >= next /\ Rank(list, x) < total /\ Rank(list, x) \in Nat
  <2>1. Rank(list, x) >= next
    BY <1>3, <1>6 DEF ReadingIInv, Ahead
  <2>2. QED
    BY <1>5, <1>6, <2>1, RankType, RankBelowTotal
<1> HIDE DEF next, total
<1>7. offset' \in Nat
  BY <1>3, <1>4
<1>8. ReadingTypeOK'
  BY <1>2, <1>3, <1>7 DEF ReadingIInv, ReadingTypeOK
<1>9. PassOK'
  BY <1>2, <1>3, FS_EmptySet DEF ReadingIInv, PassOK
<1>10. ASSUME at' = "done",
              NEW x \in (present \ shown') \intersect Items(list)
       PROVE  Overtaken(x)
  BY <1>3, <1>4, <1>5, <1>6, <1>10
<1>11. Ahead'
  <2>1. ASSUME NEW x \in (present \ shown') \intersect Items(list), ~Overtaken(x)
        PROVE  Rank(list, x) >= offset' + Cardinality(page')
    <3>1. Cardinality(page') = 0
      BY <1>3, FS_EmptySet
    <3>2. CASE next < total
      BY <1>3, <1>4, <1>6, <2>1, <3>1, <3>2
    <3>3. CASE ~(next < total)
      BY <1>3, <1>10, <2>1, <3>3
    <3>4. QED
      BY <3>2, <3>3
  <2>2. \A x : Overtaken(x)' = Overtaken(x)
    BY <1>2, <1>3 DEF Overtaken
  <2>3. QED
    BY <1>2, <1>3, <2>1, <2>2 DEF Ahead
<1>12. PassIsComplete'
  <2>1. ASSUME at' = "done", list # "pending", NEW x \in present, x \notin shown'
        PROVE  FALSE
    <3>1. x \in Items(list)
      BY <2>1 DEF ReadingIInv, PassOK
    <3>2. QED
      BY <1>10, <2>1, <3>1 DEF Overtaken
  <2>2. QED
    BY <1>3, <2>1 DEF PassIsComplete
<1>13. MissedWasOvertaken'
  <2>1. ASSUME at' = "done", list = "pending",
               NEW t \in (present \ shown') \intersect Items("pending")
        PROVE  \E u \in Settled \ finished : t < u
    BY <1>10, <2>1 DEF Overtaken
  <2>2. QED
    BY <1>2, <1>3, <2>1 DEF MissedWasOvertaken
<1>14. SeenOK'
  <2>1. /\ Explains(Items("ledger"))
        /\ list = "ledger" => Explains(present)
    BY <1>3 DEF ReadingIInv, SeenOK
  <2>2. /\ Explains(Items("ledger"))'
        /\ list = "ledger" => Explains(present)'
    BY <1>2, <1>3, <2>1 DEF Explains
  <2>3. QED
    BY <1>3, <2>2 DEF SeenOK
<1>15. QED
  BY <1>2, <1>8, <1>9, <1>11, <1>12, <1>13, <1>14 DEF ReadingIInv

\* A page that is asked for again begins where it began.
LEMMA CountFailsOK ==
    ASSUME ReadingIInv, CountFails, late' \subseteq Txns \X Txns PROVE ReadingIInv'
<1>1. UNCHANGED vars
  BY DEF CountFails
<1>2. /\ IInv' /\ TypeOK' /\ IsFiniteSet(Existing')
      /\ UNCHANGED <<rows, ledger, Existing, Settled>>
      /\ \A l : Items(l)' = Items(l) /\ \A x : Rank(l, x)' = Rank(l, x)
  BY <1>1, ReadOnly
<1>3. /\ UNCHANGED <<list, limit, offset, shown, present, finished,
                     sawCompleted, sawBalance>>
      /\ at = "count" /\ page' = {} /\ at' = "page"
  BY DEF CountFails
<1>4. /\ IInv /\ IsFiniteSet(Existing) /\ list \in Lists
      /\ offset \in Nat /\ Cardinality(page) \in Nat
  BY FS_CardinalityType DEF ReadingIInv, ReadingTypeOK, PassOK
<1>5. IsFiniteSet(Items(list))
  BY <1>4, ListsFinite
<1>6. ReadingTypeOK'
  BY <1>2, <1>3 DEF ReadingIInv, ReadingTypeOK
<1>7. PassOK'
  BY <1>2, <1>3, FS_EmptySet DEF ReadingIInv, PassOK
<1>8. Ahead'
  <2>1. ASSUME NEW x \in (present \ shown) \intersect Items(list), ~Overtaken(x)
        PROVE  Rank(list, x) >= offset + Cardinality(page')
    <3>1. Rank(list, x) >= IF x \in page THEN offset ELSE offset + Cardinality(page)
      BY <2>1 DEF ReadingIInv, Ahead
    <3>2. Rank(list, x) \in Nat /\ Cardinality(page') = 0
      BY <1>3, <1>5, RankType, FS_EmptySet
    <3>3. QED
      BY <1>4, <3>1, <3>2
  <2>2. \A x : Overtaken(x)' = Overtaken(x)
    BY <1>2, <1>3 DEF Overtaken
  <2>3. QED
    BY <1>2, <1>3, <2>1, <2>2 DEF Ahead
<1>9. PassIsComplete' /\ MissedWasOvertaken'
  BY <1>3 DEF PassIsComplete, MissedWasOvertaken
<1>10. SeenOK'
  <2>1. /\ Explains(Items("ledger"))
        /\ list = "ledger" => Explains(present)
    BY <1>3 DEF ReadingIInv, SeenOK
  <2>2. /\ Explains(Items("ledger"))'
        /\ list = "ledger" => Explains(present)'
    BY <1>2, <1>3, <2>1 DEF Explains
  <2>3. QED
    BY <1>3, <2>2 DEF SeenOK
<1>11. QED
  BY <1>2, <1>6, <1>7, <1>8, <1>9, <1>10 DEF ReadingIInv

LEMMA ForgetOK ==
    ASSUME ReadingIInv, Forget, late' \subseteq Txns \X Txns PROVE ReadingIInv'
<1>1. UNCHANGED vars
  BY DEF Forget
<1>2. /\ IInv' /\ TypeOK' /\ IsFiniteSet(Existing')
      /\ UNCHANGED <<rows, ledger, Existing, Settled>>
  BY <1>1, ReadOnly
<1>3. /\ at = "done" /\ at' = "idle" /\ list' = "all" /\ limit' = DefaultLimit
      /\ shown' = {} /\ present' = {} /\ finished' = {}
      /\ sawCompleted' = {} /\ sawBalance' = 0
      /\ UNCHANGED <<offset, page>>
  BY DEF Forget
<1>4. ReadingTypeOK'
  <2>1. 0 \in Int64
    BY ZeroTypes
  <2>2. QED
    BY <1>2, <1>3, <2>1, LimitsAssumption DEF ReadingIInv, ReadingTypeOK, Lists
<1>5. PassOK'
  BY <1>2, <1>3 DEF ReadingIInv, PassOK
<1>6. Ahead' /\ PassIsComplete' /\ MissedWasOvertaken'
  BY <1>3 DEF Ahead, PassIsComplete, MissedWasOvertaken
<1>7. SeenOK'
  BY <1>3 DEF SeenOK, Explains
<1>8. QED
  BY <1>2, <1>4, <1>5, <1>6, <1>7 DEF ReadingIInv

-----------------------------------------------------------------------------
(* Theorems.                                                               *)

LEMMA ReadingInitOK ==
    ASSUME ReadingInit PROVE ReadingIInv
<1>1. IInv /\ TypeOK
  BY InitIInv DEF ReadingInit, IInv
<1>2. ReadingTypeOK
  BY <1>1, ZeroTypes, LimitsAssumption DEF ReadingInit, ReadingTypeOK, Lists
<1>3. PassOK
  <2>1. Existing = {}
    BY DEF ReadingInit, Init, Existing, AbsentRow
  <2>2. QED
    BY <2>1, FS_EmptySet DEF ReadingInit, PassOK
<1>4. Ahead /\ PassIsComplete /\ MissedWasOvertaken /\ SeenOK
  BY DEF ReadingInit, Ahead, PassIsComplete, MissedWasOvertaken, SeenOK, Explains
<1>5. QED
  BY <1>1, <1>2, <1>3, <1>4 DEF ReadingIInv

LEMMA ReadingStep ==
    ASSUME ReadingIInv, [ReadingNext]_<<vars, client, late>> PROVE ReadingIInv'
<1> late' \subseteq Txns \X Txns
  BY DEF ReadingNext, Pool, ReadingIInv, ReadingTypeOK
<1>1. ASSUME UNCHANGED client, [Next]_vars PROVE ReadingIInv'
  BY <1>1, PoolStep
<1>2. CASE GetBalance \/ \E t \in Txns : GetTransaction(t)
  <2>1. UNCHANGED vars
    BY <1>2 DEF GetBalance, GetTransaction
  <2>2. QED
    BY <1>2, <2>1, LooksOK
<1>3. CASE Request
  BY <1>2, <1>3, StartPassOK, ReadPageOK, ReadCountOK, CountFailsOK, ForgetOK
  DEF Request
<1>4. QED
  BY <1>1, <1>3 DEF ReadingNext, Pool

\* The invariant of a pass holds whatever the pool does between two of the
\* client's requests, and between the two statements of one.
THEOREM ReadingInvariance ==
    ReadingSpec => []ReadingIInv
<1>1. ReadingInit => ReadingIInv
  BY ReadingInitOK
<1>2. ReadingIInv /\ [ReadingNext]_<<vars, client, late>> => ReadingIInv'
  BY ReadingStep
<1>3. QED
  BY <1>1, <1>2, PTL DEF ReadingSpec

\* Every variable of the client keeps its type: a page never has a limit of 0.
THEOREM ReadingTypeCorrect ==
    ReadingSpec => []ReadingTypeOK
<1>1. ReadingIInv => ReadingTypeOK
  BY DEF ReadingIInv
<1>2. QED
  BY <1>1, ReadingInvariance, PTL

\* LIMIT and OFFSET over a list that only grows skip nothing that was there
\* when the pass began, whatever page sizes are asked for and whatever commits
\* in between.
THEOREM Completeness ==
    ReadingSpec => []PassIsComplete
<1>1. ReadingIInv => PassIsComplete
  BY DEF ReadingIInv
<1>2. QED
  BY <1>1, ReadingInvariance, PTL

\* What a pass over the pending list skips was overtaken during the pass.
THEOREM OnlyOvertakenIsMissed ==
    ReadingSpec => []MissedWasOvertaken
<1>1. ReadingIInv => MissedWasOvertaken
  BY DEF ReadingIInv
<1>2. QED
  BY <1>1, ReadingInvariance, PTL

\* A client that looks at a transaction or at the balance and then goes
\* through the ledger finds the entries behind what it saw.
THEOREM SeenExplained ==
    ReadingSpec => []SeenIsExplained
<1>1. ASSUME ReadingIInv PROVE SeenIsExplained
  <2>1. SUFFICES ASSUME at = "done", list = "ledger" PROVE SeenIsExplained
    BY DEF SeenIsExplained
  <2>2. Explains(present) /\ present \subseteq shown
    BY <1>1, <2>1 DEF ReadingIInv, SeenOK, PassIsComplete
  <2> DEFINE entries == {ledger[i] : i \in {j \in 1..Len(ledger) : ledger[j].id \in shown}}
  <2>3. \A i \in 1..Len(ledger) : ledger[i].id \in present => ledger[i] \in entries
    BY <2>2
  <2>4. \A t \in sawCompleted : \E e \in entries : e.txn = t
    BY <2>2, <2>3 DEF Explains
  <2>5. sawBalance # 0 => \E e \in entries : e.new = sawBalance
    BY <2>2, <2>3 DEF Explains
  <2>6. QED
    BY <2>4, <2>5 DEF SeenIsExplained
<1>2. QED
  BY <1>1, ReadingInvariance, PTL

\* The endpoints are invisible to the pool: with any number of requests it
\* takes the steps it takes alone, and all that is proved of it still holds.
THEOREM EndpointsOnlyRead ==
    ReadingSpec => Spec
<1>1. ReadingInit => Init
  BY DEF ReadingInit
<1>2. [ReadingNext]_<<vars, client, late>> => [Next]_vars
  <2> SUFFICES ASSUME [ReadingNext]_<<vars, client, late>> PROVE [Next]_vars
    OBVIOUS
  <2>1. CASE Request
    BY <2>1 DEF Request, GetTransaction, GetBalance, StartPass, ReadPage,
                ReadCount, CountFails, Forget
  <2>2. QED
    BY <2>1 DEF ReadingNext, Pool
<1>3. QED
  BY <1>1, <1>2, PTL DEF ReadingSpec, Spec

-----------------------------------------------------------------------------
(* How far the order may be lost.                                          *)

\* Transactions that are settled, or that a session has taken.
Taken(t) == rows[t].status \in Terminal \/ Locked(t)

FewOlder ==
    \A t \in Txns : Taken(t) => /\ IsFiniteSet(OlderPending(t))
                                /\ Cardinality(OlderPending(t)) < Cardinality(Workers)

\* A transaction that was taken before keeps the bound, since the older ones
\* only leave the pending state.
LEMMA StillFewer ==
    ASSUME IsFiniteSet(Workers), FewOlder, NEW t \in Txns, Taken(t),
           OlderPending(t)' \subseteq OlderPending(t)
    PROVE  /\ IsFiniteSet(OlderPending(t)')
           /\ Cardinality(OlderPending(t)') < Cardinality(Workers)
<1>1. IsFiniteSet(OlderPending(t))
      /\ Cardinality(OlderPending(t)) < Cardinality(Workers)
  BY DEF FewOlder
<1>2. IsFiniteSet(OlderPending(t)')
      /\ Cardinality(OlderPending(t)') <= Cardinality(OlderPending(t))
  BY <1>1, FS_Subset
<1>3. QED
  BY <1>1, <1>2, FS_CardinalityType

\* Each of the older rows that a claim passes over is held by another session.
LEMMA ClaimPasses ==
    ASSUME IsFiniteSet(Workers), IInv, NEW w \in Workers, pc[w] = "idle",
           NEW t \in Claimable, \A u \in Claimable : t <= u
    PROVE  /\ IsFiniteSet(OlderPending(t))
           /\ Cardinality(OlderPending(t)) < Cardinality(Workers)
<1> DEFINE Others == Workers \ {w}
           Held == {claim[v] : v \in Others}
           f == [v \in Others |-> claim[v]]
<1>1. IsFiniteSet(Others) /\ Cardinality(Others) = Cardinality(Workers) - 1
  BY FS_RemoveElement
<1>2. f \in Surjection(Others, Held)
  BY DEF Surjection
<1>3. IsFiniteSet(Held) /\ Cardinality(Held) <= Cardinality(Others)
  <2> HIDE DEF Others, Held, f
  <2>1. QED
    BY <1>1, <1>2, FS_Surjection
<1>4. OlderPending(t) \subseteq Held
  <2> SUFFICES ASSUME NEW u \in OlderPending(t) PROVE u \in Held
    OBVIOUS
  <2>1. u \in Txns /\ u < t /\ rows[u].status = "pending"
    BY DEF OlderPending
  <2>2. ~(t <= u)
    BY <2>1, TxnsAssumption DEF Claimable
  <2>3. Locked(u)
    BY <2>1, <2>2 DEF Claimable
  <2>4. PICK v \in Workers : claim[v] = u
    BY <2>3 DEF Locked
  <2>5. v # w
    BY <2>1, <2>4, TxnsAssumption DEF IInv, LocksOK, InTransaction, NoTxn
  <2>6. QED
    BY <2>4, <2>5
<1>5. IsFiniteSet(OlderPending(t)) /\ Cardinality(OlderPending(t)) <= Cardinality(Held)
  <2> HIDE DEF Held
  <2>1. QED
    BY <1>3, <1>4, FS_Subset
<1>6. /\ Cardinality(Workers) \in Nat /\ Cardinality(Others) \in Int
      /\ Cardinality(Held) \in Nat /\ Cardinality(OlderPending(t)) \in Nat
  <2> HIDE DEF Others, Held
  <2>1. QED
    BY <1>1, <1>3, <1>5, FS_CardinalityType
<1>7. QED
  <2> HIDE DEF Others, Held
  <2>1. QED
    BY <1>1, <1>3, <1>5, <1>6

\* What a step of the pool, or none, does to `late'.
Noted ==
    \A t, u \in Txns :
        <<t, u>> \in late' <=>
            /\ rows'[t].status = "pending"
            /\ \/ <<t, u>> \in late
               \/ /\ rows[t].status = "absent" /\ t < u
                  /\ rows[u].status # "absent"

LEMMA FewOlderStep ==
    ASSUME IsFiniteSet(Workers), IInv, FewOlder, [Next]_vars, Noted
    PROVE  FewOlder'
<1> USE DEF IInv
<1>1. ASSUME \A t \in Txns : Taken(t)' =>
               Taken(t) /\ OlderPending(t)' \subseteq OlderPending(t)
      PROVE  FewOlder'
  BY <1>1, StillFewer DEF FewOlder
<1>0. \A t, u \in Txns : <<t, u>> \in late /\ rows'[t].status = "pending"
                           => <<t, u>> \in late'
  BY DEF Noted
<1>2. CASE rows' = rows /\ \A v \in Workers : claim'[v] \in {claim[v], NoTxn}
  <2>1. \A t \in Txns : Taken(t)' => Taken(t)
    BY <1>2, TxnsAssumption DEF Taken, Locked, NoTxn
  <2>2. \A t \in Txns : OlderPending(t)' \subseteq OlderPending(t)
    BY <1>0, <1>2 DEF OlderPending
  <2>3. QED
    BY <1>1, <2>1, <2>2
<1>3. ASSUME NEW s \in Txns, Submit(s) PROVE FewOlder'
  <2>1. /\ rows[s].status = "absent" /\ rows'[s].status = "pending"
        /\ \A u \in Txns : u # s => rows'[u] = rows[u]
        /\ claim' = claim
    BY <1>3 DEF Submit, TypeOK, session
  <2>2. \A t \in Txns : Locked(t) => rows[t].status = "pending"
    BY TxnsAssumption DEF Locked, LocksOK, NoTxn
  <2>3. ASSUME NEW t \in Txns, Taken(t)'
        PROVE  Taken(t) /\ OlderPending(t)' \subseteq OlderPending(t)
    <3>1. Taken(t) /\ t # s
      BY <2>1, <2>2, <2>3 DEF Taken, Locked, Terminal
    <3>2. rows[t].status # "absent"
      BY <2>2, <3>1 DEF Taken, Terminal
    <3>3. s < t => <<s, t>> \in late'
      BY <2>1, <3>2 DEF Noted
    <3>4. \A u \in Txns : rows[u].status = "pending" /\ <<u, t>> \in late
                             => <<u, t>> \in late'
      BY <2>1 DEF Noted
    <3>5. QED
      BY <2>1, <3>1, <3>3, <3>4 DEF OlderPending
  <2>4. QED
    BY <1>1, <2>3
<1>4. ASSUME NEW w \in Workers, Claim(w) PROVE FewOlder'
  <2>1. PICK s \in Claimable : (\A u \in Claimable : s <= u)
                               /\ claim' = [claim EXCEPT ![w] = s]
    BY <1>4 DEF Claim
  <2>2. rows' = rows /\ pc[w] = "idle"
    BY <1>4 DEF Claim, store
  <2>3. \A t \in Txns : OlderPending(t)' = OlderPending(t)
    <3>1. \A t, u \in Txns : rows[t].status = "pending" =>
            (<<t, u>> \in late' <=> <<t, u>> \in late)
      BY <2>2 DEF Noted
    <3>2. QED
      BY <2>2, <3>1 DEF OlderPending
  <2>4. ASSUME NEW t \in Txns, Taken(t)' PROVE Taken(t) \/ t = s
    BY <2>1, <2>2, <2>4 DEF Taken, Locked, TypeOK
  <2>5. /\ IsFiniteSet(OlderPending(s))
        /\ Cardinality(OlderPending(s)) < Cardinality(Workers)
    BY <2>1, <2>2, ClaimPasses
  <2>6. QED
    BY <2>3, <2>4, <2>5 DEF FewOlder
<1>5. ASSUME NEW w \in Workers, NEW next, pc[w] = "written", Install(w), Release(w, next)
      PROVE  FewOlder'
  <2>1. /\ claim[w] \in Txns /\ rows'[claim[w]].status \in Terminal
        /\ \A u \in Txns : u # claim[w] => rows'[u] = rows[u]
    BY <1>5, InstallSettles
  <2>2. ASSUME NEW t \in Txns, Taken(t)'
        PROVE  Taken(t) /\ OlderPending(t)' \subseteq OlderPending(t)
    <3>1. \A v \in Workers : claim'[v] \in {claim[v], NoTxn}
      BY <1>5 DEF Release, TypeOK
    <3>2. Taken(t)
      BY <2>1, <2>2, <3>1, TxnsAssumption DEF Taken, Locked, NoTxn
    <3>3. OlderPending(t)' \subseteq OlderPending(t)
      BY <1>0, <2>1 DEF OlderPending, Terminal
    <3>4. QED
      BY <3>2, <3>3
  <2>3. QED
    BY <1>1, <2>2
<1>6. ASSUME NEW w \in Workers, Commit(w) \/ CommitLost(w) PROVE FewOlder'
  BY <1>5, <1>6 DEF Commit, CommitLost
<1>7. ASSUME NEW w \in Workers, Abort(w) PROVE FewOlder'
  BY <1>2, <1>7 DEF Abort, Release, store, TypeOK
<1>8. CASE Crash
  BY <1>2, <1>8 DEF Crash, store
<1>9. ASSUME NEW w \in Workers, Work(w) PROVE FewOlder'
  BY <1>2, <1>4, <1>6, <1>9
  DEF Work, Proceed, MissBalanceRow, LockBalance, ApplyCompleted, WriteStatus, Notified, store
<1>10. CASE UNCHANGED vars
  BY <1>2, <1>10 DEF vars, store, session
<1>11. QED
  BY <1>3, <1>6, <1>7, <1>8, <1>9, <1>10 DEF Next

\* Of the transactions that were visible before it, at most one older one per
\* other session is still pending when one is settled: claimPendingTransaction
\* takes the oldest row that nobody holds, and what it passes over is held.
THEOREM Overtaking ==
    ASSUME IsFiniteSet(Workers) PROVE ReadingSpec => []BoundedOvertaking
<1>1. ReadingInit => FewOlder
  BY TxnsAssumption
  DEF ReadingInit, Init, FewOlder, Taken, Locked, AbsentRow, Terminal, NoTxn
<1>2. ASSUME ReadingIInv, FewOlder, [ReadingNext]_<<vars, client, late>>
      PROVE  FewOlder'
  <2>1. CASE UNCHANGED <<vars, late>>
    BY <1>2, <2>1 DEF FewOlder, Taken, Locked, OlderPending, vars, store, session
  <2>2. CASE Pool
    <3>1. Noted
      BY <2>2 DEF Pool, Noted
    <3>2. QED
      BY <1>2, <2>2, <3>1, FewOlderStep DEF Pool, ReadingIInv
  <2>3. Request => UNCHANGED vars
    BY DEF Request, GetTransaction, GetBalance, StartPass, ReadPage,
           ReadCount, CountFails, Forget
  <2>4. QED
    BY <1>2, <2>1, <2>2, <2>3 DEF ReadingNext
<1>3. FewOlder => BoundedOvertaking
  BY DEF FewOlder, BoundedOvertaking, Taken
<1>4. QED
  BY <1>1, <1>2, <1>3, ReadingInvariance, PTL DEF ReadingSpec
=============================================================================
