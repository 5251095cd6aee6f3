--------------------------- MODULE Inference_proofs ---------------------------
(***************************************************************************)
(* Proofs about what a run asks the model, for every window, every length  *)
(* of reply, result and note, and any number of turns (Conversation); and  *)
(* about how one request is made, for every budget, schedule and gateway   *)
(* (InferenceRetry).                                                       *)
(***************************************************************************)
EXTENDS Conversation, InferenceRetry, FiniteSetTheorems, WellFoundedInduction, TLAPS

---------------------------------------------------------------------------------
(* The newest of a set of positions.                                             *)

LEMMA LeastExists ==
  ASSUME NEW T \in SUBSET Nat, T # {}
  PROVE  \E x \in T : \A y \in T : x <= y
<1>1. \E x \in T : \A y \in T : ~ (<<y, x>> \in OpToRel(<, Nat))
  BY NatLessThanWellFounded, WFMin
<1>2. \A x, y \in Nat : <<y, x>> \in OpToRel(<, Nat) <=> y < x
  BY DEF OpToRel
<1>3. PICK x \in T : \A y \in T : ~ (<<y, x>> \in OpToRel(<, Nat))
  BY <1>1
<1>4. ASSUME NEW y \in T
      PROVE  x <= y
  <2>1. x \in Nat /\ y \in Nat /\ ~ (y < x)
    BY <1>2, <1>3
  <2>. QED
    BY <2>1
<1>. QED
  BY <1>4

\* The members of a set that come after a position.
After(S, i) == {j \in S : j > i}

LEMMA AfterIsFinite ==
  ASSUME NEW n \in Nat, NEW S \in SUBSET (1 .. n), NEW i
  PROVE  IsFiniteSet(After(S, i)) /\ Cardinality(After(S, i)) \in Nat
<1>1. After(S, i) \in SUBSET (1 .. n)
  BY DEF After
<1>2. IsFiniteSet(1 .. n)
  BY FS_Interval
<1>3. IsFiniteSet(After(S, i))
  BY <1>1, <1>2, FS_Subset
<1>. QED
  BY <1>3, FS_CardinalityType

\* What is newer than one of the newest is one of them too.
LEMMA NewerIsNewest ==
  ASSUME NEW n \in Nat, NEW S \in SUBSET (1 .. n), NEW k \in Nat,
         NEW i \in Newest(k, S), NEW j \in S, i <= j
  PROVE  j \in Newest(k, S)
<1>1. i \in S /\ Cardinality(After(S, i)) < k
  BY DEF Newest, After
<1>2. After(S, j) \in SUBSET After(S, i)
  <2>1. ASSUME NEW x \in S, x > j
        PROVE  x > i
    <3>1. i \in Nat /\ j \in Nat /\ x \in Nat
      BY <1>1
    <3>. QED
      BY <2>1, <3>1
  <2>. QED
    BY <2>1 DEF After
<1>3. Cardinality(After(S, j)) <= Cardinality(After(S, i))
  BY <1>2, AfterIsFinite, FS_Subset
<1>4. Cardinality(After(S, i)) \in Nat /\ Cardinality(After(S, j)) \in Nat
  BY AfterIsFinite
<1>5. Cardinality(After(S, j)) < k
  BY <1>1, <1>3, <1>4
<1>. QED
  BY <1>5 DEF Newest, After

LEMMA FewerAreNewer ==
  ASSUME NEW n \in Nat, NEW S \in SUBSET (1 .. n), NEW k \in Nat, NEW m \in Nat, k <= m
  PROVE  Newest(k, S) \in SUBSET Newest(m, S)
<1>1. ASSUME NEW i \in Newest(k, S)
      PROVE  i \in Newest(m, S)
  <2>1. i \in S /\ Cardinality(After(S, i)) < k
    BY DEF Newest, After
  <2>2. Cardinality(After(S, i)) \in Nat
    BY AfterIsFinite
  <2>3. Cardinality(After(S, i)) < m
    BY <2>1, <2>2
  <2>. QED
    BY <2>1, <2>3 DEF Newest, After
<1>. QED
  BY <1>1

LEMMA NewestIsLast ==
  ASSUME NEW n \in Nat, NEW S \in SUBSET (1 .. n), NEW i \in Newest(1, S), NEW j \in S
  PROVE  i \in S /\ j <= i
<1>1. i \in S /\ Cardinality(After(S, i)) < 1
  BY DEF Newest, After
<1>2. IsFiniteSet(After(S, i)) /\ Cardinality(After(S, i)) \in Nat
  BY AfterIsFinite
<1>3. Cardinality(After(S, i)) = 0
  BY <1>1, <1>2
<1>4. After(S, i) = {}
  BY <1>2, <1>3, FS_EmptySet
<1>5. i \in Nat /\ j \in Nat /\ ~ (j > i)
  BY <1>1, <1>4 DEF After
<1>. QED
  BY <1>1, <1>5

\* A new last member pushes the oldest of the newest out.
LEMMA NewestShift ==
  ASSUME NEW n \in Nat, NEW S \in SUBSET (1 .. n), NEW m \in Nat
  PROVE  Newest(m + 1, S \cup {n + 1}) \in SUBSET (Newest(m, S) \cup {n + 1})
<1>. DEFINE k == n + 1
            T == S \cup {k}
<1>1. ASSUME NEW i \in Newest(m + 1, T), i # k
      PROVE  i \in Newest(m, S)
  <2>1. i \in S /\ Cardinality(After(T, i)) < m + 1
    BY <1>1 DEF Newest, After
  <2>2. After(T, i) = After(S, i) \cup {k} /\ k \notin After(S, i)
    BY <2>1 DEF After
  <2>3. IsFiniteSet(After(S, i)) /\ Cardinality(After(S, i)) \in Nat
    BY AfterIsFinite
  <2>. HIDE DEF k, T
  <2>4. Cardinality(After(S, i) \cup {k}) = Cardinality(After(S, i)) + 1
    BY <2>2, <2>3, FS_AddElement
  <2>5. Cardinality(After(S, i)) < m
    BY <2>1, <2>2, <2>3, <2>4
  <2>. QED
    BY <2>1, <2>5 DEF Newest, After
<1>. QED
  BY <1>1
---------------------------------------------------------------------------------
(* The cost of some messages.                                                    *)

Messages == [role : {"system", "user", "assistant", "observation"}, chars : Nat, cut : BOOLEAN]

LEMMA PriceIsNat ==
  ASSUME NEW ms \in Seq(Messages), NEW is, NEW i \in 1 .. Len(ms)
  PROVE  Price(is, ms, i) \in Nat
<1>1. ms[i] \in Messages
  OBVIOUS
<1>2. ms[i].chars \in Nat
  BY <1>1 DEF Messages
<1>3. Tokens(ms[i].chars) \in Nat
  BY <1>2 DEF Tokens
<1>. QED
  BY <1>3 DEF Price

\* The sums that Cost runs through, as the function that its definition chooses.
Sums(is, ms, n, f) ==
  f = [i \in 0 .. n |-> IF i = 0 THEN 0 ELSE f[i - 1] + Price(is, ms, i)]

LEMMA SumsExist ==
  ASSUME NEW ms \in Seq(Messages), NEW is, NEW n \in 0 .. Len(ms)
  PROVE  \E f \in [0 .. n -> Nat] : Sums(is, ms, n, f)
<1>. DEFINE Good(m) == \E f \in [0 .. m -> Nat] : Sums(is, ms, m, f)
            Bad     == {m \in 0 .. Len(ms) : ~ Good(m)}
<1>0. Len(ms) \in Nat
  OBVIOUS
<1>1. Good(0)
  <2>. DEFINE f == [i \in 0 .. 0 |-> 0]
  <2>1. f \in [0 .. 0 -> Nat] /\ Sums(is, ms, 0, f)
    BY DEF Sums
  <2>. QED
    BY <2>1
<1>2. ASSUME NEW m \in 1 .. Len(ms), Good(m - 1)
      PROVE  Good(m)
  <2>1. PICK g \in [0 .. m - 1 -> Nat] : Sums(is, ms, m - 1, g)
    BY <1>2
  <2>. DEFINE f == [i \in 0 .. m |-> IF i = m THEN g[m - 1] + Price(is, ms, m) ELSE g[i]]
  <2>2. Price(is, ms, m) \in Nat /\ g[m - 1] \in Nat
    BY <1>0, PriceIsNat
  <2>3. f \in [0 .. m -> Nat]
    BY <1>0, <2>2
  <2>4. ASSUME NEW i \in 0 .. m
        PROVE  f[i] = IF i = 0 THEN 0 ELSE f[i - 1] + Price(is, ms, i)
    <3>1. CASE i = m
      BY <1>0, <3>1
    <3>2. CASE i # m
      <4>1. i \in 0 .. m - 1 /\ f[i] = g[i] /\ (i # 0 => f[i - 1] = g[i - 1])
        BY <1>0, <3>2
      <4>2. g[i] = IF i = 0 THEN 0 ELSE g[i - 1] + Price(is, ms, i)
        <5>. HIDE DEF f
        <5>. QED
          BY <2>1, <4>1 DEF Sums
      <4>. QED
        BY <4>1, <4>2
    <3>. QED
      BY <3>1, <3>2
  <2>5. f = [i \in 0 .. m |-> f[i]]
    OBVIOUS
  <2>. HIDE DEF f
  <2>6. Sums(is, ms, m, f)
    BY <2>4, <2>5 DEF Sums
  <2>. QED
    BY <2>3, <2>6
<1>. HIDE DEF Good
<1>3. ASSUME Bad # {}
      PROVE  FALSE
  <2>1. PICK m \in Bad : \A y \in Bad : m <= y
    <3>1. Bad \in SUBSET Nat
      BY <1>0
    <3>. HIDE DEF Bad
    <3>. QED
      BY <1>3, <3>1, LeastExists
  <2>2. m \in 1 .. Len(ms)
    BY <1>0, <1>1, <2>1
  <2>3. m - 1 \notin Bad /\ m - 1 \in 0 .. Len(ms)
    BY <1>0, <2>1, <2>2
  <2>4. Good(m)
    BY <1>2, <2>2, <2>3
  <2>. QED
    BY <2>1, <2>4
<1>4. Good(n)
  BY <1>3
<1>. QED
  BY <1>4 DEF Good

\* So Cost is the last of such sums.
LEMMA CostIsASum ==
  ASSUME NEW ms \in Seq(Messages), NEW is
  PROVE  \E f : /\ f \in [0 .. Len(ms) -> Nat]
                /\ f[0] = 0
                /\ \A i \in 1 .. Len(ms) : f[i] = f[i - 1] + Price(is, ms, i)
                /\ Cost(is, ms) = f[Len(ms)]
<1>. DEFINE n == Len(ms)
            spent == CHOOSE f : Sums(is, ms, n, f)
<1>1. n \in Nat
  OBVIOUS
<1>2. Cost(is, ms) = spent[n]
  BY DEF Cost, Sums
<1>3. Sums(is, ms, n, spent)
  <2>1. \E f \in [0 .. n -> Nat] : Sums(is, ms, n, f)
    BY <1>1, SumsExist
  <2>. QED
    BY <2>1
<1>. HIDE DEF spent, n
<1>4. spent[0] = 0 /\ \A i \in 1 .. n : spent[i] = spent[i - 1] + Price(is, ms, i)
  BY <1>1, <1>3 DEF Sums
<1>. DEFINE Bad == {i \in 0 .. n : spent[i] \notin Nat}
<1>5. ASSUME Bad # {}
      PROVE  FALSE
  <2>1. PICK m \in Bad : \A y \in Bad : m <= y
    <3>1. Bad \in SUBSET Nat
      BY <1>1
    <3>. HIDE DEF Bad
    <3>. QED
      BY <1>5, <3>1, LeastExists
  <2>2. m \in 1 .. n
    BY <1>1, <1>4, <2>1
  <2>3. m - 1 \notin Bad /\ m - 1 \in 0 .. n
    BY <1>1, <2>1, <2>2
  <2>4. Price(is, ms, m) \in Nat
    BY <2>2, PriceIsNat DEF n
  <2>. QED
    BY <1>4, <2>1, <2>2, <2>3, <2>4
<1>6. \A i \in 0 .. n : spent[i] \in Nat
  BY <1>5
<1>7. spent \in [0 .. n -> Nat]
  BY <1>3, <1>6 DEF Sums
<1>. QED
  BY <1>2, <1>4, <1>7 DEF n

LEMMA CostIsNat ==
  ASSUME NEW ms \in Seq(Messages), NEW is
  PROVE  Cost(is, ms) \in Nat
<1>1. PICK f \in [0 .. Len(ms) -> Nat] : Cost(is, ms) = f[Len(ms)]
  BY CostIsASum
<1>2. Len(ms) \in 0 .. Len(ms)
  OBVIOUS
<1>. QED
  BY <1>1, <1>2

\* Fewer messages, of no other length, cost no more.
LEMMA FewerCostLess ==
  ASSUME NEW ms \in Seq(Messages), NEW ns \in Seq(Messages), Len(ms) = Len(ns),
         NEW is, NEW js, is \subseteq js,
         \A i \in 1 .. Len(ms) : i \in is => ms[i].chars = ns[i].chars
  PROVE  Cost(is, ms) <= Cost(js, ns)
<1>. DEFINE n == Len(ms)
<1>1. n \in Nat
  OBVIOUS
<1>2. PICK f : /\ f \in [0 .. Len(ms) -> Nat]
               /\ f[0] = 0
               /\ \A i \in 1 .. Len(ms) : f[i] = f[i - 1] + Price(is, ms, i)
               /\ Cost(is, ms) = f[Len(ms)]
  BY CostIsASum, Zenon
<1>3. PICK g : /\ g \in [0 .. Len(ns) -> Nat]
               /\ g[0] = 0
               /\ \A i \in 1 .. Len(ns) : g[i] = g[i - 1] + Price(js, ns, i)
               /\ Cost(js, ns) = g[Len(ns)]
  BY CostIsASum, Zenon
<1>4. ASSUME NEW i \in 1 .. n
      PROVE  /\ Price(is, ms, i) \in Nat /\ Price(js, ns, i) \in Nat
             /\ Price(is, ms, i) <= Price(js, ns, i)
  <2>1. Price(is, ms, i) \in Nat /\ Price(js, ns, i) \in Nat
    BY PriceIsNat
  <2>2. CASE i \in is
    <3>1. Price(is, ms, i) = Price(js, ns, i)
      BY <2>2 DEF Price
    <3>. QED
      BY <2>1, <3>1
  <2>3. CASE i \notin is
    BY <2>1, <2>3 DEF Price
  <2>. QED
    BY <2>2, <2>3
<1>5. /\ f \in [0 .. n -> Nat] /\ f[0] = 0 /\ Cost(is, ms) = f[n]
      /\ g \in [0 .. n -> Nat] /\ g[0] = 0 /\ Cost(js, ns) = g[n]
  BY <1>2, <1>3
<1>6. \A i \in 1 .. n : /\ f[i] = f[i - 1] + Price(is, ms, i)
                       /\ g[i] = g[i - 1] + Price(js, ns, i)
  BY <1>2, <1>3
<1>. HIDE DEF n
<1>. DEFINE Bad == {i \in 0 .. n : f[i] > g[i]}
<1>7. ASSUME Bad # {}
      PROVE  FALSE
  <2>1. PICK m \in Bad : \A y \in Bad : m <= y
    <3>1. Bad \in SUBSET Nat
      BY <1>1
    <3>. HIDE DEF Bad
    <3>. QED
      BY <1>7, <3>1, LeastExists
  <2>2. m \in 1 .. n
    BY <1>1, <1>5, <2>1
  <2>3. m - 1 \notin Bad /\ m - 1 \in 0 .. n
    BY <1>1, <2>1, <2>2
  <2>4. /\ Price(is, ms, m) \in Nat /\ Price(js, ns, m) \in Nat
        /\ Price(is, ms, m) <= Price(js, ns, m)
    BY <1>4, <2>2
  <2>5. f[m - 1] \in Nat /\ g[m - 1] \in Nat /\ f[m - 1] <= g[m - 1]
    BY <1>5, <2>3
  <2>6. f[m] = f[m - 1] + Price(is, ms, m) /\ g[m] = g[m - 1] + Price(js, ns, m)
    BY <1>6, <2>2
  <2>7. f[m] > g[m]
    BY <2>1
  <2>. QED
    BY <2>4, <2>5, <2>6, <2>7
<1>8. n \in 0 .. n /\ n \notin Bad
  BY <1>1, <1>7
<1>9. f[n] \in Nat /\ g[n] \in Nat /\ f[n] <= g[n]
  BY <1>5, <1>8
<1>. QED
  BY <1>5, <1>9
---------------------------------------------------------------------------------
(* What trimming does to the messages.                                           *)

\* A message that cannot be cut any further.
Done(m) == m.cut \/ m.chars <= StubChars

LEMMA StubFacts ==
  ASSUME NEW m \in Messages
  PROVE  /\ Stub(m) \in Messages /\ Stub(m).role = m.role
         /\ Done(Stub(m))
         /\ Done(m) => Stub(m) = m
<1>1. CASE Done(m)
  <2>1. Stub(m) = m
    BY <1>1, Zenon DEF Done, Stub
  <2>. QED
    BY <1>1, <2>1
<1>2. CASE ~ Done(m)
  <2>1. Stub(m) = [m EXCEPT !.chars = StubChars + MarkChars, !.cut = TRUE]
    BY <1>2, Zenon DEF Done, Stub
  <2>2. StubChars + MarkChars \in Nat
    BY DEF StubChars, MarkChars
  <2>3. /\ Stub(m) = [role |-> m.role, chars |-> StubChars + MarkChars, cut |-> TRUE]
    BY <2>1 DEF Messages
  <2>4. Stub(m).role = m.role /\ Stub(m) \in Messages
    BY <2>2, <2>3 DEF Messages
  <2>5. Stub(m).cut
    BY <2>3
  <2>. QED
    BY <1>2, <2>4, <2>5 DEF Done
<1>. QED
  BY <1>1, <1>2

LEMMA StubbedShape ==
  ASSUME NEW ms \in Seq(Messages), NEW is
  PROVE  LET ns == Stubbed(ms, is)
         IN  /\ ns \in Seq(Messages) /\ Len(ns) = Len(ms)
             /\ \A i \in 1 .. Len(ms) :
                  /\ ns[i] = IF i \in is THEN Stub(ms[i]) ELSE ms[i]
                  /\ ns[i].role = ms[i].role
                  /\ Done(ms[i]) => ns[i] = ms[i]
             /\ \A role : Of(role, ns) = Of(role, ms)
<1>. DEFINE ns == Stubbed(ms, is)
            n == Len(ms)
<1>1. n \in Nat /\ DOMAIN ms = 1 .. n /\ \A i \in 1 .. n : ms[i] \in Messages
  OBVIOUS
<1>2. ns = [i \in 1 .. n |-> IF i \in is THEN Stub(ms[i]) ELSE ms[i]]
  BY <1>1 DEF Stubbed
<1>3. ASSUME NEW i \in 1 .. n
      PROVE  /\ ns[i] = IF i \in is THEN Stub(ms[i]) ELSE ms[i]
             /\ ns[i] \in Messages /\ ns[i].role = ms[i].role
             /\ Done(ms[i]) => ns[i] = ms[i]
  BY <1>1, <1>2, StubFacts
<1>. HIDE DEF n
<1>4. ns \in [1 .. n -> Messages]
  BY <1>2, <1>3
<1>. HIDE DEF ns
<1>5. ns \in Seq(Messages) /\ Len(ns) = n /\ DOMAIN ns = 1 .. n
  BY <1>1, <1>4
<1>6. \A role : Of(role, ns) = Of(role, ms)
  BY <1>1, <1>3, <1>5 DEF Of
<1>. QED
  BY <1>3, <1>5, <1>6 DEF ns, n

LEMMA OfIsInRange ==
  ASSUME NEW ms \in Seq(Messages)
  PROVE  /\ Len(ms) \in Nat
         /\ \A role : Of(role, ms) \in SUBSET (1 .. Len(ms))
         /\ Of("assistant", ms) \cap Of("observation", ms) = {}
BY DEF Of

\* What is stale is older than all that is not, and the newest result never is.
LEMMA StaleShape ==
  ASSUME NEW ms \in Seq(Messages)
  PROVE  LET results == Of("observation", ms)
         IN  /\ Stale(ms) \in SUBSET results
             /\ \A i \in Newest(1, results) : i \notin Stale(ms)
             /\ \A i \in results, j \in Stale(ms) : i <= j => i \in Stale(ms)
<1>. DEFINE results == Of("observation", ms)
            n == Len(ms)
<1>1. n \in Nat /\ results \in SUBSET (1 .. n)
  BY OfIsInRange
<1>2. CASE History > 0
  <2>. DEFINE after(i) == {j \in results : j >= i}
              fits(i)  == i \in Newest(1, results) \/ Cost(after(i), ms) <= History
  <2>1. Stale(ms) = {i \in results : \E j \in after(i) : ~ fits(j)}
    BY <1>2 DEF Stale
  <2>. HIDE DEF fits, n, results
  <2>2. ASSUME NEW i \in Newest(1, results)
        PROVE  i \notin Stale(ms)
    <3>1. ASSUME NEW j \in after(i)
          PROVE  fits(j)
      <4>1. j \in results /\ j >= i /\ i \in results /\ j <= i
        BY <1>1, <3>1, NewestIsLast
      <4>2. i \in Nat /\ j \in Nat
        BY <1>1, <4>1
      <4>3. j = i
        BY <4>1, <4>2
      <4>. QED
        BY <4>3 DEF fits
    <3>. QED
      BY <2>1, <3>1
  <2>3. ASSUME NEW i \in results, NEW j \in Stale(ms), i <= j
        PROVE  i \in Stale(ms)
    <3>1. j \in results
      BY <2>1
    <3>2. PICK k \in after(j) : ~ fits(k)
      BY <2>1
    <3>3. i \in Nat /\ j \in Nat /\ k \in Nat /\ k \in results
      BY <1>1, <3>1, <3>2
    <3>4. k \in after(i)
      BY <2>3, <3>2, <3>3
    <3>. QED
      BY <2>1, <3>2, <3>4
  <2>. QED
    BY <2>1, <2>2, <2>3 DEF results
<1>3. CASE ~ (History > 0)
  <2>1. Stale(ms) = results \ Newest(KeepFull, results)
    BY <1>3 DEF Stale
  <2>. HIDE DEF n, results
  <2>2. KeepFull \in Nat /\ 1 <= KeepFull
    BY ConversationAssumption
  <2>3. Newest(1, results) \in SUBSET Newest(KeepFull, results)
    BY <1>1, <2>2, FewerAreNewer
  <2>4. ASSUME NEW i \in results, NEW j \in Stale(ms), i <= j
        PROVE  i \in Stale(ms)
    <3>1. j \in results /\ j \notin Newest(KeepFull, results)
      BY <2>1
    <3>2. i \notin Newest(KeepFull, results)
      BY <1>1, <2>2, <2>4, <3>1, NewerIsNewest
    <3>. QED
      BY <2>1, <3>2
  <2>. QED
    BY <2>1, <2>3, <2>4 DEF results
<1>. QED
  BY <1>2, <1>3

\* The turns that are cut are older than all that are not, and never the last two;
\* and either the prompt fits or there is no other left to cut.
LEMMA RelieveShape ==
  ASSUME NEW ms \in Seq(Messages), window \in Nat
  PROVE  \E R : LET turns == Of("assistant", ms) \ Newest(2, Of("assistant", ms))
                IN  /\ Relieve(ms) = Stubbed(ms, R)
                    /\ R \in SUBSET turns
                    /\ \A i \in Of("assistant", ms), j \in R : i <= j => i \in R
                    /\ window # 0 => Total(Stubbed(ms, R)) <= Ceiling \/ R = turns
<1>. DEFINE A == Of("assistant", ms)
            turns == A \ Newest(2, A)
            fits(i) == Total(Stubbed(ms, {j \in turns : j < i})) <= Ceiling
            R == {j \in turns : \A i \in turns : i <= j => ~ fits(i)}
<1>1. A \in SUBSET (1 .. Len(ms)) /\ Len(ms) \in Nat
  BY OfIsInRange
<1>2. CASE window = 0
  <2>1. Relieve(ms) = ms
    BY <1>2 DEF Relieve
  <2>2. Stubbed(ms, {}) = ms
    BY DEF Stubbed
  <2>. QED
    BY <1>2, <2>1, <2>2
<1>3. CASE window # 0
  <2>1. Relieve(ms) = Stubbed(ms, R)
    BY <1>3 DEF Relieve, Spared
  <2>. HIDE DEF fits, A
  <2>2. ASSUME NEW i \in A, NEW j \in R, i <= j
        PROVE  i \in R
    <3>1. j \in A /\ j \notin Newest(2, A)
      OBVIOUS
    <3>2. i \in turns
      BY <1>1, <2>2, <3>1, NewerIsNewest
    <3>3. ASSUME NEW k \in turns, k <= i
          PROVE  ~ fits(k)
      <4>1. k \in Nat /\ i \in Nat /\ j \in Nat
        BY <1>1, <3>1
      <4>2. k <= j
        BY <2>2, <3>3, <4>1
      <4>. QED
        BY <4>2
    <3>. QED
      BY <3>2, <3>3
  <2>. DEFINE T == {i \in turns : fits(i)}
  <2>3. CASE T = {}
    <3>1. R = turns
      BY <2>3
    <3>. QED
      BY <2>1, <2>2, <3>1 DEF A
  <2>4. CASE T # {}
    <3>1. T \in SUBSET Nat
      <4>1. T \in SUBSET A
        OBVIOUS
      <4>. HIDE DEF T
      <4>. QED
        BY <1>1, <4>1
    <3>2. PICK t \in T : \A y \in T : t <= y
      <4>. HIDE DEF T
      <4>. QED
        BY <2>4, <3>1, LeastExists
    <3>3. t \in turns /\ fits(t)
      OBVIOUS
    <3>4. ASSUME NEW j \in turns
          PROVE  j \in R <=> j < t
      <4>1. j \in Nat /\ t \in Nat /\ \A i \in turns : i \in Nat
        <5>1. \A i \in A : i \in Nat
          BY <1>1
        <5>2. t \in turns
          BY <3>3
        <5>. HIDE DEF T, R
        <5>. QED
          BY <5>1, <5>2
      <4>2. ASSUME j < t, NEW i \in turns, i <= j
            PROVE  ~ fits(i)
        <5>1. i \in Nat /\ i < t
          BY <4>1, <4>2
        <5>2. i \notin T
          BY <3>2, <4>1, <5>1
        <5>. QED
          BY <5>2
      <4>3. ASSUME ~ (j < t)
            PROVE  j \notin R
        BY <3>3, <4>1, <4>3
      <4>. QED
        BY <4>2, <4>3
    <3>5. R = {j \in turns : j < t}
      BY <3>4
    <3>6. Total(Stubbed(ms, R)) <= Ceiling
      BY <3>3, <3>5 DEF fits
    <3>. QED
      BY <2>1, <2>2, <3>6 DEF A
  <2>. QED
    BY <2>3, <2>4
<1>. QED
  BY <1>2, <1>3

\* Both together: what is trimmed of each kind is older than what is not, the newest
\* result and the last two turns are left alone, and so is what is short.
LEMMA CompactShape ==
  ASSUME NEW ms \in Seq(Messages), window \in Nat
  PROVE  LET ns      == Compact(ms)
             results == Of("observation", ms)
             turns   == Of("assistant", ms)
         IN  /\ ns \in Seq(Messages) /\ Len(ns) = Len(ms)
             /\ \A role : Of(role, ns) = Of(role, ms)
             /\ \A i \in 1 .. Len(ms) : Done(ms[i]) => ns[i] = ms[i]
             /\ \A i \in Newest(1, results) \cup Newest(2, turns) : ns[i] = ms[i]
             /\ \A i \in results : IF i \in Stale(ms) THEN Done(ns[i]) ELSE ns[i] = ms[i]
             /\ \A role \in {"observation", "assistant"} : \A i, j \in Of(role, ms) :
                  i <= j /\ ns[j] # ms[j] => Done(ns[i])
             /\ window # 0 =>
                  \/ Total(ns) <= Ceiling
                  \/ \A i \in turns \ Newest(2, turns) : Done(ns[i])
<1>. DEFINE results == Of("observation", ms)
            turns == Of("assistant", ms)
            S == Stale(ms)
            mid == Stubbed(ms, S)
<1>1. /\ mid \in Seq(Messages) /\ Len(mid) = Len(ms)
      /\ \A i \in 1 .. Len(ms) : /\ mid[i] = IF i \in S THEN Stub(ms[i]) ELSE ms[i]
                                 /\ Done(ms[i]) => mid[i] = ms[i]
      /\ \A role : Of(role, mid) = Of(role, ms)
  BY StubbedShape
<1>2. PICK R : /\ Relieve(mid) = Stubbed(mid, R)
               /\ R \in SUBSET (turns \ Newest(2, turns))
               /\ \A i \in turns, j \in R : i <= j => i \in R
               /\ window # 0 =>
                    Total(Stubbed(mid, R)) <= Ceiling \/ R = turns \ Newest(2, turns)
  <2>1. Of("assistant", mid) = turns
    BY <1>1
  <2>. HIDE DEF mid, turns
  <2>. QED
    BY <1>1, <2>1, RelieveShape, Zenon
<1>. DEFINE ns == Stubbed(mid, R)
<1>3. /\ ns \in Seq(Messages) /\ Len(ns) = Len(ms)
      /\ \A i \in 1 .. Len(ms) : /\ ns[i] = IF i \in R THEN Stub(mid[i]) ELSE mid[i]
                                 /\ Done(mid[i]) => ns[i] = mid[i]
      /\ \A role : Of(role, ns) = Of(role, ms)
  BY <1>1, StubbedShape
<1>4. Compact(ms) = ns
  BY <1>2 DEF Compact
<1>5. /\ Len(ms) \in Nat
      /\ \A role : Of(role, ms) \in SUBSET (1 .. Len(ms))
      /\ turns \cap results = {}
  BY OfIsInRange
<1>6. /\ S \in SUBSET results
      /\ \A i \in Newest(1, results) : i \notin S
      /\ \A i \in results, j \in S : i <= j => i \in S
  BY StaleShape
<1>7. Newest(1, results) \in SUBSET results /\ Newest(2, turns) \in SUBSET turns
  BY DEF Newest
<1>8. ASSUME NEW i \in 1 .. Len(ms)
      PROVE  /\ i \in S \/ i \in R => Done(ns[i])
             /\ i \notin S /\ i \notin R => ns[i] = ms[i]
             /\ Done(ms[i]) => ns[i] = ms[i]
  <2>1. mid[i] \in Messages /\ ms[i] \in Messages
    BY <1>1
  <2>2. Done(Stub(mid[i])) /\ Done(Stub(ms[i]))
    BY <2>1, StubFacts
  <2>. HIDE DEF ns, mid, S
  <2>. QED
    BY <1>1, <1>3, <2>2
<1>. HIDE DEF ns, mid, S
<1>9. \A i \in Newest(1, results) \cup Newest(2, turns) : ns[i] = ms[i]
  BY <1>2, <1>5, <1>6, <1>7, <1>8
<1>10. \A i \in results : IF i \in S THEN Done(ns[i]) ELSE ns[i] = ms[i]
  BY <1>2, <1>5, <1>8
<1>11. ASSUME NEW role \in {"observation", "assistant"},
              NEW i \in Of(role, ms), NEW j \in Of(role, ms), i <= j, ns[j] # ms[j]
       PROVE  Done(ns[i])
  <2>1. i \in 1 .. Len(ms) /\ j \in 1 .. Len(ms)
    BY <1>5
  <2>2. j \in S \/ j \in R
    BY <1>8, <1>11, <2>1
  <2>3. i \in S \/ i \in R
    BY <1>2, <1>5, <1>6, <1>11, <2>2
  <2>. QED
    BY <1>8, <2>1, <2>3
<1>12. window # 0 => \/ Total(ns) <= Ceiling
                     \/ \A i \in turns \ Newest(2, turns) : Done(ns[i])
  <2>1. R = turns \ Newest(2, turns) =>
          \A i \in turns \ Newest(2, turns) : Done(ns[i])
    BY <1>5, <1>8
  <2>. QED
    BY <1>2, <2>1 DEF ns
<1>. QED
  BY <1>3, <1>4, <1>8, <1>9, <1>10, <1>11, <1>12 DEF S

\* Results that are not stale fill no more than the budget, unless it is the newest alone.
LEMMA NotStaleFits ==
  ASSUME NEW ms \in Seq(Messages), NEW ns \in Seq(Messages), Len(ns) = Len(ms),
         History > 0, History \in Int, NEW W \in SUBSET Of("observation", ms),
         \A i \in W : i \notin Stale(ms) /\ ns[i] = ms[i]
  PROVE  W \subseteq Newest(1, Of("observation", ms)) \/ Cost(W, ns) <= History
<1>. DEFINE results == Of("observation", ms)
            after(i) == {j \in results : j >= i}
            fits(i)  == i \in Newest(1, results) \/ Cost(after(i), ms) <= History
<1>1. results \in SUBSET (1 .. Len(ms)) /\ Len(ms) \in Nat
  BY OfIsInRange
<1>2. Stale(ms) = {i \in results : \E j \in after(i) : ~ fits(j)}
  BY DEF Stale
<1>. HIDE DEF results, fits
<1>. SUFFICES ASSUME ~ (W \subseteq Newest(1, results))
              PROVE  Cost(W, ns) <= History
  BY DEF results
<1>3. W \in SUBSET results
  BY DEF results
<1>4. PICK i \in W : \A j \in W : i <= j
  <2>1. W \in SUBSET Nat
    <3>1. 1 .. Len(ms) \in SUBSET Nat
      BY <1>1
    <3>. QED
      BY <1>1, <1>3, <3>1, Zenon
  <2>2. W # {}
    OBVIOUS
  <2>. QED
    BY <2>1, <2>2, LeastExists
<1>5. i \in results /\ i \in after(i)
  BY <1>1, <1>3
<1>6. fits(i)
  BY <1>2, <1>5
<1>7. i \notin Newest(1, results)
  <2>1. ASSUME i \in Newest(1, results), NEW j \in W
        PROVE  j \in Newest(1, results)
    <3>1. i \in Nat /\ j \in Nat /\ j \in results /\ i <= j
      BY <1>1, <1>3, <1>4
    <3>2. j <= i
      BY <1>1, <2>1, <3>1, NewestIsLast
    <3>3. j = i
      BY <3>1, <3>2
    <3>. QED
      BY <2>1, <3>3
  <2>. QED
    BY <2>1
<1>8. Cost(after(i), ms) <= History
  BY <1>6, <1>7 DEF fits
<1>9. W \subseteq after(i)
  BY <1>1, <1>3, <1>4
<1>. HIDE DEF after
<1>10. Cost(W, ns) <= Cost(after(i), ms)
  <2>1. \A j \in 1 .. Len(ns) : j \in W => ns[j].chars = ms[j].chars
    OBVIOUS
  <2>. QED
    BY <1>9, <2>1, FewerCostLess
<1>11. Cost(W, ns) \in Nat /\ Cost(after(i), ms) \in Nat
  BY CostIsNat
<1>. QED
  BY <1>8, <1>10, <1>11
---------------------------------------------------------------------------------
(* The inductive invariant.                                                      *)

\* A window is none or large enough to plan with.
Typed ==
  /\ window \in Nat /\ (window = 0 \/ window >= 8192)
  /\ messages \in Seq(Messages)

TalkInv == Typed /\ WhatComesLastIsWhole /\ CutOldestFirst /\ PromptFits

\* A window that is planned with leaves room for results.
LEMMA WindowIsDivided ==
  ASSUME Typed
  PROVE  /\ History \in Nat /\ OutputCap \in Nat
         /\ window # 0 => History > 0
<1>. DEFINE w == window
<1>1. w \in Nat /\ (w = 0 \/ w >= 8192)
  BY DEF Typed
<1>2. w \div 8 \in Nat /\ 8 * (w \div 8) <= w
  BY <1>1
<1>3. MaxReply \in Nat /\ (MaxReply = 1024 \/ MaxReply <= w \div 8)
  BY <1>2 DEF MaxReply, AtLeast, AtMost
<1>4. ASSUME w # 0
      PROVE  History \in Nat /\ History > 0
  <2>1. w - MaxReply - 4096 >= 2
    BY <1>1, <1>2, <1>3, <1>4
  <2>. DEFINE d == w - MaxReply - 4096
  <2>2. d \in Nat /\ d >= 2
    BY <1>1, <1>3, <2>1
  <2>3. AtLeast(0, d) = d
    BY <2>2 DEF AtLeast
  <2>4. History = d \div 2
    BY <1>4, <2>3 DEF History
  <2>. HIDE DEF d
  <2>. QED
    BY <2>2, <2>4
<1>5. w = 0 => History = 0
  BY DEF History
<1>6. OutputCap \in Nat
  <2>1. (5 * w) \div 100 \in Nat
    BY <1>1
  <2>. QED
    BY <2>1 DEF OutputCap, AtMost, AtLeast
<1>. QED
  BY <1>4, <1>5, <1>6

LEMMA ResultsHaveLength ==
  ASSUME Typed, NEW r \in Results
  PROVE  ResultChars(r) \in Nat
<1>1. r[1] \in Nat /\ r[2] \in Nat
  BY ConversationAssumption
<1>2. OutputCap \in Nat
  BY WindowIsDivided
<1>3. OutputCap \div 3 \in Nat /\ (2 * OutputCap) \div 3 \in Nat
  BY <1>2
<1>4. \A c \in Nat : Capped(c) \in Nat
  BY <1>2, <1>3 DEF Capped
<1>. QED
  BY <1>1, <1>4 DEF ResultChars, HeaderChars

LEMMA TalkBegins == Init => TalkInv
<1>. SUFFICES ASSUME Init PROVE TalkInv
  OBVIOUS
<1>. DEFINE first == Message("system", SystemChars)
            second == Message("user", 29)
<1>1. first \in Messages /\ second \in Messages /\ first.role = "system" /\ second.role = "user"
  BY ConversationAssumption DEF Message, Messages
<1>2. window \in Nat /\ (window = 0 \/ window >= 8192)
  BY ConversationAssumption DEF Init, WindowOf
<1>. HIDE DEF first, second
<1>3. messages = <<first, second>>
  BY DEF Init, first, second
<1>4. Typed
  BY <1>1, <1>2, <1>3 DEF Typed
<1>5. Of("assistant", messages) = {} /\ Of("observation", messages) = {}
  BY <1>1, <1>3 DEF Of
<1>6. Newest(1, {}) = {} /\ Newest(2, {}) = {}
  BY DEF Newest
<1>7. WhatComesLastIsWhole
  BY <1>5, <1>6 DEF WhatComesLastIsWhole, Whole, LastTwoTurns
<1>8. CutOldestFirst
  BY <1>5 DEF CutOldestFirst
<1>9. PromptFits
  BY <1>5, <1>6 DEF PromptFits, LastTwoTurns
<1>. QED
  BY <1>4, <1>7, <1>8, <1>9 DEF TalkInv

\* A message at the end leaves the others where they are.
LEMMA OneMore ==
  ASSUME NEW ms \in Seq(Messages), NEW m \in Messages
  PROVE  LET ns == Append(ms, m)
         IN  /\ ns \in Seq(Messages) /\ Len(ms) \in Nat /\ Len(ns) = Len(ms) + 1
             /\ ns[Len(ms) + 1] = m
             /\ \A i \in 1 .. Len(ms) : ns[i] = ms[i]
             /\ \A role : Of(role, ns) =
                            IF m.role = role THEN Of(role, ms) \cup {Len(ms) + 1} ELSE Of(role, ms)
<1>. DEFINE ns == Append(ms, m)
            n == Len(ms)
<1>1. /\ ns \in Seq(Messages) /\ n \in Nat /\ Len(ns) = n + 1 /\ ns[n + 1] = m
      /\ \A i \in 1 .. n : ns[i] = ms[i]
      /\ DOMAIN ns = 1 .. n + 1 /\ DOMAIN ms = 1 .. n
  OBVIOUS
<1>. HIDE DEF ns, n
<1>2. 1 .. n + 1 = (1 .. n) \cup {n + 1} /\ n + 1 \notin 1 .. n
  BY <1>1
<1>3. ASSUME NEW role, NEW i
      PROVE  i \in Of(role, ns) <=> (i \in Of(role, ms) \/ (m.role = role /\ i = n + 1))
  BY <1>1, <1>2 DEF Of
<1>4. ASSUME NEW role
      PROVE  Of(role, ns) = IF m.role = role THEN Of(role, ms) \cup {n + 1} ELSE Of(role, ms)
  <2>1. CASE m.role = role
    BY <1>3, <2>1
  <2>2. CASE m.role # role
    <3>1. \A i : i \in Of(role, ns) <=> i \in Of(role, ms)
      BY <1>3, <2>2
    <3>2. Of(role, ns) = Of(role, ms)
      BY <3>1, Zenon
    <3>. QED
      BY <2>2, <3>2
  <2>. QED
    BY <2>1, <2>2
<1>. QED
  BY <1>1, <1>4 DEF ns, n

LEMMA FreshMessage ==
  ASSUME NEW role \in {"assistant", "observation"}, NEW chars \in Nat
  PROVE  LET m == Message(role, chars)
         IN  m \in Messages /\ m.role = role /\ ~ m.cut
BY DEF Message, Messages

LEMMA ReplyKeeps ==
  ASSUME TalkInv, Reply
  PROVE  TalkInv'
<1>. USE DEF TalkInv
<1>1. PICK k \in ReplySizes : messages' = Append(messages, Message("assistant", k))
  BY DEF Reply
<1>2. PICK m : m = Message("assistant", k)
  OBVIOUS
<1>. DEFINE n == Len(messages)
            A == Of("assistant", messages)
            O == Of("observation", messages)
<1>3. m \in Messages /\ m.role = "assistant" /\ ~ m.cut
  BY <1>2, FreshMessage, ConversationAssumption
<1>4. /\ messages' \in Seq(Messages) /\ n \in Nat
      /\ messages'[n + 1] = m /\ \A i \in 1 .. n : messages'[i] = messages[i]
      /\ Of("assistant", messages') = A \cup {n + 1}
      /\ Of("observation", messages') = O
  BY <1>1, <1>2, <1>3, OneMore DEF Typed
<1>5. A \in SUBSET (1 .. n) /\ O \in SUBSET (1 .. n)
  BY OfIsInRange DEF Typed
<1>6. window' = window /\ pc' = "observe"
  BY DEF Reply
<1>. HIDE DEF n, A, O
<1>7. Typed'
  BY <1>4, <1>6 DEF Typed
<1>8. WhatComesLastIsWhole'
  <2>1. Newest(1, O) \in SUBSET O
    BY DEF Newest
  <2>2. Whole(Newest(1, O))'
    BY <1>4, <1>5, <2>1 DEF WhatComesLastIsWhole, Whole, O
  <2>3. Newest(2, A \cup {n + 1}) \in SUBSET (Newest(2, A) \cup {n + 1})
    <3>1. Newest(1 + 1, A \cup {n + 1}) \in SUBSET (Newest(1, A) \cup {n + 1})
      BY <1>4, <1>5, NewestShift
    <3>2. Newest(1, A) \in SUBSET Newest(2, A)
      <4>1. 1 \in Nat /\ 2 \in Nat /\ 1 <= 2
        OBVIOUS
      <4>. QED
        BY <1>4, <1>5, <4>1, FewerAreNewer, Zenon
    <3>. QED
      BY <3>1, <3>2
  <2>4. Newest(2, A) \in SUBSET (1 .. n) /\ Whole(Newest(2, A))
    BY <1>5 DEF Newest, WhatComesLastIsWhole, LastTwoTurns, A
  <2>5. \A i \in Newest(2, A \cup {n + 1}) : ~ messages'[i].cut
    BY <1>3, <1>4, <2>3, <2>4 DEF Whole
  <2>. QED
    BY <1>4, <2>2, <2>5 DEF WhatComesLastIsWhole, LastTwoTurns, Whole, O
<1>9. CutOldestFirst'
  <2>. SUFFICES ASSUME NEW role \in {"observation", "assistant"},
                       NEW i \in Of(role, messages'), NEW j \in Of(role, messages'),
                       i < j, messages'[j].cut
                PROVE  Done(messages'[i])
    BY DEF CutOldestFirst, Done
  <2>1. i \in 1 .. n + 1 /\ j \in 1 .. n + 1
    <3>1. 1 .. n \subseteq 1 .. n + 1 /\ n + 1 \in 1 .. n + 1
      BY <1>4
    <3>2. Of(role, messages') \subseteq 1 .. n + 1
      BY <1>4, <1>5, <3>1
    <3>. QED
      BY <3>2
  <2>2. j # n + 1
    BY <1>3, <1>4
  <2>3. i # n + 1 /\ j \in 1 .. n /\ i \in 1 .. n
    BY <1>4, <2>1, <2>2
  <2>4. i \in Of(role, messages) /\ j \in Of(role, messages)
    BY <1>4, <2>2, <2>3 DEF A, O
  <2>5. messages[j].cut
    BY <1>4, <2>3
  <2>6. Done(messages[i])
    BY <2>4, <2>5 DEF CutOldestFirst, Done
  <2>. QED
    BY <1>4, <2>3, <2>6
<1>10. PromptFits'
  BY <1>6 DEF PromptFits
<1>. QED
  BY <1>7, <1>8, <1>9, <1>10

LEMMA ObserveKeeps ==
  ASSUME TalkInv, NEW chars \in Nat, Observe(chars)
  PROVE  TalkInv'
<1>. USE DEF TalkInv
<1>1. PICK m : m = Message("observation", chars)
  OBVIOUS
<1>2. PICK ms : ms = Append(messages, m)
  OBVIOUS
<1>3. PICK ns : ns = Compact(ms)
  OBVIOUS
<1>4. messages' = ns /\ window' = window /\ pc' = "ask"
  BY <1>1, <1>2, <1>3 DEF Observe
<1>. DEFINE n == Len(messages)
            A == Of("assistant", ms)
            O == Of("observation", ms)
<1>5. m \in Messages /\ m.role = "observation" /\ ~ m.cut
  BY <1>1, FreshMessage
<1>6. /\ ms \in Seq(Messages) /\ n \in Nat /\ Len(ms) = n + 1
      /\ ms[n + 1] = m /\ \A i \in 1 .. n : ms[i] = messages[i]
      /\ A = Of("assistant", messages) /\ O = Of("observation", messages) \cup {n + 1}
  BY <1>2, <1>5, OneMore DEF Typed
<1>7. /\ ns \in Seq(Messages) /\ Len(ns) = Len(ms)
      /\ \A role : Of(role, ns) = Of(role, ms)
      /\ \A i \in 1 .. Len(ms) : Done(ms[i]) => ns[i] = ms[i]
      /\ \A i \in Newest(1, O) \cup Newest(2, A) : ns[i] = ms[i]
      /\ \A i \in O : IF i \in Stale(ms) THEN Done(ns[i]) ELSE ns[i] = ms[i]
      /\ \A role \in {"observation", "assistant"} : \A i, j \in Of(role, ms) :
           i <= j /\ ns[j] # ms[j] => Done(ns[i])
      /\ window # 0 => \/ Total(ns) <= Ceiling
                       \/ \A i \in A \ Newest(2, A) : Done(ns[i])
  <2>1. window \in Nat
    BY DEF Typed
  <2>. QED
    BY <1>3, <1>6, <2>1, CompactShape
<1>8. /\ A \in SUBSET (1 .. n + 1) /\ O \in SUBSET (1 .. n + 1)
      /\ Of("assistant", messages) \in SUBSET (1 .. n)
      /\ Of("observation", messages) \in SUBSET (1 .. n)
  BY <1>6, OfIsInRange DEF Typed
<1>. HIDE DEF n, A, O
<1>9. Typed'
  BY <1>4, <1>7 DEF Typed
<1>10. WhatComesLastIsWhole'
  <2>1. Newest(1, O) \in SUBSET {n + 1}
    <3>1. Newest(0 + 1, O) \in SUBSET (Newest(0, Of("observation", messages)) \cup {n + 1})
      BY <1>6, <1>8, NewestShift
    <3>2. Newest(0, Of("observation", messages)) = {}
      <4>1. ASSUME NEW i \in Newest(0, Of("observation", messages))
            PROVE  FALSE
        <5>1. Cardinality(After(Of("observation", messages), i)) \in Nat
          BY <1>6, <1>8, AfterIsFinite
        <5>2. Cardinality(After(Of("observation", messages), i)) < 0
          BY DEF Newest, After
        <5>. QED
          BY <5>1, <5>2
      <4>. QED
        BY <4>1
    <3>. QED
      BY <3>1, <3>2
  <2>2. \A i \in Newest(1, O) : ~ ns[i].cut
    BY <1>5, <1>6, <1>7, <2>1
  <2>3. Newest(2, A) \in SUBSET (1 .. n) /\ Whole(Newest(2, A))
    BY <1>6, <1>8 DEF Newest, WhatComesLastIsWhole, LastTwoTurns
  <2>4. \A i \in Newest(2, A) : ~ ns[i].cut
    BY <1>6, <1>7, <2>3 DEF Whole
  <2>5. Of("observation", ns) = O /\ Of("assistant", ns) = A
    BY <1>7 DEF O, A
  <2>. QED
    BY <1>4, <2>2, <2>4, <2>5 DEF WhatComesLastIsWhole, LastTwoTurns, Whole
<1>11. CutOldestFirst'
  <2>. SUFFICES ASSUME NEW role \in {"observation", "assistant"},
                       NEW i \in Of(role, messages'), NEW j \in Of(role, messages'),
                       i < j, messages'[j].cut
                PROVE  Done(messages'[i])
    BY DEF CutOldestFirst, Done
  <2>1. i \in Of(role, ms) /\ j \in Of(role, ms) /\ i \in 1 .. n + 1 /\ j \in 1 .. n + 1
    BY <1>4, <1>7, <1>8 DEF O, A
  <2>2. CASE ns[j] # ms[j]
    <3>1. i <= j
      BY <1>6, <2>1
    <3>. QED
      BY <1>4, <1>7, <2>1, <2>2, <3>1
  <2>3. CASE ns[j] = ms[j]
    <3>1. ms[j].cut
      BY <1>4, <2>3
    <3>2. j # n + 1
      BY <1>5, <1>6, <3>1
    <3>3. i \in 1 .. n /\ j \in 1 .. n
      BY <1>6, <2>1, <3>2
    <3>4. i \in Of(role, messages) /\ j \in Of(role, messages)
      BY <1>6, <2>1, <3>2, <3>3 DEF O, A
    <3>5. Done(messages[i])
      BY <1>6, <3>1, <3>3, <3>4 DEF CutOldestFirst, Done
    <3>6. Done(ms[i]) /\ i \in 1 .. Len(ms)
      BY <1>6, <2>1, <3>3, <3>5
    <3>7. ns[i] = ms[i]
      BY <1>7, <3>6
    <3>. QED
      BY <1>4, <3>6, <3>7
  <2>. QED
    BY <2>2, <2>3
<1>12. PromptFits'
  <2>. SUFFICES ASSUME window > 0
                PROVE  LET W == {i \in O : ~ ns[i].cut /\ ns[i].chars > StubChars}
                       IN  /\ W \subseteq Newest(1, O) \/ Cost(W, ns) <= History
                           /\ \/ Total(ns) <= Ceiling
                              \/ \A i \in A \ Newest(2, A) : Done(ns[i])
    <3>1. Of("observation", ns) = O /\ Of("assistant", ns) = A
      BY <1>7 DEF O, A
    <3>2. History' = History /\ Ceiling' = Ceiling
      BY <1>4 DEF History, Ceiling, MaxReply
    <3>. QED
      BY <1>4, <3>1, <3>2 DEF PromptFits, LastTwoTurns, Done
  <2>. DEFINE W == {i \in O : ~ ns[i].cut /\ ns[i].chars > StubChars}
  <2>1. window # 0 /\ History > 0 /\ History \in Int
    BY WindowIsDivided DEF Typed
  <2>2. ASSUME NEW i \in W
        PROVE  i \notin Stale(ms) /\ ns[i] = ms[i]
    <3>1. ns[i] \in Messages /\ i \in O
      BY <1>6, <1>7, <1>8
    <3>2. ~ Done(ns[i])
      <4>1. ns[i].chars \in Nat /\ ~ ns[i].cut /\ ns[i].chars > StubChars
        BY <3>1 DEF Messages
      <4>. QED
        BY <4>1 DEF Done, StubChars
    <3>. QED
      BY <1>7, <3>1, <3>2
  <2>3. W \in SUBSET Of("observation", ms)
    BY DEF O
  <2>. HIDE DEF W
  <2>4. W \subseteq Newest(1, O) \/ Cost(W, ns) <= History
    BY <1>6, <1>7, <2>1, <2>2, <2>3, NotStaleFits DEF O
  <2>. QED
    BY <1>7, <2>1, <2>4 DEF W
<1>. QED
  BY <1>9, <1>10, <1>11, <1>12

LEMMA TalkGoesOn == TalkInv /\ [Next]_vars => TalkInv'
<1>. SUFFICES ASSUME TalkInv, [Next]_vars PROVE TalkInv'
  OBVIOUS
<1>1. CASE Reply
  BY <1>1, ReplyKeeps
<1>2. CASE ShowResult
  <2>1. PICK r \in Results : Observe(ResultChars(r))
    BY <1>2 DEF ShowResult
  <2>2. ResultChars(r) \in Nat
    BY ResultsHaveLength DEF TalkInv
  <2>. QED
    BY <2>1, <2>2, ObserveKeeps
<1>3. CASE Complain
  <2>1. PICK k \in NoteSizes : Observe(k)
    BY <1>3 DEF Complain
  <2>2. k \in Nat
    BY ConversationAssumption
  <2>. QED
    BY <2>1, <2>2, ObserveKeeps
<1>4. CASE Finish \/ GiveUp \/ UNCHANGED vars
  <2>1. window' = window /\ messages' = messages /\ (pc' = "ask" => pc = "ask")
    BY <1>4 DEF Finish, GiveUp, vars
  <2>2. Typed' /\ WhatComesLastIsWhole' /\ CutOldestFirst'
    BY <2>1 DEF TalkInv, Typed, WhatComesLastIsWhole, CutOldestFirst, Whole, LastTwoTurns
  <2>3. PromptFits'
    BY <2>1 DEF TalkInv, PromptFits, History, Ceiling, MaxReply, LastTwoTurns
  <2>. QED
    BY <2>2, <2>3 DEF TalkInv
<1>. QED
  BY <1>1, <1>2, <1>3, <1>4 DEF Next

THEOREM TalkIsSound == Spec => []TalkInv
BY TalkBegins, TalkGoesOn, PTL DEF Spec
---------------------------------------------------------------------------------
(* What follows.                                                                 *)

\* WhatComesLastIsWhole: whatever is trimmed, the model is shown in full what it has
\* to answer to, and its own last two turns.
COROLLARY LastIsWhole == Spec => []WhatComesLastIsWhole
<1>1. TalkInv => WhatComesLastIsWhole
  BY DEF TalkInv
<1>. QED
  BY <1>1, TalkIsSound, PTL

\* CutOldestFirst: of two results, or of two turns, the older is never shown in full
\* where the newer was cut.
COROLLARY OldestGoesFirst == Spec => []CutOldestFirst
<1>1. TalkInv => CutOldestFirst
  BY DEF TalkInv
<1>. QED
  BY <1>1, TalkIsSound, PTL

\* PromptFits: a request keeps to the budget for results, and to the ceiling unless
\* there is nothing left that may be cut.
COROLLARY RequestsFit == Spec => []PromptFits
<1>1. TalkInv => PromptFits
  BY DEF TalkInv
<1>. QED
  BY <1>1, TalkIsSound, PTL

---------------------------------------------------------------------------------
(* One request to the gateway.                                                   *)

\* Every wait cost the floor at least.
WaitsCost == waits * MinPause <= waited

\* Every turn taken was one fix, one wait or one unreadable reply, and what was
\* dropped had been named.
RetryInv ==
  /\ TypeOK
  /\ BudgetDecides
  /\ OnlyRefusedDropped
  /\ outcome = "sending" => tries = Cardinality(fixed) + waits + garbled
  /\ WaitsCost

---------------------------------------------------------------------------------
\* One more element adds at most one.
LEMMA AddOne ==
  ASSUME NEW S, NEW x, IsFiniteSet(S), Cardinality(S) \in Nat
  PROVE  /\ IsFiniteSet(S \cup {x})
         /\ Cardinality(S \cup {x}) \in Nat
         /\ Cardinality(S \cup {x}) <= Cardinality(S) + 1
<1>1. /\ IsFiniteSet(S \cup {x})
      /\ Cardinality(S \cup {x}) = IF x \in S THEN Cardinality(S) ELSE Cardinality(S) + 1
  BY FS_AddElement
<1>. QED
  BY <1>1

\* There are seven fixes, so no more than seven can have been made.
LEMMA SevenFixes ==
  ASSUME NEW S \in SUBSET (Adjustable \cup {"unloaded"})
  PROVE  IsFiniteSet(S) /\ Cardinality(S) \in Nat /\ Cardinality(S) <= 7
<1> DEFINE A == {} \cup {"max_tokens"}
           B == A \cup {"usage"}
           C == B \cup {"reasoning"}
           D == C \cup {"temperature"}
           E == D \cup {"top_p"}
           F == E \cup {"stream_options"}
           G == F \cup {"unloaded"}
<1>0. S \subseteq G
  BY DEF Adjustable, Extras, TopLevel
<1>1. IsFiniteSet({}) /\ Cardinality({}) \in Nat /\ Cardinality({}) = 0
  BY FS_EmptySet
<1>2. IsFiniteSet(A) /\ Cardinality(A) \in Nat /\ Cardinality(A) <= Cardinality({}) + 1
  BY <1>1, AddOne, Zenon
<1>3. IsFiniteSet(B) /\ Cardinality(B) \in Nat /\ Cardinality(B) <= Cardinality(A) + 1
  BY <1>2, AddOne, Zenon
<1>4. IsFiniteSet(C) /\ Cardinality(C) \in Nat /\ Cardinality(C) <= Cardinality(B) + 1
  BY <1>3, AddOne, Zenon
<1>5. IsFiniteSet(D) /\ Cardinality(D) \in Nat /\ Cardinality(D) <= Cardinality(C) + 1
  BY <1>4, AddOne, Zenon
<1>6. IsFiniteSet(E) /\ Cardinality(E) \in Nat /\ Cardinality(E) <= Cardinality(D) + 1
  BY <1>5, AddOne, Zenon
<1>7. IsFiniteSet(F) /\ Cardinality(F) \in Nat /\ Cardinality(F) <= Cardinality(E) + 1
  BY <1>6, AddOne, Zenon
<1>8. IsFiniteSet(G) /\ Cardinality(G) \in Nat /\ Cardinality(G) <= Cardinality(F) + 1
  BY <1>7, AddOne, Zenon
<1> HIDE DEF A, B, C, D, E, F, G
<1>9. Cardinality(G) <= 7
  BY <1>1, <1>2, <1>3, <1>4, <1>5, <1>6, <1>7, <1>8
<1>10. IsFiniteSet(S) /\ Cardinality(S) <= Cardinality(G)
  BY <1>0, <1>8, FS_Subset
<1>11. Cardinality(S) \in Nat
  BY <1>10, FS_CardinalityType
<1>. QED
  BY <1>8, <1>9, <1>10, <1>11

\* A budget pays for no more waits than the floor goes into it.
LEMMA WaitsPaidFor ==
  ASSUME NEW b \in Nat, NEW m \in Nat \ {0}, NEW w \in Nat, w * m <= b
  PROVE  w <= b \div m /\ b \div m \in Nat
  BY SMTT(30)

\* Every wait is at least the floor.
LEMMA PausesAboveFloor ==
  ASSUME NEW n \in Nat, NEW pause \in Pauses(n)
  PROVE  pause \in Nat /\ pause >= MinPause
<1>1. Scheduled(n) \in Nat
  BY RetryAssumption DEF Scheduled
<1>2. PICK asked \in RetryAfters \cup {Scheduled(n)} :
        pause = IF asked >= MinPause THEN asked ELSE MinPause
  BY DEF Pauses
<1>. QED
  BY <1>1, <1>2, RetryAssumption

\* MostTurns left whenever the request is still being sent.
LEMMA TurnLeft ==
  ASSUME RetryInv
  PROVE  LoopNeverRunsOut
<1> SUFFICES ASSUME outcome = "sending"
             PROVE  tries < MostTurns
  BY DEF LoopNeverRunsOut
<1>1. Cardinality(fixed) \in Nat /\ Cardinality(fixed) <= 7
  BY SevenFixes DEF RetryInv, TypeOK
<1>2. /\ waits \in Nat /\ waited \in Nat /\ garbled \in 0 .. MaxGarbled
      /\ waits * MinPause <= waited /\ waited <= Budget
      /\ tries = Cardinality(fixed) + waits + garbled
  BY DEF RetryInv, TypeOK, BudgetDecides, WaitsCost
<1>3. waits * MinPause \in Nat /\ waits * MinPause <= Budget
  BY <1>2, RetryAssumption
<1>4. waits <= Budget \div MinPause /\ Budget \div MinPause \in Nat
  <2>1. Budget \in Nat /\ MinPause \in Nat \ {0}
    BY RetryAssumption
  <2>. QED
    BY <1>2, <1>3, <2>1, WaitsPaidFor
<1>. QED
  BY <1>1, <1>2, <1>4, RetryAssumption DEF MostTurns, RateLimitAttempts

---------------------------------------------------------------------------------
\* The invariant holds before the first request.
LEMMA RetryAtStart == RequestInit => RetryInv
<1> SUFFICES ASSUME RequestInit
             PROVE  RetryInv
  OBVIOUS
<1>1. TypeOK
  <2>1. MostTurns \in Nat
    BY RetryAssumption, WaitsPaidFor DEF MostTurns, RateLimitAttempts
  <2>. QED
    BY <2>1, RetryAssumption DEF RequestInit, TypeOK, Outcomes
<1>2. Cardinality(fixed) = 0
  BY FS_EmptySet DEF RequestInit
<1>. QED
  BY <1>1, <1>2, RetryAssumption DEF RequestInit, RetryInv, BudgetDecides, OnlyRefusedDropped,
     WaitsCost

\* One more turn stays within the bound, and keeps the request's first parameters.
LEMMA SendKeeps ==
  ASSUME RetryInv, Send
  PROVE  tries' = tries + 1 /\ tries' \in 0 .. MostTurns /\ sent' = sent /\ outcome = "sending"
<1>1. MostTurns \in Nat
  BY RetryAssumption, WaitsPaidFor DEF MostTurns, RateLimitAttempts
<1>. QED
  BY <1>1 DEF RetryInv, TypeOK, Send

\* Every turn of the loop keeps it.
LEMMA RetryStep ==
  ASSUME RetryInv, [RequestNext]_requestVars
  PROVE  RetryInv'
<1> USE RetryAssumption DEF RetryInv, TypeOK, BudgetDecides, OnlyRefusedDropped, Outcomes
<1>0. waits' = waits /\ waited' = waited => WaitsCost'
  BY DEF WaitsCost
<1>f. IsFiniteSet(fixed) /\ Cardinality(fixed) \in Nat
  BY SevenFixes
<1>1. CASE Replied
  BY <1>0, <1>1, SendKeeps DEF Replied, End
<1>2. CASE Fails
  BY <1>0, <1>2, SendKeeps DEF Fails, End
<1>3. ASSUME NEW pause \in Pauses(waits), WaitOut(pause)
      PROVE  RetryInv'
  <2>1. pause \in Nat /\ pause >= MinPause
    BY PausesAboveFloor
  <2>2. waited + pause <= Budget
    BY <1>3, <2>1 DEF WaitOut, FitsBudget
  <2>3. /\ tries' = tries + 1 /\ tries' \in 0 .. MostTurns /\ sent' = sent /\ outcome = "sending"
        /\ waits' = waits + 1 /\ waited' = waited + pause
        /\ UNCHANGED <<params, named, fixed, garbled, wanted, outcome>>
    BY <1>3, SendKeeps DEF WaitOut
  <2>4. WaitsCost'
    <3>1. (waits + 1) * MinPause = waits * MinPause + MinPause /\ waits * MinPause \in Nat
      OBVIOUS
    <3>. QED
      BY <2>1, <2>3, <3>1 DEF WaitsCost
  <2>5. tries' = Cardinality(fixed) + waits' + garbled
    BY <1>f, <2>3
  <2>. QED
    BY <2>1, <2>2, <2>3, <2>4, <2>5
<1>4. ASSUME NEW pause \in Pauses(waits), GiveUpWaiting(pause)
      PROVE  RetryInv'
  <2>1. pause \in Nat /\ pause >= MinPause
    BY PausesAboveFloor
  <2>2. waited + pause > Budget
    BY <1>4, <2>1 DEF GiveUpWaiting, FitsBudget
  <2>. QED
    BY <1>0, <1>4, <2>1, <2>2, SendKeeps DEF GiveUpWaiting, End
<1>5. CASE Reload
  <2>1. "unloaded" \notin fixed
    BY <1>5 DEF Reload
  <2>2. Cardinality(fixed \cup {"unloaded"}) = Cardinality(fixed) + 1
    BY <1>f, <2>1, FS_AddElement
  <2>3. /\ tries' = tries + 1 /\ tries' \in 0 .. MostTurns /\ sent' = sent /\ outcome = "sending"
        /\ fixed' = fixed \cup {"unloaded"}
        /\ UNCHANGED <<params, named, waits, waited, garbled, wanted, outcome>>
    BY <1>5, SendKeeps DEF Reload
  <2>4. tries' = Cardinality(fixed') + waits + garbled
    BY <1>f, <2>2, <2>3
  <2>. QED
    BY <1>0, <2>3, <2>4
<1>6. ASSUME NEW mentioned \in Complaints, NEW p \in Adjustable, Adjust(mentioned, p)
      PROVE  RetryInv'
  <2>1. p \notin fixed /\ p \in mentioned /\ mentioned \subseteq Adjustable
    BY <1>6 DEF Adjust, Adjustments
  <2>2. Cardinality(fixed \cup {p}) = Cardinality(fixed) + 1
    BY <1>f, <2>1, FS_AddElement
  <2>3. /\ tries' = tries + 1 /\ tries' \in 0 .. MostTurns /\ sent' = sent /\ outcome = "sending"
        /\ fixed' = fixed \cup {p} /\ named' = named \cup mentioned /\ params' = params \ {p}
        /\ UNCHANGED <<waits, waited, garbled, wanted, outcome>>
    BY <1>6, SendKeeps DEF Adjust, Fixing
  <2>4. tries' = Cardinality(fixed') + waits + garbled
    BY <1>f, <2>2, <2>3
  <2>5. params' \subseteq sent' /\ named' \subseteq Adjustable /\ sent' \ params' \subseteq named'
    BY <2>1, <2>3
  <2>. QED
    BY <1>0, <2>3, <2>4, <2>5
<1>7. ASSUME NEW mentioned \in Complaints, Refused(mentioned)
      PROVE  RetryInv'
  BY <1>0, <1>7, SendKeeps DEF Refused, End
<1>8. CASE AskAgain
  BY <1>0, <1>8, <1>f, SendKeeps DEF AskAgain
<1>9. CASE GiveUpReading
  BY <1>0, <1>9, SendKeeps DEF GiveUpReading, End
<1>10. CASE UNCHANGED requestVars
  BY <1>0, <1>10 DEF requestVars
<1>. QED
  BY <1>1, <1>2, <1>3, <1>4, <1>5, <1>6, <1>7, <1>8, <1>9, <1>10 DEF RequestNext, Over

\* Whatever the gateway answers, the loop's bound is not what ends a request; the budget
\* alone decides how long it waits; and it loses only what was complained about.
THEOREM RetryKeepsItsBounds ==
  RequestSpec => [](TypeOK /\ LoopNeverRunsOut /\ BudgetDecides /\ OnlyRefusedDropped)
<1>1. RetryInv /\ [RequestNext]_requestVars => RetryInv'
  BY RetryStep
<1>2. RetryInv => TypeOK /\ LoopNeverRunsOut /\ BudgetDecides /\ OnlyRefusedDropped
  BY TurnLeft DEF RetryInv
<1>. QED
  BY RetryAtStart, <1>1, <1>2, PTL DEF RequestSpec

\* Every variable of a request keeps its type, and every counter its bound.
COROLLARY RequestTypeCorrect == RequestSpec => []TypeOK
BY RetryKeepsItsBounds, PTL

\* A request waits within its budget, and is given up for the budget alone.
COROLLARY BudgetAlone == RequestSpec => []BudgetDecides
BY RetryKeepsItsBounds, PTL

\* What a request loses on the way, a reply complained about.
COROLLARY OnlyNamedGo == RequestSpec => []OnlyRefusedDropped
BY RetryKeepsItsBounds, PTL
===============================================================================
