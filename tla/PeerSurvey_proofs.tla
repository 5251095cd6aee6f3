--------------------------- MODULE PeerSurvey_proofs ---------------------------
(***************************************************************************)
(* Proofs about PeerSurvey, for any number of servers, any reports of      *)
(* theirs, any network and any number of candidates.                       *)
(***************************************************************************)
EXTENDS PeerSurvey, FiniteSetTheorems, WellFoundedInduction, SequenceTheorems, TLAPS

-----------------------------------------------------------------------------
(***************************************************************************)
(* The first members of a set in the order of some numbers of theirs.      *)
(***************************************************************************)

LEMMA LeastExists ==
  ASSUME NEW T \in SUBSET Nat, T # {}
  PROVE  \E x \in T : \A y \in T : x <= y
<1>1. \E x \in T : \A y \in T : ~ (<<y, x>> \in OpToRel(<, Nat))
  BY NatLessThanWellFounded, WFMin
<1>2. \A x, y \in Nat : <<y, x>> \in OpToRel(<, Nat) <=> y < x
  BY DEF OpToRel
<1>3. PICK x \in T : \A y \in T : ~ (<<y, x>> \in OpToRel(<, Nat))
  BY <1>1
<1>4. ASSUME NEW y \in T
      PROVE  x <= y
  <2>1. x \in Nat /\ y \in Nat /\ ~ (y < x)
    BY <1>2, <1>3
  <2>. QED
    BY <2>1
<1>. QED
  BY <1>4

LEMMA MinIsLeast ==
  ASSUME NEW T \in SUBSET Nat, T # {}
  PROVE  Min(T) \in T /\ \A y \in T : Min(T) <= y
BY LeastExists DEF Min

\* What comes before a member, and the members with fewer than k before them.
Lower(O, f, a) == {b \in O : f[b] < f[a]}
TheFirst(O, f, k) == {a \in O : Cardinality(Lower(O, f, a)) < k}

Distinct(O, f) == \A a, b \in O : f[a] = f[b] => a = b

LEMMA LowerIsFinite ==
  ASSUME NEW O, IsFiniteSet(O), NEW f, NEW a
  PROVE  IsFiniteSet(Lower(O, f, a)) /\ Cardinality(Lower(O, f, a)) \in Nat
<1>1. Lower(O, f, a) \in SUBSET O
  BY DEF Lower
<1>2. IsFiniteSet(Lower(O, f, a))
  BY <1>1, FS_Subset
<1>. QED
  BY <1>2, FS_CardinalityType

\* More comes before what comes later.
LEMMA LowerGrows ==
  ASSUME NEW O, IsFiniteSet(O), NEW f \in [O -> Nat], NEW a \in O, NEW b \in O, f[a] < f[b]
  PROVE  Cardinality(Lower(O, f, a)) + 1 <= Cardinality(Lower(O, f, b))
<1>1. f[a] \in Nat /\ f[b] \in Nat /\ \A x \in O : f[x] \in Nat
  OBVIOUS
<1>2. Lower(O, f, a) \cup {a} \in SUBSET Lower(O, f, b)
  <2>1. ASSUME NEW x \in Lower(O, f, a)
        PROVE  x \in O /\ f[x] < f[b]
    <3>1. x \in O /\ f[x] < f[a]
      BY DEF Lower
    <3>. QED
      BY <1>1, <3>1
  <2>. QED
    BY <2>1 DEF Lower
<1>3. a \notin Lower(O, f, a)
  BY <1>1 DEF Lower
<1>4. Cardinality(Lower(O, f, a) \cup {a}) = Cardinality(Lower(O, f, a)) + 1
  BY <1>3, LowerIsFinite, FS_AddElement
<1>5. Cardinality(Lower(O, f, a) \cup {a}) <= Cardinality(Lower(O, f, b))
  BY <1>2, LowerIsFinite, FS_Subset
<1>. QED
  BY <1>4, <1>5

LEMMA FirstsAreFew ==
  ASSUME NEW O, IsFiniteSet(O), NEW f \in [O -> Nat], Distinct(O, f), NEW k \in Nat
  PROVE  IsFiniteSet(TheFirst(O, f, k)) /\ Cardinality(TheFirst(O, f, k)) <= k
<1>. DEFINE F == TheFirst(O, f, k)
            rank == [a \in F |-> Cardinality(Lower(O, f, a)) + 1]
<1>1. \A a \in F : a \in O /\ Cardinality(Lower(O, f, a)) \in Nat /\ Cardinality(Lower(O, f, a)) < k
  BY LowerIsFinite DEF TheFirst
<1>2. \A a \in F : rank[a] = Cardinality(Lower(O, f, a)) + 1
  OBVIOUS
<1>3. \A a \in F : rank[a] \in 1 .. k
  BY <1>1, <1>2
<1>4. rank \in [F -> 1 .. k]
  BY <1>3
<1>5. ASSUME NEW a \in F, NEW b \in F, rank[a] = rank[b]
      PROVE  a = b
  <2>1. f[a] \in Nat /\ f[b] \in Nat /\ a \in O /\ b \in O
    BY <1>1
  <2>2. Cardinality(Lower(O, f, a)) = Cardinality(Lower(O, f, b))
    BY <1>1, <1>2, <1>5
  <2>3. ~ (f[a] < f[b]) /\ ~ (f[b] < f[a])
    BY <1>1, <2>1, <2>2, LowerGrows
  <2>. QED
    BY <2>1, <2>3 DEF Distinct
<1>6. rank \in Injection(F, 1 .. k)
  <2>. HIDE DEF rank, F
  <2>. QED
    BY <1>4, <1>5 DEF Injection, IsInjective
<1>7. IsFiniteSet(1 .. k) /\ Cardinality(1 .. k) = k
  BY FS_Interval
<1>8. IsFiniteSet(F) /\ Cardinality(F) <= Cardinality(1 .. k)
  <2>. HIDE DEF rank, F
  <2>. QED
    BY <1>6, <1>7, FS_Injection
<1>. QED
  BY <1>7, <1>8

\* One of the firsts may be put in front of all without anything falling out.
LEMMA FirstsStay ==
  ASSUME NEW O, IsFiniteSet(O), NEW f \in [O -> Nat], Distinct(O, f), NEW k \in Nat,
         NEW c \in TheFirst(O, f, k), NEW g \in [O -> Nat], g[c] = 0,
         \A a \in O : a # c => g[a] = f[a] /\ g[a] > 0
  PROVE  TheFirst(O, g, k) = TheFirst(O, f, k)
<1>1. c \in O /\ Cardinality(Lower(O, f, c)) < k
  BY DEF TheFirst
<1>2. \A a \in O : f[a] \in Nat /\ g[a] \in Nat
  OBVIOUS
<1>3. ASSUME NEW a \in O
      PROVE  Cardinality(Lower(O, g, a)) < k <=> Cardinality(Lower(O, f, a)) < k
  <2>1. Cardinality(Lower(O, f, a)) \in Nat /\ Cardinality(Lower(O, g, a)) \in Nat
    BY LowerIsFinite
  <2>2. CASE a = c
    <3>1. Lower(O, g, a) = {}
      BY <1>2, <2>2 DEF Lower
    <3>2. Cardinality(Lower(O, g, a)) = 0
      BY <3>1, FS_EmptySet
    <3>3. 0 < k
      BY <1>1, <2>1, <2>2
    <3>. QED
      BY <1>1, <2>2, <3>2, <3>3
  <2>3. CASE a # c
    <3>1. Lower(O, g, a) = Lower(O, f, a) \cup {c}
      <4>1. ASSUME NEW b \in O, b # c
            PROVE  g[b] < g[a] <=> f[b] < f[a]
        BY <2>3, <4>1
      <4>2. g[c] < g[a]
        BY <1>2, <2>3
      <4>. QED
        BY <1>1, <4>1, <4>2 DEF Lower
    <3>2. CASE f[c] < f[a]
      <4>1. Lower(O, g, a) = Lower(O, f, a)
        BY <1>1, <3>1, <3>2 DEF Lower
      <4>. QED
        BY <4>1
    <3>3. CASE ~ (f[c] < f[a])
      <4>1. f[a] < f[c]
        BY <1>1, <1>2, <2>3, <3>3 DEF Distinct
      <4>2. Cardinality(Lower(O, f, a)) + 1 <= Cardinality(Lower(O, f, c))
        BY <1>1, <4>1, LowerGrows
      <4>3. c \notin Lower(O, f, a)
        BY <3>3 DEF Lower
      <4>4. Cardinality(Lower(O, g, a)) = Cardinality(Lower(O, f, a)) + 1
        <5>1. IsFiniteSet(Lower(O, f, a))
          BY LowerIsFinite
        <5>2. Cardinality(Lower(O, f, a) \cup {c}) = Cardinality(Lower(O, f, a)) + 1
          BY <4>3, <5>1, FS_AddElement
        <5>. QED
          BY <3>1, <5>2
      <4>5. Cardinality(Lower(O, f, c)) \in Nat
        BY LowerIsFinite
      <4>. QED
        BY <1>1, <2>1, <4>2, <4>4, <4>5
    <3>. QED
      BY <3>2, <3>3
  <2>. QED
    BY <2>2, <2>3
<1>. QED
  BY <1>3 DEF TheFirst

-----------------------------------------------------------------------------
(***************************************************************************)
(* The order of the addresses of a server.                                 *)
(***************************************************************************)

Laid ==
  /\ reported \in [Servers -> Seq([iface : STRING, at : Addresses])]
  /\ reach \in [Servers -> SUBSET Addresses]

\* Where an address stands before any of the server's was confirmed.
Mentions(s, a) ==
  {i \in Found(s) \ Beside(s) : reported[s][i].at = a} \cup
  {Len(reported[s]) + i : i \in {j \in Beside(s) : reported[s][j].at = a}}
Order(s)  == [a \in Offered(s) |-> Min(Mentions(s, a))]
Base(s)   == TheFirst(Offered(s), Order(s), PeerCandidates)

LEMMA FoundFacts ==
  ASSUME SurveyAssumption, Laid, NEW s \in Servers
  PROVE  /\ Len(reported[s]) \in Nat
         /\ Found(s) \in SUBSET (1 .. Len(reported[s]))
         /\ Beside(s) \in SUBSET Found(s)
         /\ \A i \in Found(s) : reported[s][i].at \in Addresses
<1>1. reported[s] \in Seq([iface : STRING, at : Addresses])
  BY DEF Laid
<1>2. Len(reported[s]) \in Nat /\ DOMAIN reported[s] = 1 .. Len(reported[s])
  BY <1>1
<1>3. ASSUME NEW i \in 1 .. Len(reported[s])
      PROVE  reported[s][i].at \in Addresses
  <2>1. reported[s][i] \in [iface : STRING, at : Addresses]
    BY <1>1, ElementOfSeq
  <2>. QED
    BY <2>1
<1>. QED
  BY <1>2, <1>3 DEF Found, Beside

\* Two addresses are never mentioned at the same place.
LEMMA OrderFacts ==
  ASSUME SurveyAssumption, Laid, NEW s \in Servers
  PROVE  /\ IsFiniteSet(Offered(s))
         /\ Offered(s) \in SUBSET Addresses
         /\ Order(s) \in [Offered(s) -> Nat]
         /\ \A a \in Offered(s) : Order(s)[a] = Min(Mentions(s, a)) /\ Order(s)[a] > 0
         /\ Distinct(Offered(s), Order(s))
<1>. DEFINE n == Len(reported[s])
            at == [i \in Found(s) |-> reported[s][i].at]
<1>1. n \in Nat /\ Found(s) \in SUBSET (1 .. n) /\ Beside(s) \in SUBSET Found(s)
  BY FoundFacts
<1>2. IsFiniteSet(Offered(s))
  <2>1. IsFiniteSet(Found(s))
    <3>1. IsFiniteSet(1 .. n)
      BY <1>1, FS_Interval
    <3>. HIDE DEF n
    <3>. QED
      BY <1>1, <3>1, FS_Subset
  <2>2. at \in Surjection(Found(s), Offered(s))
    BY DEF Surjection, Offered
  <2>. HIDE DEF at
  <2>. QED
    BY <2>1, <2>2, FS_Surjection
<1>3. Offered(s) \in SUBSET Addresses
  BY FoundFacts DEF Offered
<1>4. ASSUME NEW a \in Offered(s)
      PROVE  /\ Mentions(s, a) # {}
             /\ \A m \in Mentions(s, a) : m \in Nat /\ m > 0
  <2>1. PICK i \in Found(s) : reported[s][i].at = a
    BY DEF Offered
  <2>2. i \in Mentions(s, a) \/ n + i \in Mentions(s, a)
    BY <2>1 DEF Mentions
  <2>3. ASSUME NEW m \in Mentions(s, a)
        PROVE  m \in Nat /\ m > 0
    <3>1. m \in Found(s) \/ \E j \in Found(s) : m = n + j
      BY <1>1 DEF Mentions
    <3>. HIDE DEF n
    <3>. QED
      BY <1>1, <3>1
  <2>. QED
    BY <2>2, <2>3
<1>5. ASSUME NEW a \in Offered(s)
      PROVE  Min(Mentions(s, a)) \in Mentions(s, a) /\ Min(Mentions(s, a)) \in Nat
             /\ Min(Mentions(s, a)) > 0
  <2>1. Mentions(s, a) \in SUBSET Nat
    BY <1>4
  <2>2. Min(Mentions(s, a)) \in Mentions(s, a)
    BY <1>4, <2>1, MinIsLeast
  <2>. QED
    BY <1>4, <2>2
<1>6. \A a \in Offered(s) : Order(s)[a] = Min(Mentions(s, a))
  BY DEF Order
<1>7. Order(s) \in [Offered(s) -> Nat]
  BY <1>5 DEF Order
<1>8. ASSUME NEW a \in Offered(s), NEW b \in Offered(s), NEW m, m \in Mentions(s, a), m \in Mentions(s, b)
      PROVE  a = b
  <2>1. \/ m \in Found(s) \ Beside(s) /\ reported[s][m].at = a
        \/ \E j \in Found(s) : m = n + j /\ reported[s][j].at = a
    BY <1>1, <1>8 DEF Mentions
  <2>2. \/ m \in Found(s) \ Beside(s) /\ reported[s][m].at = b
        \/ \E j \in Found(s) : m = n + j /\ reported[s][j].at = b
    BY <1>1, <1>8 DEF Mentions
  <2>3. \A i, j \in Found(s) : i # n + j
    <3>. HIDE DEF n
    <3>. QED
      BY <1>1
  <2>4. \A i, j \in Found(s) : n + i = n + j => i = j
    <3>. HIDE DEF n
    <3>. QED
      BY <1>1
  <2>. HIDE DEF n
  <2>. QED
    BY <2>1, <2>2, <2>3, <2>4
<1>9. Distinct(Offered(s), Order(s))
  <2>1. ASSUME NEW a \in Offered(s), NEW b \in Offered(s), Order(s)[a] = Order(s)[b]
        PROVE  a = b
    BY <1>5, <1>6, <1>8, <2>1
  <2>. QED
    BY <2>1 DEF Distinct
<1>. QED
  BY <1>2, <1>3, <1>5, <1>6, <1>7, <1>9

LEMMA BaseFacts ==
  ASSUME SurveyAssumption, Laid, NEW s \in Servers
  PROVE  /\ Base(s) \in SUBSET Offered(s)
         /\ Base(s) \in SUBSET Addresses
         /\ IsFiniteSet(Base(s))
         /\ Cardinality(Base(s)) <= PeerCandidates
<1>1. PeerCandidates \in Nat
  BY DEF SurveyAssumption
<1>2. IsFiniteSet(Base(s)) /\ Cardinality(Base(s)) <= PeerCandidates
  BY <1>1, OrderFacts, FirstsAreFew DEF Base
<1>3. Base(s) \in SUBSET Offered(s)
  BY DEF Base, TheFirst
<1>. QED
  BY <1>2, <1>3, OrderFacts

\* The order of the moment, when what was confirmed is one of the addresses or none is.
LEMMA PlaceFacts ==
  ASSUME SurveyAssumption, Laid, NEW s \in Servers, NEW conf
  PROVE  \A a \in Offered(s) :
           /\ a = conf[s] => Place(s, conf, a) = 0
           /\ a # conf[s] => Place(s, conf, a) = Order(s)[a] /\ Place(s, conf, a) > 0
           /\ Place(s, conf, a) \in Nat
<1>1. ASSUME NEW a \in Offered(s)
      PROVE  Order(s)[a] = Min(Mentions(s, a)) /\ Order(s)[a] > 0 /\ Order(s)[a] \in Nat
  BY OrderFacts
<1>2. ASSUME NEW a \in Offered(s)
      PROVE  Place(s, conf, a) = IF a = conf[s] THEN 0 ELSE Order(s)[a]
  BY <1>1 DEF Place, Mentions
<1>. QED
  BY <1>1, <1>2

LEMMA CandidatesAreBase ==
  ASSUME SurveyAssumption, Laid, NEW s \in Servers, NEW conf,
         conf[s] = None \/ conf[s] \in Base(s)
  PROVE  Candidates(s, conf) = Base(s)
<1>. DEFINE O == Offered(s)
            f == Order(s)
            g == [a \in O |-> Place(s, conf, a)]
<1>1. g \in [O -> Nat] /\ \A a \in O : g[a] = Place(s, conf, a)
  BY PlaceFacts
<1>2. \A a \in O : Ahead(s, conf, a) = Lower(O, g, a)
  BY <1>1 DEF Ahead, Lower
<1>3. Candidates(s, conf) = TheFirst(O, g, PeerCandidates)
  BY <1>2 DEF Candidates, TheFirst
<1>4. PeerCandidates \in Nat
  BY DEF SurveyAssumption
<1>5. CASE conf[s] = None
  <2>1. ASSUME NEW a \in O
        PROVE  g[a] = f[a]
    <3>1. a # conf[s]
      BY <1>5, OrderFacts DEF SurveyAssumption
    <3>. QED
      BY <1>1, <3>1, PlaceFacts
  <2>2. g = f
    BY <1>1, <2>1, OrderFacts
  <2>. QED
    BY <1>3, <2>2 DEF Base
<1>6. CASE conf[s] \in Base(s)
  <2>1. conf[s] \in TheFirst(O, f, PeerCandidates)
    BY <1>6 DEF Base
  <2>2. conf[s] \in O
    BY <1>6, BaseFacts
  <2>3. g[conf[s]] = 0
    <3>1. Place(s, conf, conf[s]) = 0
      BY <2>2, PlaceFacts
    <3>2. g[conf[s]] = Place(s, conf, conf[s])
      BY <1>1, <2>2
    <3>. QED
      BY <3>1, <3>2
  <2>4. ASSUME NEW a \in O, a # conf[s]
        PROVE  g[a] = f[a] /\ g[a] > 0
    <3>1. Place(s, conf, a) = f[a] /\ Place(s, conf, a) > 0
      BY <2>4, PlaceFacts
    <3>2. g[a] = Place(s, conf, a)
      BY <1>1
    <3>. QED
      BY <3>1, <3>2
  <2>5. IsFiniteSet(O) /\ f \in [O -> Nat] /\ Distinct(O, f)
    BY OrderFacts
  <2>. HIDE DEF O, f, g
  <2>6. TheFirst(O, g, PeerCandidates) = TheFirst(O, f, PeerCandidates)
    BY <1>1, <1>4, <2>1, <2>3, <2>4, <2>5, FirstsStay
  <2>. QED
    BY <1>3, <2>6 DEF Base, O, f
<1>. QED
  BY <1>5, <1>6

\* What is tried next is one of those left, and the confirmed one if that is among them.
LEMMA ForemostIsFirst ==
  ASSUME SurveyAssumption, Laid, NEW s \in Servers, NEW conf,
         NEW A \in SUBSET Offered(s), A # {}
  PROVE  /\ Foremost(s, conf, A) \in A
         /\ conf[s] \in A => Foremost(s, conf, A) = conf[s]
<1>. DEFINE T == {Place(s, conf, a) : a \in A}
<1>1. \A a \in A : Place(s, conf, a) \in Nat
  BY PlaceFacts
<1>2. T \in SUBSET Nat /\ T # {}
  BY <1>1
<1>3. PICK x \in T : \A y \in T : x <= y
  <2>. HIDE DEF T
  <2>. QED
    BY <1>2, LeastExists
<1>4. PICK a \in A : x = Place(s, conf, a)
  BY <1>3
<1>5. \A b \in A : Place(s, conf, a) <= Place(s, conf, b)
  BY <1>3, <1>4
<1>6. /\ Foremost(s, conf, A) \in A
      /\ \A b \in A : Place(s, conf, Foremost(s, conf, A)) <= Place(s, conf, b)
  BY <1>5 DEF Foremost
<1>7. ASSUME conf[s] \in A
      PROVE  Foremost(s, conf, A) = conf[s]
  <2>1. Place(s, conf, conf[s]) = 0
    BY <1>7, PlaceFacts
  <2>2. Place(s, conf, Foremost(s, conf, A)) <= 0
    BY <1>6, <1>7, <2>1
  <2>3. Foremost(s, conf, A) # conf[s] => Place(s, conf, Foremost(s, conf, A)) > 0
    BY <1>6, PlaceFacts
  <2>. QED
    BY <1>1, <1>6, <2>2, <2>3
<1>. QED
  BY <1>6, <1>7

-----------------------------------------------------------------------------
(***************************************************************************)
(* The invariant.                                                          *)
(***************************************************************************)

\* What one server may try on another: never what it would reach itself on.
Tryable == [s \in Servers |-> [q \in Servers |-> Base(q) \ Mine(s)]]
Bases == [s \in Servers |-> Base(s)]

Reaches == {"none", "open", "refused", "filtered", "no-route", "unknown", "dropped"}
PathType ==
  [source : 1 .. N + 1, peer : Servers, private : Addresses \cup {None}, reach : Reaches,
   public : Reaches, tried : Seq(Addresses)]

PairOf(p) == p.source \in Servers /\ p.peer \in Servers /\ p.source # p.peer

\* Every pair before the one in hand has its path.
Comes(s, q, p) == s < p.source \/ (s = p.source /\ q < p.peer)
Covered ==
  \A s, q \in Servers : s # q /\ Comes(s, q, path) =>
    \E i \in DOMAIN paths : paths[i].source = s /\ paths[i].peer = q

\* What was confirmed is one of the addresses that would be tried anyhow.
Answered(s, conf) == conf[s] = None \/ conf[s] \in Bases[s]
KnownToAnswer ==
  /\ confirmed \in [Servers -> Addresses \cup {None}]
  /\ \A s \in Servers : Answered(s, confirmed)

\* What was tried and what is left are all there is to try, none twice; the
\* confirmed one was the first of it; nothing tried so far got through.
InHand ==
  LET U == Tryable[path.source][path.peer]
  IN  /\ PairOf(path)
      /\ path.tried \in Seq(Addresses)
      /\ Range(path.tried) \cup left = U
      /\ Range(path.tried) \cap left = {}
      /\ IsFiniteSet(left) /\ Len(path.tried) + Cardinality(left) <= PeerCandidates
      /\ ~ Works(path.reach) /\ path.public = "none"
      /\ path.private # None => path.private \in Range(path.tried)
      /\ <<path.source, path.peer>> \notin blind => Range(path.tried) \cap reach[path.source] = {}
      /\ path.tried # <<>> /\ confirmed[path.peer] \in U => path.tried[1] = confirmed[path.peer]

\* A path is settled by an address that answered, or by all of them having been tried.
Settled(p, bl) ==
  LET U == Tryable[p.source][p.peer]
  IN  /\ PairOf(p)
      /\ p.tried \in Seq(Addresses)
      /\ Range(p.tried) \subseteq U
      /\ Len(p.tried) <= PeerCandidates
      /\ Works(p.reach) => /\ p.public = "none"
                           /\ p.private \in Range(p.tried) \cap reach[p.source]
      /\ ~ Works(p.reach) => /\ Range(p.tried) = U
                             /\ <<p.source, p.peer>> \notin bl =>
                                  Range(p.tried) \cap reach[p.source] = {}
      /\ p.private # None => p.private \in Range(p.tried)

\* The last path that worked says what is confirmed; those after it began with it.
FromThere(s) ==
  \E i \in DOMAIN paths :
    /\ paths[i].peer = s /\ PrivateWorks(paths[i]) /\ paths[i].private = confirmed[s]
    /\ \A j \in DOMAIN paths : j > i /\ paths[j].peer = s =>
         /\ ~ PrivateWorks(paths[j])
         /\ confirmed[s] \in Tryable[paths[j].source][s] =>
              paths[j].tried # <<>> /\ paths[j].tried[1] = confirmed[s]

SurveyInv ==
  /\ Laid
  /\ path \in PathType /\ path.source # path.peer
  /\ paths \in Seq(PathType)
  /\ KnownToAnswer
  /\ path.source <= N => InHand
  /\ \A i \in DOMAIN paths : Settled(paths[i], blind)
  /\ Covered
  /\ \A s \in Servers : confirmed[s] # None => FromThere(s)

-----------------------------------------------------------------------------
(***************************************************************************)
(* What the steps rest on.                                                 *)
(***************************************************************************)

LEMMA RangeOfAppend ==
  ASSUME NEW S, NEW q \in Seq(S), NEW e \in S
  PROVE  /\ Append(q, e) \in Seq(S)
         /\ Append(q, e) # <<>>
         /\ Len(Append(q, e)) = Len(q) + 1
         /\ Range(Append(q, e)) = Range(q) \cup {e}
         /\ Append(q, e)[1] = IF q = <<>> THEN e ELSE q[1]
<1>1. /\ Len(q) \in Nat /\ DOMAIN q = 1 .. Len(q)
      /\ Append(q, e) \in Seq(S) /\ Append(q, e) # <<>>
      /\ Len(Append(q, e)) = Len(q) + 1
      /\ DOMAIN Append(q, e) = 1 .. Len(q) + 1
  OBVIOUS
<1>2. \A i \in 1 .. Len(q) : Append(q, e)[i] = q[i]
  OBVIOUS
<1>3. Append(q, e)[Len(q) + 1] = e
  OBVIOUS
<1>4. Range(Append(q, e)) = Range(q) \cup {e}
  <2>1. ASSUME NEW x \in Range(Append(q, e))
        PROVE  x \in Range(q) \cup {e}
    <3>1. PICK i \in 1 .. Len(q) + 1 : x = Append(q, e)[i]
      BY <1>1 DEF Range
    <3>2. i \in 1 .. Len(q) \/ i = Len(q) + 1
      BY <1>1
    <3>. QED
      BY <1>1, <1>2, <1>3, <3>1, <3>2 DEF Range
  <2>2. ASSUME NEW x \in Range(q)
        PROVE  x \in Range(Append(q, e))
    <3>1. PICK i \in 1 .. Len(q) : x = q[i]
      BY <1>1 DEF Range
    <3>2. i \in 1 .. Len(q) + 1
      BY <1>1
    <3>. QED
      BY <1>1, <1>2, <3>1, <3>2 DEF Range
  <2>3. Len(q) + 1 \in 1 .. Len(q) + 1
    BY <1>1
  <2>4. e \in Range(Append(q, e))
    BY <1>1, <1>3, <2>3 DEF Range
  <2>. QED
    BY <2>1, <2>2, <2>4
<1>5. CASE q = <<>>
  <2>1. Len(q) + 1 = 1
    BY <1>5
  <2>. QED
    BY <1>1, <1>3, <1>4, <1>5, <2>1
<1>6. CASE q # <<>>
  <2>1. 1 \in 1 .. Len(q)
    BY <1>1, <1>6, EmptySeq
  <2>. QED
    BY <1>1, <1>2, <1>4, <1>6, <2>1
<1>. QED
  BY <1>5, <1>6

LEMMA TryableFacts ==
  ASSUME SurveyAssumption, Laid, NEW s \in Servers, NEW q \in Servers
  PROVE  /\ Tryable[s][q] = Base(q) \ Mine(s)
         /\ Tryable[s][q] \in SUBSET Offered(q)
         /\ Tryable[s][q] \in SUBSET Addresses
         /\ IsFiniteSet(Tryable[s][q])
         /\ Cardinality(Tryable[s][q]) <= PeerCandidates
<1>1. Tryable[s][q] = Base(q) \ Mine(s)
  BY DEF Tryable
<1>2. Tryable[s][q] \in SUBSET Base(q)
  BY <1>1
<1>3. IsFiniteSet(Base(q)) /\ Cardinality(Base(q)) <= PeerCandidates
  BY BaseFacts
<1>4. IsFiniteSet(Tryable[s][q]) /\ Cardinality(Tryable[s][q]) <= Cardinality(Base(q))
  BY <1>2, <1>3, FS_Subset
<1>5. Cardinality(Base(q)) \in Nat /\ Cardinality(Tryable[s][q]) \in Nat
  BY <1>3, <1>4, FS_CardinalityType
<1>6. PeerCandidates \in Nat
  BY DEF SurveyAssumption
<1>7. Cardinality(Tryable[s][q]) <= PeerCandidates
  BY <1>3, <1>4, <1>5, <1>6
<1>. QED
  BY <1>1, <1>2, <1>4, <1>7, BaseFacts

\* A probe that gets through was answered; one that was answered and does not
\* get through failed for reasons of its own.
LEMMA OutcomeFacts ==
  ASSUME NEW answers \in BOOLEAN, NEW o \in Outcomes(answers)
  PROVE  /\ Works(o.state) => answers
         /\ ~ Works(o.state) /\ ~ o.failed => ~ answers
<1>1. PICK f \in Firsts(answers), s \in Seconds(answers) :
        o = [state |-> ReachOf(f, s),
             failed |-> f \in {"error", "denied"} \/ (f = "silence" /\ s = "error")]
  BY DEF Outcomes
<1>2. o.state = ReachOf(f, s)
  BY <1>1
<1>3. o.failed = (f \in {"error", "denied"} \/ (f = "silence" /\ s = "error"))
  BY <1>1, Zenon
<1>4. CASE answers
  <2>1. f \in {"exit 0", "refused", "silence", "error", "denied"} /\ s \in {"ping ok", "error"}
    BY <1>4 DEF Firsts, Seconds
  <2>2. Works(ReachOf(f, s)) \/ f \in {"error", "denied"} \/ (f = "silence" /\ s = "error")
    BY <2>1 DEF Works, ReachOf
  <2>. QED
    BY <1>2, <1>3, <1>4, <2>2, Zenon
<1>5. CASE ~ answers
  <2>1. f \in {"no route", "silence", "error", "denied"} /\ s \in {"no route", "ping none", "error"}
    BY <1>5 DEF Firsts, Seconds
  <2>2. ~ Works(ReachOf(f, s))
    BY <2>1 DEF Works, ReachOf
  <2>. QED
    BY <1>2, <1>5, <2>2, Zenon
<1>. QED
  BY <1>4, <1>5

\* No pair is left out between one path and the next.
LEMMA NextIsNext ==
  ASSUME SurveyAssumption, path.source \in Servers, path.peer \in Servers,
         path.source # path.peer
  PROVE  \E s, q :
           /\ NextPath = NewPath(s, q)
           /\ s \in 1 .. N + 1 /\ q \in Servers /\ s # q
           /\ \A t, r \in Servers : t # r /\ (t < s \/ (t = s /\ r < q)) =>
                Comes(t, r, path) \/ (t = path.source /\ r = path.peer)
<1>1. PICK a : a = path.source
  OBVIOUS
<1>2. PICK b : b = path.peer
  OBVIOUS
<1>3. a \in Servers /\ b \in Servers /\ a # b /\ N \in Nat /\ N >= 2
  BY <1>1, <1>2 DEF SurveyAssumption
<1>4. \A t, r : Comes(t, r, path) <=> t < a \/ (t = a /\ r < b)
  BY <1>1, <1>2 DEF Comes
<1>5. NextPath = IF Other(a, b + 1) <= N THEN NewPath(a, Other(a, b + 1))
                 ELSE NewPath(a + 1, Other(a + 1, 1))
  BY <1>1, <1>2, Zenon DEF NextPath
<1>6. CASE Other(a, b + 1) <= N
  <2>1. Other(a, b + 1) \in Servers /\ a # Other(a, b + 1) /\ a \in 1 .. N + 1
    BY <1>3, <1>6 DEF Other, Servers
  <2>2. \A t, r \in Servers : t # r /\ (t < a \/ (t = a /\ r < Other(a, b + 1))) =>
          t < a \/ (t = a /\ r < b) \/ (t = a /\ r = b)
    BY <1>3 DEF Other, Servers
  <2>3. NextPath = NewPath(a, Other(a, b + 1))
    BY <1>5, <1>6
  <2>4. PICK s, q : s = a /\ q = Other(a, b + 1)
    OBVIOUS
  <2>5. \A t, r \in Servers : t # r /\ (t < s \/ (t = s /\ r < q)) =>
          Comes(t, r, path) \/ (t = path.source /\ r = path.peer)
    BY <1>1, <1>2, <1>4, <2>2, <2>4
  <2>6. NextPath = NewPath(s, q) /\ s \in 1 .. N + 1 /\ q \in Servers /\ s # q
    BY <2>1, <2>3, <2>4
  <2>. QED
    BY <2>5, <2>6
<1>7. CASE ~ (Other(a, b + 1) <= N)
  <2>1. Other(a + 1, 1) \in Servers /\ a + 1 # Other(a + 1, 1) /\ a + 1 \in 1 .. N + 1
    BY <1>3 DEF Other, Servers
  <2>2. \A t, r \in Servers : t # r /\ (t < a + 1 \/ (t = a + 1 /\ r < Other(a + 1, 1))) =>
          t < a \/ (t = a /\ r < b) \/ (t = a /\ r = b)
    BY <1>3, <1>7 DEF Other, Servers
  <2>3. NextPath = NewPath(a + 1, Other(a + 1, 1))
    BY <1>5, <1>7
  <2>4. PICK s, q : s = a + 1 /\ q = Other(a + 1, 1)
    OBVIOUS
  <2>5. \A t, r \in Servers : t # r /\ (t < s \/ (t = s /\ r < q)) =>
          Comes(t, r, path) \/ (t = path.source /\ r = path.peer)
    BY <1>1, <1>2, <1>4, <2>2, <2>4
  <2>6. NextPath = NewPath(s, q) /\ s \in 1 .. N + 1 /\ q \in Servers /\ s # q
    BY <2>1, <2>3, <2>4
  <2>. QED
    BY <2>5, <2>6
<1>. QED
  BY <1>6, <1>7

LEMMA Steady ==
  ASSUME reported' = reported, reach' = reach
  PROVE  Laid' = Laid /\ Tryable' = Tryable /\ Bases' = Bases
<1>1. Laid' = Laid
  BY DEF Laid
<1>2. \A s : Found(s)' = Found(s)
  BY DEF Found
<1>3. \A s : Beside(s)' = Beside(s)
  BY DEF Beside, Found
<1>4. \A s, a : Mentions(s, a)' = Mentions(s, a)
  BY <1>2, <1>3 DEF Mentions
<1>5. \A s : Offered(s)' = Offered(s)
  BY <1>2 DEF Offered
<1>6. \A s : Order(s)' = Order(s)
  BY <1>4, <1>5 DEF Order, Min
<1>7. \A s : Base(s)' = Base(s)
  BY <1>5, <1>6 DEF Base, TheFirst, Lower
<1>8. \A s : Mine(s)' = Mine(s)
  BY DEF Mine, Range
<1>. QED
  BY <1>1, <1>7, <1>8 DEF Tryable, Bases

-----------------------------------------------------------------------------
(***************************************************************************)
(* The invariant at first, and after a path is done with.                  *)
(***************************************************************************)

\* Nothing has been tried of a path that is begun.
Begun(p, s, q, conf) ==
  /\ PairOf(p) /\ p.source = s /\ p.peer = q
  /\ p.tried = <<>> /\ p.tried \in Seq(Addresses)
  /\ Range(p.tried) = {} /\ Len(p.tried) = 0
  /\ ~ Works(p.reach) /\ p.public = "none" /\ p.private = None
  /\ Untried(p, conf) = Tryable[s][q]

LEMMA BegunFacts ==
  ASSUME SurveyAssumption, Laid, NEW s \in Servers, NEW q \in Servers, s # q, NEW conf,
         Answered(q, conf), NEW p, p = NewPath(s, q)
  PROVE  Begun(p, s, q, conf)
<1>1. /\ p.source = s /\ p.peer = q /\ p.tried = <<>> /\ p.reach = "none"
      /\ p.public = "none" /\ p.private = None
  BY DEF NewPath
<1>2. Range(<<>>) = {}
  BY DEF Range
<1>3. ~ Works("none")
  BY DEF Works
<1>4. Bases[q] = Base(q)
  BY DEF Bases
<1>5. Candidates(q, conf) = Base(q)
  BY <1>4, CandidatesAreBase DEF Answered
<1>6. Untried(p, conf) = Tryable[s][q]
  <2>1. Untried(p, conf) = Candidates(q, conf) \ Mine(s)
    BY <1>1 DEF Untried
  <2>. QED
    BY <1>5, <2>1, TryableFacts
<1>7. <<>> \in Seq(Addresses) /\ Len(<<>>) = 0
  OBVIOUS
<1>8. PairOf(p)
  BY <1>1 DEF PairOf
<1>. QED
  BY <1>1, <1>2, <1>3, <1>6, <1>7, <1>8 DEF Begun

LEMMA BegunIsTyped ==
  ASSUME SurveyAssumption, NEW s \in 1 .. N + 1, NEW q \in Servers
  PROVE  /\ NewPath(s, q) \in PathType
         /\ NewPath(s, q).source = s /\ NewPath(s, q).peer = q
<1>1. <<>> \in Seq(Addresses)
  OBVIOUS
<1>2. None \in Addresses \cup {None}
  OBVIOUS
<1>4. "none" \in Reaches
  BY DEF Reaches
<1>3. NewPath(s, q) \in PathType
  BY <1>1, <1>2, <1>4, Zenon DEF NewPath, PathType
<1>. QED
  BY <1>3 DEF NewPath

LEMMA BegunIsInHand ==
  ASSUME SurveyAssumption, Laid, NEW s \in Servers, NEW q \in Servers, s # q,
         path = NewPath(s, q), left = Untried(path, confirmed),
         Answered(q, confirmed)
  PROVE  InHand
<1>. DEFINE U == Tryable[s][q]
<1>1. PICK p : p = NewPath(s, q)
  OBVIOUS
<1>2. PICK conf : conf = confirmed
  OBVIOUS
<1>3. Answered(q, conf)
  BY <1>2
<1>4. /\ PairOf(p) /\ p.source = s /\ p.peer = q
      /\ p.tried = <<>> /\ p.tried \in Seq(Addresses)
      /\ Range(p.tried) = {} /\ Len(p.tried) = 0
      /\ ~ Works(p.reach) /\ p.public = "none" /\ p.private = None
      /\ Untried(p, conf) = U
  <2>1. Begun(p, s, q, conf)
    BY <1>1, <1>3, BegunFacts, Zenon
  <2>. QED
    BY <2>1 DEF Begun
<1>5. path = p /\ left = U
  BY <1>1, <1>2, <1>4
<1>6. IsFiniteSet(U) /\ Cardinality(U) <= PeerCandidates
  BY TryableFacts
<1>7. Cardinality(U) \in Nat
  BY <1>6, FS_CardinalityType
<1>8. Len(path.tried) + Cardinality(left) <= PeerCandidates
  BY <1>4, <1>5, <1>6, <1>7
<1>. QED
  BY <1>4, <1>5, <1>6, <1>8 DEF InHand

LEMMA InitInv ==
  ASSUME SurveyAssumption, Init
  PROVE  SurveyInv
<1>1. Laid
  <2>1. reported \in [Servers -> UNION {Reports[s] : s \in Servers}]
    BY DEF Init
  <2>2. \A s \in Servers : reported[s] \in Seq([iface : STRING, at : Addresses])
    BY DEF Init, SurveyAssumption
  <2>3. reach \in [Servers -> SUBSET Addresses]
    BY DEF Init, SurveyAssumption
  <2>. QED
    BY <2>1, <2>2, <2>3 DEF Laid
<1>2. confirmed = [s \in Servers |-> None] /\ path = NewPath(1, 2) /\ left = Untried(path, confirmed)
      /\ paths = <<>>
  BY DEF Init
<1>3. 1 \in Servers /\ 2 \in Servers /\ N \in Nat
  BY DEF SurveyAssumption, Servers
<1>4. path.source = 1 /\ path.peer = 2
  BY <1>2 DEF NewPath
<1>5. KnownToAnswer
  BY <1>2 DEF KnownToAnswer, Answered
<1>6. InHand
  <2>1. Answered(2, confirmed)
    BY <1>2, <1>3 DEF Answered
  <2>2. 1 # 2
    OBVIOUS
  <2>. QED
    BY <1>1, <1>2, <1>3, <2>1, <2>2, BegunIsInHand, Zenon
<1>7. Covered
  <2>1. ASSUME NEW s \in Servers, NEW q \in Servers, s # q
        PROVE  ~ (s < 1 \/ (s = 1 /\ q < 2))
    BY <1>3, <2>1 DEF Servers
  <2>. QED
    BY <1>4, <2>1 DEF Covered, Comes
<1>8. paths \in Seq(PathType) /\ DOMAIN paths = {}
  BY <1>2
<1>9. path \in PathType
  <2>1. 1 \in 1 .. N + 1
    BY <1>3
  <2>. QED
    BY <1>2, <1>3, <2>1, BegunIsTyped
<1>. QED
  BY <1>1, <1>2, <1>3, <1>4, <1>5, <1>6, <1>7, <1>8, <1>9 DEF SurveyInv

\* The pair in hand gets a path that settles it, and the next one is begun.
LEMMA ConcludeKeeps ==
  ASSUME SurveyAssumption, SurveyInv, path.source <= N,
         NEW done \in PathType, NEW conf, Conclude(done, conf),
         reported' = reported, reach' = reach, blind \subseteq blind',
         Settled(done, blind'), done.source = path.source, done.peer = path.peer,
         conf \in [Servers -> Addresses \cup {None}],
         \A s \in Servers : Answered(s, conf),
         \A s \in Servers : s # path.peer => conf[s] = confirmed[s],
         \/ PrivateWorks(done) /\ done.private = conf[path.peer]
         \/ /\ ~ PrivateWorks(done) /\ conf[path.peer] = confirmed[path.peer]
            /\ conf[path.peer] \in Tryable[path.source][path.peer] =>
                 done.tried # <<>> /\ done.tried[1] = conf[path.peer]
  PROVE  SurveyInv'
<1>. DEFINE n == Len(paths)
<1>1. /\ Laid /\ path.source \in Servers /\ path.peer \in Servers /\ path.source # path.peer
      /\ paths \in Seq(PathType) /\ n \in Nat /\ DOMAIN paths = 1 .. n
  <2>1. paths \in Seq(PathType) /\ path \in PathType /\ N \in Nat
    BY DEF SurveyInv, SurveyAssumption
  <2>2. n \in Nat /\ DOMAIN paths = 1 .. n
    BY <2>1
  <2>3. path.source \in 1 .. N + 1 /\ path.peer \in Servers
    BY <2>1 DEF PathType
  <2>. QED
    BY <2>1, <2>2, <2>3 DEF SurveyInv, Servers
<1>2. Laid' = Laid /\ Tryable' = Tryable /\ Bases' = Bases
  BY Steady
<1>3. /\ confirmed' = conf /\ paths' = Append(paths, done) /\ path' = NextPath
      /\ left' = IF NextPath.source <= N THEN Untried(NextPath, conf) ELSE {}
  BY DEF Conclude
<1>4. /\ paths' \in Seq(PathType) /\ DOMAIN paths' = 1 .. n + 1
      /\ \A i \in 1 .. n : paths'[i] = paths[i]
      /\ paths'[n + 1] = done
  BY <1>1, <1>3
<1>5. PICK s, q : 
        /\ NextPath = NewPath(s, q)
        /\ s \in 1 .. N + 1 /\ q \in Servers /\ s # q
        /\ \A t, r \in Servers : t # r /\ (t < s \/ (t = s /\ r < q)) =>
             Comes(t, r, path) \/ (t = path.source /\ r = path.peer)
  BY <1>1, NextIsNext, Zenon
<1>6. path' = NewPath(s, q) /\ path' \in PathType /\ path'.source = s /\ path'.peer = q
  BY <1>3, <1>5, BegunIsTyped
<1>7. KnownToAnswer'
  BY <1>2, <1>3 DEF KnownToAnswer, Answered
<1>8. Covered'
  <2>1. ASSUME NEW t \in Servers, NEW r \in Servers, t # r, t < s \/ (t = s /\ r < q)
        PROVE  \E i \in DOMAIN paths' : paths'[i].source = t /\ paths'[i].peer = r
    <3>1. Comes(t, r, path) \/ (t = path.source /\ r = path.peer)
      BY <1>5, <2>1
    <3>2. CASE Comes(t, r, path)
      <4>1. PICK i \in 1 .. n : paths[i].source = t /\ paths[i].peer = r
        BY <1>1, <2>1, <3>2 DEF SurveyInv, Covered
      <4>2. i \in 1 .. n + 1
        BY <1>1
      <4>. QED
        BY <1>4, <4>1, <4>2
    <3>3. CASE t = path.source /\ r = path.peer
      <4>1. n + 1 \in 1 .. n + 1
        BY <1>1
      <4>. QED
        BY <1>4, <3>3, <4>1
    <3>. QED
      BY <3>1, <3>2, <3>3
  <2>. QED
    BY <1>6, <2>1 DEF Covered, Comes
<1>9. ASSUME NEW i \in DOMAIN paths'
      PROVE  Settled(paths[i], blind)'
  <2>1. i \in 1 .. n \/ i = n + 1
    BY <1>1, <1>4
  <2>2. PICK p : p = paths'[i]
    OBVIOUS
  <2>3. Settled(p, blind')
    <3>1. CASE i \in 1 .. n
      <4>1. Settled(p, blind)
        BY <1>1, <1>4, <2>2, <3>1 DEF SurveyInv
      <4>. QED
        BY <4>1 DEF Settled
    <3>2. CASE i = n + 1
      BY <1>4, <2>2, <3>2
    <3>. QED
      BY <2>1, <3>1, <3>2
  <2>. QED
    BY <1>2, <2>2, <2>3 DEF Settled, PairOf
<1>10. ASSUME NEW t \in Servers, conf[t] # None
       PROVE  FromThere(t)'
  <2>1. n + 1 \in 1 .. n + 1 /\ 1 .. n \subseteq 1 .. n + 1
    BY <1>1
  <2>2. CASE t = path.peer /\ PrivateWorks(done)
    <3>1. done.private = conf[t] /\ done.peer = t
      BY <2>2
    <3>2. ~ \E j \in DOMAIN paths' : j > n + 1
      BY <1>1, <1>4
    <3>. QED
      BY <1>2, <1>3, <1>4, <2>1, <2>2, <3>1, <3>2 DEF FromThere, PrivateWorks
  <2>3. CASE ~ (t = path.peer /\ PrivateWorks(done))
    <3>1. conf[t] = confirmed[t]
      BY <2>3
    <3>2. FromThere(t)
      BY <1>10, <3>1 DEF SurveyInv
    <3>3. PICK i \in 1 .. n :
            /\ paths[i].peer = t /\ PrivateWorks(paths[i]) /\ paths[i].private = confirmed[t]
            /\ \A j \in 1 .. n : j > i /\ paths[j].peer = t =>
                 /\ ~ PrivateWorks(paths[j])
                 /\ confirmed[t] \in Tryable[paths[j].source][t] =>
                      paths[j].tried # <<>> /\ paths[j].tried[1] = confirmed[t]
      BY <1>1, <3>2 DEF FromThere
    <3>4. done.peer = t =>
                 /\ ~ PrivateWorks(done)
                 /\ conf[t] \in Tryable[done.source][t] =>
                      done.tried # <<>> /\ done.tried[1] = conf[t]
      BY <2>3
    <3>5. \A j \in 1 .. n + 1 : j \in 1 .. n \/ j = n + 1
      BY <1>1
    <3>6. \A j \in 1 .. n + 1 : j > i /\ paths'[j].peer = t =>
                 /\ ~ PrivateWorks(paths'[j])
                 /\ conf[t] \in Tryable[paths'[j].source][t] =>
                      paths'[j].tried # <<>> /\ paths'[j].tried[1] = conf[t]
      BY <1>4, <3>1, <3>3, <3>4, <3>5
    <3>7. i \in DOMAIN paths' /\ paths'[i].peer = t /\ PrivateWorks(paths'[i])
          /\ paths'[i].private = conf[t]
      BY <1>4, <2>1, <3>1, <3>3
    <3>8. DOMAIN paths' = 1 .. n + 1 /\ confirmed' = conf /\ Tryable' = Tryable
      BY <1>2, <1>3, <1>4
    <3>. HIDE DEF n
    <3>. QED
      BY <3>6, <3>7, <3>8 DEF FromThere, PrivateWorks, Works
  <2>. QED
    BY <2>2, <2>3
<1>11. ASSUME s <= N
       PROVE  InHand'
  <2>1. s \in Servers
    BY <1>5, <1>11 DEF Servers
  <2>2. PICK p : p = NewPath(s, q)
    OBVIOUS
  <2>3. /\ PairOf(p) /\ p.source = s /\ p.peer = q
        /\ p.tried = <<>> /\ p.tried \in Seq(Addresses)
        /\ Range(p.tried) = {} /\ Len(p.tried) = 0
        /\ ~ Works(p.reach) /\ p.public = "none" /\ p.private = None
        /\ Untried(p, conf) = Tryable[s][q]
    <3>1. Begun(p, s, q, conf)
      BY <1>1, <1>5, <2>1, <2>2, BegunFacts, Zenon
    <3>. QED
      BY <3>1 DEF Begun
  <2>4. path' = p /\ left' = Tryable[s][q]
    BY <1>3, <1>5, <1>11, <2>2, <2>3
  <2>5. IsFiniteSet(Tryable[s][q]) /\ Cardinality(Tryable[s][q]) <= PeerCandidates
    BY <1>1, <1>5, <2>1, TryableFacts
  <2>6. Cardinality(Tryable[s][q]) \in Nat
    BY <2>5, FS_CardinalityType
  <2>7. Len(p.tried) + Cardinality(Tryable[s][q]) <= PeerCandidates
    BY <2>3, <2>5, <2>6
  <2>8. p.source \in Servers /\ p.peer \in Servers /\ p.source # p.peer
    BY <2>3 DEF PairOf
  <2>. QED
    BY <1>2, <2>3, <2>4, <2>5, <2>7, <2>8 DEF InHand, PairOf, Works
<1>. QED
  BY <1>1, <1>2, <1>3, <1>4, <1>5, <1>6, <1>7, <1>8, <1>9, <1>10, <1>11 DEF SurveyInv

-----------------------------------------------------------------------------
(***************************************************************************)
(* The steps.                                                              *)
(***************************************************************************)

LEMMA NotedFacts ==
  ASSUME path \in PathType, NEW a \in Addresses, NEW state \in Reaches,
         NEW d, d = Noted(a, state)
  PROVE  /\ d \in PathType
         /\ d.source = path.source /\ d.peer = path.peer /\ d.public = path.public
         /\ d.tried = Append(path.tried, a)
         /\ d.private = IF Works(state) \/ path.private = None THEN a ELSE path.private
         /\ d.reach = IF Works(state) \/ path.private = None THEN state ELSE path.reach
<1>1. /\ path.tried \in Seq(Addresses) /\ path.source \in 1 .. N + 1 /\ path.peer \in Servers
      /\ path.public \in Reaches /\ path.reach \in Reaches
      /\ path.private \in Addresses \cup {None}
  BY DEF PathType
<1>2. Append(path.tried, a) \in Seq(Addresses)
  BY <1>1
<1>3. d = [source |-> path.source, peer |-> path.peer,
           private |-> IF Works(state) \/ path.private = None THEN a ELSE path.private,
           reach |-> IF Works(state) \/ path.private = None THEN state ELSE path.reach,
           public |-> path.public, tried |-> Append(path.tried, a)]
  BY DEF Noted, PathType
<1>4. (IF Works(state) \/ path.private = None THEN a ELSE path.private) \in Addresses \cup {None}
  BY <1>1
<1>5. (IF Works(state) \/ path.private = None THEN state ELSE path.reach) \in Reaches
  BY <1>1
<1>6. d \in PathType
  <2>1. PICK u, v : /\ u = IF Works(state) \/ path.private = None THEN a ELSE path.private
                    /\ v = IF Works(state) \/ path.private = None THEN state ELSE path.reach
    OBVIOUS
  <2>2. d = [source |-> path.source, peer |-> path.peer, private |-> u, reach |-> v,
             public |-> path.public, tried |-> Append(path.tried, a)]
    BY <1>3, <2>1
  <2>3. u \in Addresses \cup {None} /\ v \in Reaches
    BY <1>4, <1>5, <2>1
  <2>. QED
    BY <1>1, <1>2, <2>2, <2>3 DEF PathType
<1>. QED
  BY <1>3, <1>6

LEMMA OutcomeState ==
  ASSUME NEW answers, NEW o \in Outcomes(answers)
  PROVE  o.state \in Reaches
<1>1. PICK f \in Firsts(answers), s \in Seconds(answers) : o.state = ReachOf(f, s)
  BY DEF Outcomes
<1>. QED
  BY <1>1 DEF ReachOf, Reaches

\* What holds of the pair in hand, unpacked.
LEMMA HandFacts ==
  ASSUME SurveyAssumption, SurveyInv, path.source <= N
  PROVE  /\ path \in PathType /\ PairOf(path) /\ Laid
         /\ path.source \in Servers /\ path.peer \in Servers
         /\ InHand
         /\ confirmed \in [Servers -> Addresses \cup {None}]
         /\ \A s \in Servers : Answered(s, confirmed)
<1>1. path \in PathType /\ path.source # path.peer /\ InHand /\ Laid /\ KnownToAnswer
  BY DEF SurveyInv
<1>2. path.source \in Servers /\ path.peer \in Servers
  BY <1>1 DEF PathType, InHand, PairOf
<1>. QED
  BY <1>1, <1>2 DEF PairOf, KnownToAnswer

LEMMA CandidateFacts ==
  ASSUME SurveyAssumption, SurveyInv, Probing
  PROVE  /\ Candidate \in left /\ Candidate \in Addresses
         /\ Candidate \in Tryable[path.source][path.peer]
         /\ Candidate \in Bases[path.peer]
         /\ Candidate \notin Range(path.tried)
         /\ confirmed[path.peer] \in left => Candidate = confirmed[path.peer]
         /\ Len(path.tried) + 1 <= PeerCandidates
         /\ Cardinality(left \ {Candidate}) = Cardinality(left) - 1
<1>1. PICK s, q, conf : s = path.source /\ q = path.peer /\ conf = confirmed
  OBVIOUS
<1>2. path.source <= N /\ left # {}
  BY DEF Probing
<1>3. s \in Servers /\ q \in Servers /\ Laid /\ InHand /\ path \in PathType
  BY <1>1, <1>2, HandFacts
<1>4. /\ Range(path.tried) \cup left = Tryable[s][q]
      /\ Range(path.tried) \cap left = {}
      /\ IsFiniteSet(left) /\ Len(path.tried) + Cardinality(left) <= PeerCandidates
  BY <1>1, <1>3 DEF InHand
<1>5. PICK A : A = left
  OBVIOUS
<1>6. Tryable[s][q] \in SUBSET Offered(q) /\ Tryable[s][q] \in SUBSET Addresses
      /\ Tryable[s][q] = Base(q) \ Mine(s)
  BY <1>3, TryableFacts
<1>7. A \in SUBSET Offered(q) /\ A # {}
  BY <1>2, <1>4, <1>5, <1>6
<1>8. Foremost(q, conf, A) \in A /\ (conf[q] \in A => Foremost(q, conf, A) = conf[q])
  BY <1>3, <1>7, ForemostIsFirst
<1>9. Candidate = Foremost(q, conf, A)
  BY <1>1, <1>5 DEF Candidate
<1>10. Bases[q] = Base(q)
  BY <1>3 DEF Bases
<1>11. Cardinality(left) \in Nat /\ Cardinality(left) # 0
  BY <1>2, <1>4, FS_CardinalityType, FS_EmptySet
<1>12. Len(path.tried) \in Nat /\ PeerCandidates \in Nat
  BY <1>3 DEF PathType, SurveyAssumption
<1>13. Len(path.tried) + 1 <= PeerCandidates
  BY <1>4, <1>11, <1>12
<1>14. Cardinality(left \ {Candidate}) = Cardinality(left) - 1
  <2>1. Candidate \in left
    BY <1>5, <1>8, <1>9
  <2>. QED
    BY <1>4, <2>1, FS_RemoveElement
<1>. QED
  BY <1>1, <1>4, <1>5, <1>6, <1>8, <1>9, <1>10, <1>13, <1>14

LEMMA ProbeWorksKeeps ==
  ASSUME SurveyAssumption, SurveyInv, ProbeWorks
  PROVE  SurveyInv'
<1>1. PICK c : c = Candidate
  OBVIOUS
<1>2. Probing /\ reported' = reported /\ reach' = reach /\ blind' = blind
  BY DEF ProbeWorks
<1>3. PICK o \in Outcomes(Candidate \in reach[path.source]) :
        /\ Works(o.state)
        /\ Conclude(Noted(Candidate, o.state), [confirmed EXCEPT ![path.peer] = Candidate])
  BY DEF ProbeWorks
<1>4. path.source <= N
  BY <1>2 DEF Probing
<1>5. /\ path \in PathType /\ PairOf(path) /\ Laid
      /\ path.source \in Servers /\ path.peer \in Servers /\ InHand
      /\ confirmed \in [Servers -> Addresses \cup {None}]
      /\ \A s \in Servers : Answered(s, confirmed)
  BY <1>4, HandFacts
<1>6. /\ c \in Addresses
      /\ c \in Tryable[path.source][path.peer] /\ c \in Bases[path.peer]
      /\ Len(path.tried) + 1 <= PeerCandidates
  BY <1>1, <1>2, CandidateFacts
<1>7. c \in reach[path.source]
  <2>1. (Candidate \in reach[path.source]) \in BOOLEAN
    OBVIOUS
  <2>2. Candidate \in reach[path.source]
    BY <1>3, <2>1, OutcomeFacts
  <2>. QED
    BY <1>1, <2>2
<1>8. o.state \in Reaches
  BY <1>3, OutcomeState
<1>9. PICK done : done = Noted(c, o.state)
  OBVIOUS
<1>10. PICK conf : conf = [confirmed EXCEPT ![path.peer] = c]
  OBVIOUS
<1>11. /\ done \in PathType
       /\ done.source = path.source /\ done.peer = path.peer /\ done.public = path.public
       /\ done.tried = Append(path.tried, c) /\ done.private = c /\ done.reach = o.state
  BY <1>3, <1>5, <1>6, <1>8, <1>9, NotedFacts
<1>12. Conclude(done, conf)
  BY <1>1, <1>3, <1>9, <1>10
<1>13. Settled(done, blind')
  <2>1. path.tried \in Seq(Addresses) /\ path.public = "none"
        /\ Range(path.tried) \subseteq Tryable[path.source][path.peer]
    BY <1>5 DEF InHand
  <2>2. /\ done.tried \in Seq(Addresses)
        /\ Len(done.tried) = Len(path.tried) + 1
        /\ Range(done.tried) = Range(path.tried) \cup {c}
    BY <1>6, <1>11, <2>1, RangeOfAppend
  <2>3. Works(done.reach)
    BY <1>3, <1>11
  <2>. QED
    BY <1>5, <1>6, <1>7, <1>11, <2>1, <2>2, <2>3 DEF Settled, PairOf
<1>14. /\ conf \in [Servers -> Addresses \cup {None}]
       /\ conf[path.peer] = c
       /\ \A s \in Servers : s # path.peer => conf[s] = confirmed[s]
  BY <1>5, <1>6, <1>10
<1>15. ASSUME NEW s \in Servers
       PROVE  Answered(s, conf)
  BY <1>5, <1>6, <1>14 DEF Answered
<1>16. PrivateWorks(done) /\ done.private = conf[path.peer]
  BY <1>3, <1>11, <1>14 DEF PrivateWorks
<1>. QED
  BY <1>2, <1>4, <1>11, <1>12, <1>13, <1>14, <1>15, <1>16, ConcludeKeeps

\* A pair of which everything was tried in vain is settled by that.
LEMMA InVain ==
  ASSUME SurveyAssumption, SurveyInv, NothingPrivate, blind \subseteq blind',
         reported' = reported, reach' = reach,
         NEW done \in PathType, Conclude(done, confirmed),
         done.source = path.source, done.peer = path.peer, done.tried = path.tried,
         done.private = path.private, done.reach = path.reach
  PROVE  SurveyInv'
<1>1. path.source <= N /\ left = {}
  BY DEF NothingPrivate
<1>2. /\ path \in PathType /\ PairOf(path) /\ Laid
      /\ path.source \in Servers /\ path.peer \in Servers /\ InHand
      /\ confirmed \in [Servers -> Addresses \cup {None}]
      /\ \A s \in Servers : Answered(s, confirmed)
  BY <1>1, HandFacts
<1>3. /\ path.tried \in Seq(Addresses)
      /\ Range(path.tried) = Tryable[path.source][path.peer]
      /\ Len(path.tried) + Cardinality(left) <= PeerCandidates
      /\ ~ Works(path.reach)
      /\ path.private # None => path.private \in Range(path.tried)
      /\ <<path.source, path.peer>> \notin blind => Range(path.tried) \cap reach[path.source] = {}
      /\ path.tried # <<>> /\ confirmed[path.peer] \in Tryable[path.source][path.peer] =>
           path.tried[1] = confirmed[path.peer]
  BY <1>1, <1>2 DEF InHand
<1>4. Len(path.tried) <= PeerCandidates
  <2>1. Cardinality(left) = 0
    BY <1>1, FS_EmptySet
  <2>2. Len(path.tried) \in Nat
    BY <1>3
  <2>. QED
    BY <1>3, <2>1, <2>2
<1>5. Settled(done, blind')
  BY <1>2, <1>3, <1>4 DEF Settled, PairOf
<1>6. ASSUME confirmed[path.peer] \in Tryable[path.source][path.peer]
      PROVE  done.tried # <<>> /\ done.tried[1] = confirmed[path.peer]
  <2>1. path.tried # <<>>
    BY <1>3, <1>6 DEF Range
  <2>. QED
    BY <1>3, <1>6, <2>1
<1>7. ~ PrivateWorks(done)
  BY <1>3 DEF PrivateWorks
<1>. QED
  BY <1>1, <1>2, <1>5, <1>6, <1>7, ConcludeKeeps

LEMMA ProbePublicKeeps ==
  ASSUME SurveyAssumption, SurveyInv, ProbePublic
  PROVE  SurveyInv'
<1>1. NothingPrivate /\ reported' = reported /\ reach' = reach
  BY DEF ProbePublic
<1>2. PICK o \in Outcomes(Host[path.peer] \in reach[path.source]) :
        Conclude([path EXCEPT !.public = o.state], confirmed) /\ Blinded(o.failed)
  BY DEF ProbePublic
<1>3. o.state \in Reaches
  BY <1>2, OutcomeState
<1>4. path \in PathType
  BY DEF SurveyInv
<1>5. PICK done : done = [path EXCEPT !.public = o.state]
  OBVIOUS
<1>6. /\ done \in PathType
      /\ done.source = path.source /\ done.peer = path.peer /\ done.tried = path.tried
      /\ done.private = path.private /\ done.reach = path.reach
  BY <1>3, <1>4, <1>5 DEF PathType
<1>7. blind \subseteq blind'
  BY <1>2 DEF Blinded
<1>8. Conclude(done, confirmed)
  BY <1>2, <1>5
<1>. QED
  BY <1>1, <1>6, <1>7, <1>8, InVain

LEMMA SkipPublicKeeps ==
  ASSUME SurveyAssumption, SurveyInv, SkipPublic
  PROVE  SurveyInv'
<1>1. NothingPrivate /\ reported' = reported /\ reach' = reach /\ blind' = blind
      /\ Conclude(path, confirmed)
  BY DEF SkipPublic
<1>2. path \in PathType
  BY DEF SurveyInv
<1>3. PICK done : done = path
  OBVIOUS
<1>4. done \in PathType /\ Conclude(done, confirmed) /\ blind \subseteq blind'
  BY <1>1, <1>2, <1>3
<1>. QED
  BY <1>1, <1>3, <1>4, InVain

LEMMA ProbeFailsKeeps ==
  ASSUME SurveyAssumption, SurveyInv, ProbeFails
  PROVE  SurveyInv'
<1>. DEFINE U == Tryable[path.source][path.peer]
<1>1. PICK c : c = Candidate
  OBVIOUS
<1>2. /\ Probing /\ reported' = reported /\ reach' = reach
      /\ paths' = paths /\ confirmed' = confirmed
  BY DEF ProbeFails
<1>3. PICK o \in Outcomes(Candidate \in reach[path.source]) :
        /\ ~ Works(o.state)
        /\ path' = Noted(Candidate, o.state)
        /\ left' = left \ {Candidate}
        /\ Blinded(o.failed)
  BY DEF ProbeFails
<1>4. path.source <= N
  BY <1>2 DEF Probing
<1>5. /\ path \in PathType /\ PairOf(path) /\ Laid
      /\ path.source \in Servers /\ path.peer \in Servers /\ InHand
  BY <1>4, HandFacts
<1>6. /\ c \in left /\ c \in Addresses /\ c \in U /\ c \notin Range(path.tried)
      /\ confirmed[path.peer] \in left => c = confirmed[path.peer]
      /\ Cardinality(left \ {c}) = Cardinality(left) - 1
  BY <1>1, <1>2, CandidateFacts
<1>7. /\ path.tried \in Seq(Addresses)
      /\ Range(path.tried) \cup left = U
      /\ Range(path.tried) \cap left = {}
      /\ IsFiniteSet(left) /\ Len(path.tried) + Cardinality(left) <= PeerCandidates
      /\ ~ Works(path.reach) /\ path.public = "none"
      /\ path.private # None => path.private \in Range(path.tried)
      /\ <<path.source, path.peer>> \notin blind => Range(path.tried) \cap reach[path.source] = {}
      /\ path.tried # <<>> /\ confirmed[path.peer] \in U => path.tried[1] = confirmed[path.peer]
  BY <1>5 DEF InHand
<1>8. o.state \in Reaches
  BY <1>3, OutcomeState
<1>9. PICK d : d = Noted(c, o.state)
  OBVIOUS
<1>10. path' = d /\ left' = left \ {c}
  BY <1>1, <1>3, <1>9
<1>11. /\ d \in PathType
       /\ d.source = path.source /\ d.peer = path.peer /\ d.public = path.public
       /\ d.tried = Append(path.tried, c)
       /\ d.private = IF path.private = None THEN c ELSE path.private
       /\ d.reach = IF path.private = None THEN o.state ELSE path.reach
  BY <1>3, <1>5, <1>6, <1>8, <1>9, NotedFacts
<1>12. /\ d.tried \in Seq(Addresses) /\ d.tried # <<>>
       /\ Len(d.tried) = Len(path.tried) + 1
       /\ Range(d.tried) = Range(path.tried) \cup {c}
       /\ d.tried[1] = IF path.tried = <<>> THEN c ELSE path.tried[1]
  BY <1>6, <1>7, <1>11, RangeOfAppend
<1>13. Laid' = Laid /\ Tryable' = Tryable /\ Bases' = Bases
  BY <1>2, Steady
<1>14. IsFiniteSet(left') /\ Len(d.tried) + Cardinality(left') <= PeerCandidates
  <2>1. IsFiniteSet(left \ {c})
    BY <1>7, FS_Subset
  <2>2. Cardinality(left) \in Nat /\ Len(path.tried) \in Nat /\ PeerCandidates \in Nat
    BY <1>7, FS_CardinalityType DEF SurveyAssumption
  <2>. QED
    BY <1>6, <1>7, <1>10, <1>12, <2>1, <2>2
<1>15. Range(d.tried) \cup left' = U /\ Range(d.tried) \cap left' = {}
  BY <1>6, <1>7, <1>10, <1>12
<1>16. ~ Works(d.reach) /\ (d.private # None => d.private \in Range(d.tried))
  BY <1>3, <1>7, <1>11, <1>12
<1>17. ASSUME <<path.source, path.peer>> \notin blind'
       PROVE  Range(d.tried) \cap reach[path.source] = {}
  <2>1. ~ o.failed /\ <<path.source, path.peer>> \notin blind
    BY <1>3, <1>17 DEF Blinded
  <2>2. (Candidate \in reach[path.source]) \in BOOLEAN
    OBVIOUS
  <2>3. ~ (Candidate \in reach[path.source])
    BY <1>3, <2>1, <2>2, OutcomeFacts
  <2>. QED
    BY <1>1, <1>7, <1>12, <2>1, <2>3
<1>18. ASSUME confirmed[path.peer] \in U
       PROVE  d.tried[1] = confirmed[path.peer]
  <2>1. CASE path.tried = <<>>
    <3>1. Range(path.tried) = {}
      BY <2>1 DEF Range
    <3>. QED
      BY <1>6, <1>7, <1>12, <1>18, <2>1, <3>1
  <2>2. CASE path.tried # <<>>
    BY <1>7, <1>12, <1>18, <2>2
  <2>. QED
    BY <2>1, <2>2
<1>19. InHand'
  <2>1. d.source \in Servers /\ d.peer \in Servers /\ d.source # d.peer
    BY <1>5, <1>11 DEF PairOf
  <2>2. PICK s, q : s = path.source /\ q = path.peer
    OBVIOUS
  <2>3. d.source = s /\ d.peer = q /\ U = Tryable[s][q]
    BY <1>11, <2>2
  <2>4. /\ <<s, q>> \notin blind' => Range(d.tried) \cap reach[s] = {}
        /\ confirmed[q] \in Tryable[s][q] => d.tried[1] = confirmed[q]
    BY <1>17, <1>18, <2>2
  <2>5. /\ Range(d.tried) \cup left' = Tryable[s][q]
        /\ Range(d.tried) \cap left' = {}
    BY <1>15, <2>3
  <2>6. d.public = "none"
    BY <1>7, <1>11
  <2>. HIDE DEF U
  <2>. QED
    BY <1>2, <1>10, <1>12, <1>13, <1>14, <1>16, <2>1, <2>3, <2>4, <2>5, <2>6
    DEF InHand, PairOf, Works
<1>20. KnownToAnswer'
  BY <1>2, <1>13 DEF SurveyInv, KnownToAnswer, Answered
<1>21. Covered'
  <2>1. path'.source = path.source /\ path'.peer = path.peer
    BY <1>10, <1>11
  <2>2. Covered
    BY DEF SurveyInv
  <2>. QED
    BY <1>2, <2>1, <2>2 DEF Covered, Comes
<1>22. ASSUME NEW i \in DOMAIN paths
       PROVE  Settled(paths[i], blind)'
  <2>1. blind \subseteq blind'
    BY <1>3 DEF Blinded
  <2>2. Settled(paths[i], blind)
    BY DEF SurveyInv
  <2>. QED
    BY <1>2, <1>13, <2>1, <2>2 DEF Settled, PairOf
<1>23. ASSUME NEW s \in Servers, confirmed[s] # None
       PROVE  FromThere(s)'
  <2>1. FromThere(s)
    BY <1>23 DEF SurveyInv
  <2>. QED
    BY <1>2, <1>13, <2>1 DEF FromThere, PrivateWorks
<1>24. path' \in PathType /\ path'.source # path'.peer
  BY <1>5, <1>10, <1>11 DEF PairOf
<1>25. Laid' /\ paths' \in Seq(PathType)
  BY <1>2, <1>5, <1>13 DEF SurveyInv
<1>. QED
  BY <1>2, <1>19, <1>20, <1>21, <1>22, <1>23, <1>24, <1>25 DEF SurveyInv

LEMMA StandStill ==
  ASSUME SurveyInv, UNCHANGED vars
  PROVE  SurveyInv'
<1>1. Laid' = Laid /\ Tryable' = Tryable /\ Bases' = Bases
  BY Steady DEF vars
<1>. QED
  BY <1>1 DEF vars, SurveyInv, KnownToAnswer, Answered, InHand, PairOf, Settled, Covered,
              Comes, FromThere, PrivateWorks

THEOREM SurveyIsSound == Spec => []SurveyInv
<1>1. Init => SurveyInv
  BY SurveyAssumption, InitInv
<1>2. SurveyInv /\ [Next]_vars => SurveyInv'
  <2>. SUFFICES ASSUME SurveyInv, [Next]_vars
                PROVE  SurveyInv'
    OBVIOUS
  <2>1. CASE ProbeWorks
    BY <2>1, SurveyAssumption, ProbeWorksKeeps
  <2>2. CASE ProbeFails
    BY <2>2, SurveyAssumption, ProbeFailsKeeps
  <2>3. CASE ProbePublic
    BY <2>3, SurveyAssumption, ProbePublicKeeps
  <2>4. CASE SkipPublic
    BY <2>4, SurveyAssumption, SkipPublicKeeps
  <2>5. CASE Surveyed
    BY <2>5, StandStill DEF Surveyed
  <2>6. CASE UNCHANGED vars
    BY <2>6, StandStill
  <2>. QED
    BY <2>1, <2>2, <2>3, <2>4, <2>5, <2>6 DEF Next
<1>. QED
  BY <1>1, <1>2, PTL DEF Spec

-----------------------------------------------------------------------------
(***************************************************************************)
(* What follows from it.                                                   *)
(***************************************************************************)

LEMMA PathFacts ==
  ASSUME SurveyAssumption, SurveyInv, NEW i \in DOMAIN paths
  PROVE  /\ Settled(paths[i], blind) /\ Laid
         /\ paths[i].source \in Servers /\ paths[i].peer \in Servers
         /\ Tryable[paths[i].source][paths[i].peer] =
              Base(paths[i].peer) \ Mine(paths[i].source)
<1>1. Settled(paths[i], blind) /\ Laid
  BY DEF SurveyInv
<1>2. paths[i].source \in Servers /\ paths[i].peer \in Servers
  BY <1>1 DEF Settled, PairOf
<1>3. PICK s, q : s = paths[i].source /\ q = paths[i].peer
  OBVIOUS
<1>4. Tryable[s][q] = Base(q) \ Mine(s)
  BY <1>1, <1>2, <1>3, TryableFacts
<1>. QED
  BY <1>1, <1>2, <1>3, <1>4

\* Nothing is asked of the public address once a private one got through, and a
\* path is never judged on an address of the server that asks: for any fleet.
THEOREM JudgedFairly == Spec => []PathsAreFair
<1>1. SurveyInv => PathsAreFair
  <2>1. ASSUME SurveyInv, NEW i \in DOMAIN paths
        PROVE  /\ PrivateWorks(paths[i]) => paths[i].public = "none"
               /\ Range(paths[i].tried) \cap Mine(paths[i].source) = {}
               /\ Len(paths[i].tried) <= PeerCandidates
               /\ paths[i].private # None => paths[i].private \in Range(paths[i].tried)
    <3>1. /\ Settled(paths[i], blind)
          /\ Tryable[paths[i].source][paths[i].peer] =
               Base(paths[i].peer) \ Mine(paths[i].source)
      BY <2>1, SurveyAssumption, PathFacts
    <3>. QED
      BY <3>1 DEF Settled, PrivateWorks
  <2>. QED
    BY <2>1 DEF PathsAreFair
<1>. QED
  BY <1>1, SurveyIsSound, PTL

\* What is confirmed of a server is what the last one to get through got through
\* on, and every server after that tried it first: for any fleet and network.
THEOREM WhatWorkedIsTriedFirst == Spec => []ConfirmedIsTriedFirst
<1>1. SurveyInv => ConfirmedIsTriedFirst
  <2>. SUFFICES ASSUME SurveyInv, NEW s \in Servers, confirmed[s] # None
                PROVE  \E i \in DOMAIN paths :
                         /\ paths[i].peer = s /\ PrivateWorks(paths[i])
                         /\ paths[i].private = confirmed[s]
                         /\ \A j \in i + 1 .. Len(paths) :
                              paths[j].peer = s =>
                                /\ ~ PrivateWorks(paths[j])
                                /\ confirmed[s] \notin Mine(paths[j].source) =>
                                     paths[j].tried # <<>> /\ paths[j].tried[1] = confirmed[s]
    BY DEF ConfirmedIsTriedFirst
  <2>1. FromThere(s) /\ paths \in Seq(PathType)
    BY DEF SurveyInv
  <2>2. Len(paths) \in Nat /\ DOMAIN paths = 1 .. Len(paths)
    BY <2>1
  <2>3. confirmed[s] \in Base(s)
    BY DEF SurveyInv, KnownToAnswer, Answered, Bases
  <2>4. PICK i \in DOMAIN paths :
          /\ paths[i].peer = s /\ PrivateWorks(paths[i]) /\ paths[i].private = confirmed[s]
          /\ \A j \in DOMAIN paths : j > i /\ paths[j].peer = s =>
               /\ ~ PrivateWorks(paths[j])
               /\ confirmed[s] \in Tryable[paths[j].source][s] =>
                    paths[j].tried # <<>> /\ paths[j].tried[1] = confirmed[s]
    BY <2>1 DEF FromThere
  <2>5. ASSUME NEW j \in i + 1 .. Len(paths), paths[j].peer = s
        PROVE  /\ ~ PrivateWorks(paths[j])
               /\ confirmed[s] \notin Mine(paths[j].source) =>
                    paths[j].tried # <<>> /\ paths[j].tried[1] = confirmed[s]
    <3>1. j \in DOMAIN paths /\ j > i
      BY <2>2, <2>4
    <3>2. Tryable[paths[j].source][s] = Base(s) \ Mine(paths[j].source)
      BY <2>5, <3>1, SurveyAssumption, PathFacts
    <3>. QED
      BY <2>3, <2>4, <2>5, <3>1, <3>2
  <2>. QED
    BY <2>4, <2>5
<1>. QED
  BY <1>1, SurveyIsSound, PTL

\* The note of the prompt says "private" only when every server reaches every
\* other on an address of that one's, and says so whenever that is the case and
\* no probe failed for reasons of its own: for any fleet and any network.
THEOREM TheNoteIsTrue == Spec => []NoteIsTrue
<1>1. SurveyInv => NoteIsTrue
  <2>. SUFFICES ASSUME SurveyInv, path.source > N
                PROVE  LET reachable == \A s \in Servers : \A q \in Servers \ {s} :
                                          Shared(s, q) \cap reach[s] # {}
                       IN  /\ Note = "private" => reachable
                           /\ reachable /\ blind = {} => Note = "private"
    BY DEF NoteIsTrue
  <2>. DEFINE reachable == \A s \in Servers : \A q \in Servers \ {s} :
                             Shared(s, q) \cap reach[s] # {}
  <2>1. Laid /\ N \in Nat /\ N >= 2 /\ path.source \in 1 .. N + 1
    BY SurveyAssumption DEF SurveyInv, PathType
  <2>2. path.source = N + 1
    BY <2>1
  <2>3. ASSUME NEW s \in Servers, NEW q \in Servers, s # q
        PROVE  Shared(s, q) = Tryable[s][q]
    <3>1. PICK conf : conf = confirmed
      OBVIOUS
    <3>2. conf[q] = None \/ conf[q] \in Base(q)
      BY <3>1 DEF SurveyInv, KnownToAnswer, Answered, Bases
    <3>3. Candidates(q, conf) = Base(q)
      BY <2>1, <3>2, SurveyAssumption, CandidatesAreBase
    <3>4. Tryable[s][q] = Base(q) \ Mine(s)
      BY <2>1, SurveyAssumption, TryableFacts
    <3>. QED
      BY <3>1, <3>3, <3>4 DEF Shared
  <2>4. ASSUME NEW s \in Servers, NEW q \in Servers, s # q
        PROVE  \E i \in DOMAIN paths : paths[i].source = s /\ paths[i].peer = q
    <3>1. s < path.source
      BY <2>1, <2>2 DEF Servers
    <3>. QED
      BY <2>4, <3>1 DEF SurveyInv, Covered, Comes
  <2>5. paths # <<>>
    <3>1. 1 \in Servers /\ 2 \in Servers
      BY <2>1 DEF Servers
    <3>2. DOMAIN paths # {}
      BY <2>4, <3>1
    <3>. QED
      BY <3>2
  <2>6. Note = "private" <=> PrivateMesh
    BY <2>5 DEF Note
  <2>7. ASSUME PrivateMesh, NEW s \in Servers, NEW q \in Servers, s # q
        PROVE  Shared(s, q) \cap reach[s] # {}
    <3>1. PICK i \in DOMAIN paths : paths[i].source = s /\ paths[i].peer = q
      BY <2>4, <2>7
    <3>2. PrivateWorks(paths[i])
      BY <2>7 DEF PrivateMesh
    <3>3. Settled(paths[i], blind)
      BY DEF SurveyInv
    <3>4. paths[i].private \in Tryable[s][q] /\ paths[i].private \in reach[s]
      BY <3>1, <3>2, <3>3 DEF Settled, PrivateWorks
    <3>. QED
      BY <2>3, <2>7, <3>4
  <2>8. ASSUME reachable, blind = {}, NEW i \in DOMAIN paths
        PROVE  PrivateWorks(paths[i])
    <3>. SUFFICES ASSUME ~ PrivateWorks(paths[i])
                  PROVE  FALSE
      OBVIOUS
    <3>1. PICK s, q : s = paths[i].source /\ q = paths[i].peer
      OBVIOUS
    <3>2. Settled(paths[i], blind)
      BY DEF SurveyInv
    <3>3. s \in Servers /\ q \in Servers /\ s # q
      BY <3>1, <3>2 DEF Settled, PairOf
    <3>4. Range(paths[i].tried) = Tryable[s][q] /\ Range(paths[i].tried) \cap reach[s] = {}
      BY <2>8, <3>1, <3>2 DEF Settled, PrivateWorks
    <3>5. Shared(s, q) \cap reach[s] # {}
      BY <2>8, <3>3
    <3>. QED
      BY <2>3, <3>3, <3>4, <3>5
  <2>9. PrivateMesh => reachable
    BY <2>7
  <2>10. reachable /\ blind = {} => PrivateMesh
    BY <2>5, <2>8 DEF PrivateMesh
  <2>. QED
    BY <2>6, <2>9, <2>10
<1>. QED
  BY <1>1, SurveyIsSound, PTL
=============================================================================
