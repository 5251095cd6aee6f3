---------------------------- MODULE Session_proofs ----------------------------
(***************************************************************************)
(* Proofs about Session and the addressing of Fleet, for every list of     *)
(* --host values, every set of switches and any labels.                    *)
(***************************************************************************)
EXTENDS Session, FiniteSetTheorems, WellFoundedInduction, TLAPS

-----------------------------------------------------------------------------
(***************************************************************************)
(* Counting: a set of numbers has a least member, and a first, a second,   *)
(* and so on to its last.                                                  *)
(***************************************************************************)

LEMMA LeastExists ==
  ASSUME NEW T \in SUBSET Nat, T # {}
  PROVE  \E x \in T : \A y \in T : x <= y
<1>1. \E x \in T : \A y \in T : ~ (<<y, x>> \in OpToRel(<, Nat))
  BY NatLessThanWellFounded, WFMin
<1>2. \A x, y \in Nat : <<y, x>> \in OpToRel(<, Nat) <=> y < x
  BY DEF OpToRel
<1>3. PICK x \in T : \A y \in T : ~ (<<y, x>> \in OpToRel(<, Nat))
  BY <1>1
<1>4. ASSUME NEW y \in T
      PROVE  x <= y
  <2>1. x \in Nat /\ y \in Nat /\ ~ (y < x)
    BY <1>2, <1>3
  <2>. QED
    BY <2>1
<1>. QED
  BY <1>4

\* How many members of a set of positions lie at or before k.
UpTo(F, k) == Cardinality(F \cap 1 .. k)

\* One position further on, a set has one member more or none.
LEMMA UpToGrows ==
  ASSUME NEW n \in Nat, NEW F \in SUBSET (1 .. n), NEW k \in Nat
  PROVE  /\ UpTo(F, k) \in Nat
         /\ UpTo(F, 0) = 0
         /\ UpTo(F, k + 1) = IF k + 1 \in F THEN UpTo(F, k) + 1 ELSE UpTo(F, k)
         /\ UpTo(F, n) = Cardinality(F)
         /\ Cardinality(F) \in Nat
<1>1. IsFiniteSet(F)
  <2>1. IsFiniteSet(1 .. n)
    BY FS_Interval
  <2>. QED
    BY <2>1, FS_Subset
<1>2. IsFiniteSet(F \cap 1 .. k)
  BY <1>1, FS_Subset
<1>3. F \cap 1 .. 0 = {} /\ F \cap 1 .. n = F
  <2>1. 1 .. 0 = {}
    OBVIOUS
  <2>2. F \cap 1 .. n = F
    OBVIOUS
  <2>. QED
    BY <2>1, <2>2
<1>4. F \cap 1 .. k + 1 = IF k + 1 \in F THEN (F \cap 1 .. k) \cup {k + 1} ELSE F \cap 1 .. k
  OBVIOUS
<1>5. k + 1 \notin F \cap 1 .. k
  OBVIOUS
<1>6. Cardinality((F \cap 1 .. k) \cup {k + 1}) = Cardinality(F \cap 1 .. k) + 1
  BY <1>2, <1>5, FS_AddElement
<1>7. Cardinality({}) = 0 /\ Cardinality(F) \in Nat /\ Cardinality(F \cap 1 .. k) \in Nat
  BY <1>1, <1>2, FS_EmptySet, FS_CardinalityType
<1>. QED
  BY <1>3, <1>4, <1>6, <1>7 DEF UpTo

\* A set of positions has an r-th member for every r up to its size.
LEMMA RthMember ==
  ASSUME NEW n \in Nat, NEW F \in SUBSET (1 .. n), NEW r \in 1 .. Cardinality(F)
  PROVE  \E k \in F : UpTo(F, k) = r
<1>. DEFINE T == {k \in 0 .. n : UpTo(F, k) >= r}
<1>1. Cardinality(F) \in Nat /\ UpTo(F, n) = Cardinality(F) /\ UpTo(F, 0) = 0
  BY UpToGrows
<1>2. T \in SUBSET Nat /\ n \in T
  BY <1>1
<1>3. PICK k \in T : \A y \in T : k <= y
  <2>. HIDE DEF T
  <2>. QED
    BY <1>2, LeastExists
<1>4. k \in 1 .. n
  BY <1>1, <1>3
<1>5. k - 1 \in 0 .. n /\ k - 1 \notin T
  BY <1>3, <1>4
<1>6. UpTo(F, k - 1) \in Nat /\ UpTo(F, k - 1) < r
  BY <1>1, <1>5, UpToGrows
<1>7. UpTo(F, (k - 1) + 1) = IF (k - 1) + 1 \in F THEN UpTo(F, k - 1) + 1 ELSE UpTo(F, k - 1)
  BY <1>5, UpToGrows
<1>8. (k - 1) + 1 = k /\ UpTo(F, k) >= r
  BY <1>3, <1>4
<1>. QED
  BY <1>6, <1>7, <1>8
-----------------------------------------------------------------------------
(***************************************************************************)
(* Addressing: the labels do not run out, the servers of a fleet are told  *)
(* apart, and a fleet that is well written is accepted.                    *)
(***************************************************************************)

\* The servers of some --host values, before they are labelled.
Targets(list) == [i \in DOMAIN list |-> TargetOf(list[i], User, Port)]
Taken(list)   == NamesOf(Targets(list)) \cup HostsOf(Targets(list))

\* A function over the first n positions is a sequence of that length.
LEMMA FunctionIsSequence ==
  ASSUME NEW n \in Nat, NEW f, f = [i \in 1 .. n |-> f[i]]
  PROVE  Len(f) = n /\ DOMAIN f = 1 .. n /\ (n > 0 => f # <<>>)
<1>. DEFINE S == {f[i] : i \in 1 .. n}
<1>1. f \in [1 .. n -> S]
  OBVIOUS
<1>2. f \in Seq(S) /\ Len(f) = n
  BY <1>1
<1>. QED
  BY <1>2

LEMMA ListsOfValues ==
  ASSUME NEW list \in Specs
  PROVE  list \in Seq(HostValue)
<1>1. Specs \subseteq Seq(HostValue)
  BY CallAssumption, SMTT(30)
<1>. QED
  BY <1>1

\* A list of values has a server for each, in order.
LEMMA TargetsShape ==
  ASSUME NEW list \in Specs
  PROVE  /\ Len(list) \in Nat /\ DOMAIN list = 1 .. Len(list)
         /\ Targets(list) = [i \in 1 .. Len(list) |-> TargetOf(list[i], User, Port)]
         /\ Len(Targets(list)) = Len(list)
         /\ DOMAIN Targets(list) = 1 .. Len(list)
         /\ \A i \in 1 .. Len(list) : Targets(list)[i] = TargetOf(list[i], User, Port)
<1>1. list \in Seq(HostValue)
  BY ListsOfValues
<1>2. Len(list) \in Nat /\ DOMAIN list = 1 .. Len(list)
  BY <1>1
<1>3. Targets(list) = [i \in 1 .. Len(list) |-> TargetOf(list[i], User, Port)]
  BY <1>2 DEF Targets
<1>4. /\ \A i \in 1 .. Len(list) : Targets(list)[i] = TargetOf(list[i], User, Port)
      /\ Targets(list) = [i \in 1 .. Len(list) |-> Targets(list)[i]]
  BY <1>3
<1>. QED
  BY <1>2, <1>3, <1>4, FunctionIsSequence

\* A list of n values keeps no more than 2n labels from being given.
LEMMA FewAreTaken ==
  ASSUME NEW list \in Specs
  PROVE  IsFiniteSet(Taken(list)) /\ Cardinality(Taken(list)) <= 2 * Len(list)
<1>. DEFINE n == Len(list)
            t == Targets(list)
            names == [i \in 1 .. n |-> t[i].name]
            hosts == [i \in 1 .. n |-> t[i].host]
<1>1. n \in Nat /\ DOMAIN t = 1 .. n
  BY TargetsShape
<1>2. IsFiniteSet(1 .. n) /\ Cardinality(1 .. n) = n
  BY <1>1, FS_Interval
<1>3. names \in Surjection(1 .. n, NamesOf(t)) /\ hosts \in Surjection(1 .. n, HostsOf(t))
  BY <1>1 DEF Surjection, NamesOf, HostsOf
<1>. HIDE DEF n, t, names, hosts
<1>4. /\ IsFiniteSet(NamesOf(t)) /\ Cardinality(NamesOf(t)) <= n
      /\ IsFiniteSet(HostsOf(t)) /\ Cardinality(HostsOf(t)) <= n
  BY <1>2, <1>3, FS_Surjection
<1>5. /\ IsFiniteSet(NamesOf(t) \cup HostsOf(t))
      /\ Cardinality(NamesOf(t) \cup HostsOf(t))
           = Cardinality(NamesOf(t)) + Cardinality(HostsOf(t))
             - Cardinality(NamesOf(t) \cap HostsOf(t))
  BY <1>4, FS_Union
<1>6. /\ Cardinality(NamesOf(t)) \in Nat /\ Cardinality(HostsOf(t)) \in Nat
      /\ Cardinality(NamesOf(t) \cap HostsOf(t)) \in Nat
  BY <1>4, FS_CardinalityType, FS_Intersection
<1>7. Taken(list) = NamesOf(t) \cup HostsOf(t)
  BY DEF Taken, t
<1>8. Cardinality(Taken(list)) <= 2 * n
  BY <1>1, <1>4, <1>5, <1>6, <1>7
<1>. QED
  BY <1>5, <1>7, <1>8 DEF n

\* So there is a free label for each of them.
LEMMA EnoughAreFree ==
  ASSUME NEW list \in Specs, NEW r \in 1 .. Len(list)
  PROVE  \E k \in Free(Taken(list)) : Cardinality(Free(Taken(list)) \cap 1 .. k) = r
<1>. DEFINE m == Len(Nodes)
            F == Free(Taken(list))
            U == (1 .. m) \ F
            label == [k \in U |-> Nodes[k]]
<1>1. /\ m \in Nat /\ DOMAIN Nodes = 1 .. m /\ m >= 3 * Len(list)
      /\ Len(list) \in Nat
      /\ \A k, l \in 1 .. m : Nodes[k] = Nodes[l] => k = l
  BY NodesAssumption, TargetsShape
<1>2. F \in SUBSET (1 .. m) /\ U \in SUBSET (1 .. m)
  BY <1>1 DEF Free
<1>3. label \in Injection(U, Taken(list))
  BY <1>1 DEF Injection, IsInjective, Free
<1>. HIDE DEF m, F, U, label
<1>4. Cardinality(U) <= Cardinality(Taken(list))
  BY <1>3, FewAreTaken, FS_Injection
<1>5. IsFiniteSet(1 .. m) /\ Cardinality(1 .. m) = m
  BY <1>1, FS_Interval
<1>6. IsFiniteSet(F) /\ IsFiniteSet(U)
  BY <1>2, <1>5, FS_Subset
<1>7. F \cup U = 1 .. m /\ F \cap U = {}
  BY <1>2 DEF U
<1>8. Cardinality(F \cup U) = Cardinality(F) + Cardinality(U) - Cardinality(F \cap U)
  BY <1>6, FS_Union
<1>9. /\ Cardinality({}) = 0 /\ Cardinality(F) \in Nat /\ Cardinality(U) \in Nat
      /\ Cardinality(Taken(list)) \in Nat /\ Cardinality(Taken(list)) <= 2 * Len(list)
  BY <1>6, FewAreTaken, FS_EmptySet, FS_CardinalityType
<1>10. m = Cardinality(F) + Cardinality(U)
  <2>1. Cardinality(F \cup U) = m /\ Cardinality(F \cap U) = 0
    BY <1>5, <1>7, <1>9
  <2>. QED
    BY <1>8, <1>9, <2>1
<1>11. Cardinality(F) >= Len(list)
  BY <1>1, <1>4, <1>9, <1>10
<1>12. r \in 1 .. Cardinality(F)
  BY <1>1, <1>9, <1>11
<1>13. \E k \in F : UpTo(F, k) = r
  BY <1>1, <1>2, <1>12, RthMember
<1>. QED
  BY <1>13 DEF UpTo, F

\* A server further on in the list that was not named has a higher rank among those.
LEMMA RanksRise ==
  ASSUME NEW list \in Specs, NEW i \in 1 .. Len(list), NEW j \in 1 .. Len(list),
         ~ Targets(list)[j].named
  PROVE  /\ Cardinality(UnnamedUpTo(Targets(list), j)) \in 1 .. Len(list)
         /\ i < j => Cardinality(UnnamedUpTo(Targets(list), i))
                       < Cardinality(UnnamedUpTo(Targets(list), j))
<1>. DEFINE t == Targets(list)
            A == UnnamedUpTo(t, i)
            B == UnnamedUpTo(t, j)
<1>1. Len(list) \in Nat
  BY TargetsShape
<1>2. j \in B /\ B \in SUBSET (1 .. j) /\ A \in SUBSET (1 .. i)
  BY DEF UnnamedUpTo
<1>3. IsFiniteSet(1 .. j) /\ Cardinality(1 .. j) = j /\ IsFiniteSet(1 .. i)
  BY FS_Interval
<1>4. i < j => A \in SUBSET B /\ j \notin A
  BY <1>2 DEF UnnamedUpTo
<1>. HIDE DEF t, A, B
<1>5. IsFiniteSet(B) /\ Cardinality(B) <= j /\ IsFiniteSet(A)
  BY <1>2, <1>3, FS_Subset
<1>6. Cardinality(B) \in Nat /\ Cardinality(A) \in Nat /\ Cardinality(B) # 0
  BY <1>2, <1>5, FS_CardinalityType, FS_EmptySet
<1>7. Cardinality(B) \in 1 .. Len(list)
  BY <1>1, <1>5, <1>6
<1>8. ASSUME i < j
      PROVE  Cardinality(A) < Cardinality(B)
  <2>1. Cardinality(A) <= Cardinality(B) /\ (Cardinality(A) = Cardinality(B) => A = B)
    BY <1>4, <1>5, <1>8, FS_Subset
  <2>2. A # B
    BY <1>2, <1>4, <1>8
  <2>. QED
    BY <1>6, <2>1, <2>2
<1>. QED
  BY <1>7, <1>8 DEF t, A, B

\* What labelling does to a server: nothing where it was named or is alone, else a free
\* label, and never the same one to two of them.
LEMMA LabellingOne ==
  ASSUME NEW list \in Specs, NEW i \in 1 .. Len(list)
  PROVE  LET t == Targets(list)
             s == Labelled(t)[i]
         IN  /\ s.host = t[i].host /\ s.user = t[i].user /\ s.port = t[i].port
             /\ t[i].named \/ Len(list) < 2 => s.name = t[i].name
             /\ ~ t[i].named /\ Len(list) >= 2 =>
                  \E k \in Free(Taken(list)) :
                    /\ s.name = Nodes[k]
                    /\ Cardinality(Free(Taken(list)) \cap 1 .. k)
                         = Cardinality(UnnamedUpTo(t, i))
<1>. DEFINE t == Targets(list)
            r == Cardinality(UnnamedUpTo(t, i))
            F == Free(Taken(list))
<1>1. /\ Len(list) \in Nat /\ Len(t) = Len(list) /\ DOMAIN t = 1 .. Len(list)
      /\ t[i] = TargetOf(list[i], User, Port)
  BY TargetsShape
<1>2. CASE Len(list) < 2
  BY <1>1, <1>2 DEF Labelled
<1>3. CASE ~ (Len(list) < 2) /\ t[i].named
  BY <1>1, <1>3 DEF Labelled
<1>4. CASE ~ (Len(list) < 2) /\ ~ t[i].named
  <2>1. Labelled(t)[i] = [t[i] EXCEPT !.name = FreeNode(Taken(list), r)]
    BY <1>1, <1>4 DEF Labelled, Taken
  <2>2. /\ Labelled(t)[i].name = FreeNode(Taken(list), r)
        /\ Labelled(t)[i].host = t[i].host /\ Labelled(t)[i].user = t[i].user
        /\ Labelled(t)[i].port = t[i].port
    BY <1>1, <2>1 DEF TargetOf
  <2>3. r \in 1 .. Len(list)
    BY <1>4, RanksRise
  <2>4. \E k \in F : Cardinality(F \cap 1 .. k) = r
    BY <2>3, EnoughAreFree
  <2>5. \E k \in F : FreeNode(Taken(list), r) = Nodes[k] /\ Cardinality(F \cap 1 .. k) = r
    BY <2>4 DEF FreeNode
  <2>. QED
    BY <1>4, <2>2, <2>5
<1>. QED
  BY <1>2, <1>3, <1>4

\* A list whose values are usable, at endpoints apart and with names apart, is a fleet:
\* the labels the harness makes up clash with nothing.
LEMMA WellWrittenIsAccepted ==
  ASSUME specs \in Specs, WellWritten
  PROVE  Accepted(specs, User, Port) # <<>>
<1>. DEFINE n == Len(specs)
            t == Targets(specs)
            s == Labelled(t)
            F == Free(Taken(specs))
<1>1. /\ n \in Nat /\ Len(t) = n /\ DOMAIN specs = 1 .. n /\ DOMAIN t = 1 .. n
      /\ \A i \in 1 .. n : t[i] = TargetOf(specs[i], User, Port)
  BY TargetsShape
<1>2. s = [i \in 1 .. n |-> s[i]]
  BY <1>1, TargetsShape DEF Labelled
<1>3. n > 0
  <2>1. specs \in Seq(HostValue)
    BY ListsOfValues
  <2>2. specs # <<>>
    BY Zenon DEF WellWritten
  <2>. QED
    BY <2>1, <2>2
<1>4. Len(s) = n /\ DOMAIN s = 1 .. n /\ s # <<>>
  BY <1>1, <1>2, <1>3, FunctionIsSequence
<1>5. \A i \in 1 .. n : Endpoint(s[i]) = Endpoint(t[i]) /\ s[i].host = t[i].host
  BY LabellingOne DEF Endpoint
<1>6. \A i \in 1 .. n : t[i].name \in Taken(specs) /\ t[i].host \in Taken(specs)
  BY <1>1 DEF Taken, NamesOf, HostsOf
<1>12. \A i \in 1 .. n : /\ t[i].host = specs[i].host
                         /\ t[i].named => specs[i].name # Unnamed /\ t[i].name = specs[i].name
                         /\ t[i].named => s[i].name = t[i].name
  <2>1. ASSUME NEW i \in 1 .. n
        PROVE  /\ t[i].host = specs[i].host
               /\ t[i].named <=> specs[i].name # Unnamed
               /\ specs[i].name # Unnamed => t[i].name = specs[i].name
    <3>1. t[i] = TargetOf(specs[i], User, Port)
      BY <1>1
    <3>2. /\ TargetOf(specs[i], User, Port).host = specs[i].host
          /\ specs[i].name # Unnamed => TargetOf(specs[i], User, Port).name = specs[i].name
      BY DEF TargetOf
    <3>3. TargetOf(specs[i], User, Port).named = (specs[i].name # Unnamed)
      BY Zenon DEF TargetOf
    <3>. QED
      BY <3>1, <3>2, <3>3, Zenon
  <2>. QED
    BY <2>1, LabellingOne
<1>7. ASSUME NEW i \in 1 .. n, NEW j \in 1 .. n, i # j
      PROVE  /\ s[i].name # s[j].name
             /\ Endpoint(s[i]) # Endpoint(s[j])
             /\ s[i].name # s[j].host
  <2>1. /\ Endpoint(t[i]) # Endpoint(t[j])
        /\ specs[i].name # Unnamed => specs[i].name \notin {specs[j].name, specs[j].host}
        /\ specs[j].name # Unnamed => specs[j].name \notin {specs[i].name, specs[i].host}
    BY <1>1, <1>7 DEF WellWritten, Targets
  <2>2. Endpoint(s[i]) # Endpoint(s[j])
    BY <1>5, <2>1
  <2>3. n >= 2
    BY <1>1, <1>7
  <2>4. CASE t[i].named /\ t[j].named
    <3>1. s[i].name = specs[i].name /\ s[j].name = specs[j].name /\ s[j].host = specs[j].host
      BY <1>5, <1>12, <2>4
    <3>2. specs[i].name \notin {specs[j].name, specs[j].host}
      BY <1>12, <2>1, <2>4
    <3>. QED
      BY <2>2, <3>1, <3>2
  <2>5. CASE t[i].named /\ ~ t[j].named
    <3>1. PICK k \in F : s[j].name = Nodes[k]
      BY <2>3, <2>5, LabellingOne
    <3>2. s[j].name \notin Taken(specs)
      BY <3>1 DEF Free
    <3>3. s[i].name = t[i].name
      BY <2>5, LabellingOne
    <3>4. s[i].name # s[j].host
      BY <1>5, <1>12, <2>1, <2>5
    <3>. QED
      BY <1>6, <2>2, <3>2, <3>3, <3>4
  <2>6. CASE ~ t[i].named /\ t[j].named
    <3>1. PICK k \in F : s[i].name = Nodes[k]
      BY <2>3, <2>6, LabellingOne
    <3>2. s[i].name \notin Taken(specs)
      BY <3>1 DEF Free
    <3>3. s[j].name = t[j].name
      BY <2>6, LabellingOne
    <3>. QED
      BY <1>5, <1>6, <2>2, <3>2, <3>3
  <2>7. CASE ~ t[i].named /\ ~ t[j].named
    <3>1. PICK k \in F : /\ s[i].name = Nodes[k]
                         /\ Cardinality(F \cap 1 .. k) = Cardinality(UnnamedUpTo(t, i))
      BY <2>3, <2>7, LabellingOne
    <3>2. PICK l \in F : /\ s[j].name = Nodes[l]
                         /\ Cardinality(F \cap 1 .. l) = Cardinality(UnnamedUpTo(t, j))
      BY <2>3, <2>7, LabellingOne
    <3>3. Cardinality(UnnamedUpTo(t, i)) # Cardinality(UnnamedUpTo(t, j))
      <4>1. /\ Cardinality(UnnamedUpTo(t, i)) \in 1 .. n
            /\ Cardinality(UnnamedUpTo(t, j)) \in 1 .. n
            /\ i < j => Cardinality(UnnamedUpTo(t, i)) < Cardinality(UnnamedUpTo(t, j))
            /\ j < i => Cardinality(UnnamedUpTo(t, j)) < Cardinality(UnnamedUpTo(t, i))
        BY <2>7, RanksRise
      <4>. HIDE DEF t
      <4>2. i < j \/ j < i
        BY <1>1, <1>7
      <4>. QED
        BY <1>1, <4>1, <4>2
    <3>4. k # l /\ k \in DOMAIN Nodes /\ l \in DOMAIN Nodes
      BY <3>1, <3>2, <3>3 DEF Free
    <3>5. s[i].name # s[j].name
      BY <3>1, <3>2, <3>4, NodesAssumption
    <3>6. s[i].name \notin Taken(specs)
      BY <3>1 DEF Free
    <3>. QED
      BY <1>5, <1>6, <2>2, <3>5, <3>6
  <2>. QED
    BY <2>4, <2>5, <2>6, <2>7
<1>8. Distinct(s)
  <2>. HIDE DEF s
  <2>. QED
    BY <1>4, <1>7 DEF Distinct
<1>9. specs # <<>> /\ \A i \in DOMAIN specs : Usable(specs[i])
  BY DEF WellWritten
<1>10. Accepted(specs, User, Port) = s
  BY <1>8, <1>9 DEF Accepted, Targets
<1>. QED
  BY <1>4, <1>10

\* Where names and endpoints are apart, a name and a label find their own server, and
\* an address finds a server of that address or none.
LEMMA ApartAreFound ==
  ASSUME Distinct(fleet), IsFiniteSet(DOMAIN fleet)
  PROVE  NamesFindTheirServer
<1>. SUFFICES ASSUME NEW i \in DOMAIN fleet
              PROVE  /\ Find(fleet, << <<fleet[i].name>> >>) = i
                     /\ Find(fleet, << Label(fleet[i]), <<"replica">> >>) = i
                     /\ LET j == Find(fleet, << <<fleet[i].host>> >>)
                        IN  j = 0 \/ fleet[j].host = fleet[i].host
  BY DEF NamesFindTheirServer
<1>. DEFINE exact(w) == {j \in DOMAIN fleet : Spelled(fleet[j], w)}
            begun(w) == {j \in DOMAIN fleet : Prefixed(fleet[j], w)}
            meant(w) == IF exact(w) # {} THEN exact(w) ELSE begun(w)
<1>0. \A words : Find(fleet, words) =
                   IF words # <<>> /\ Cardinality(meant(words[1])) = 1
                   THEN CHOOSE k \in meant(words[1]) : TRUE ELSE 0
  BY Zenon DEF Find
<1>1. ASSUME NEW words, words # <<>>, exact(words[1]) = {i}
      PROVE  Find(fleet, words) = i
  <2>1. Cardinality({i}) = 1
    BY FS_Singleton
  <2>2. meant(words[1]) = {i}
    BY <1>1
  <2>3. (CHOOSE k \in {i} : TRUE) = i
    OBVIOUS
  <2>. HIDE DEF meant
  <2>. QED
    BY <1>0, <1>1, <2>1, <2>2, <2>3
<1>2. ASSUME NEW j \in DOMAIN fleet, j # i
      PROVE  /\ fleet[i].name # fleet[j].name /\ fleet[i].name # fleet[j].host
             /\ Endpoint(fleet[i]) # Endpoint(fleet[j])
  BY <1>2 DEF Distinct
<1>3. ASSUME NEW j \in DOMAIN fleet
      PROVE  /\ \A x : <<x>> # Label(fleet[j])
             /\ Label(fleet[j]) # <<>>
             /\ Label(fleet[i]) = Label(fleet[j]) => Endpoint(fleet[i]) = Endpoint(fleet[j])
  BY DEF Label, Endpoint
<1>4. exact(<<fleet[i].name>>) = {i}
  <2>1. \A j \in DOMAIN fleet : Spelled(fleet[j], <<fleet[i].name>>) <=> j = i
    BY <1>2, <1>3 DEF Spelled
  <2>. QED
    BY <2>1
<1>5. exact(Label(fleet[i])) = {i}
  <2>1. \A j \in DOMAIN fleet : Spelled(fleet[j], Label(fleet[i])) <=> j = i
    BY <1>2, <1>3 DEF Spelled
  <2>. QED
    BY <2>1
<1>6. Find(fleet, << <<fleet[i].name>> >>) = i
  BY <1>1, <1>4
<1>7. Find(fleet, << Label(fleet[i]), <<"replica">> >>) = i
  BY <1>1, <1>5
<1>8. ASSUME NEW j, j = Find(fleet, << <<fleet[i].host>> >>), j # 0
      PROVE  fleet[j].host = fleet[i].host
  <2>. DEFINE w == <<fleet[i].host>>
  <2>1. i \in exact(w)
    BY DEF Spelled
  <2>2. meant(w) = exact(w) /\ << w >>[1] = w /\ << w >> # <<>>
    BY <2>1
  <2>3. Cardinality(exact(w)) = 1 /\ j = CHOOSE k \in exact(w) : TRUE
    <3>. HIDE DEF exact, meant
    <3>. QED
      BY <1>0, <1>8, <2>2
  <2>4. \E k : exact(w) = {k}
    <3>1. exact(w) \in SUBSET (DOMAIN fleet)
      OBVIOUS
    <3>. HIDE DEF exact
    <3>2. IsFiniteSet(exact(w))
      BY <3>1, FS_Subset
    <3>. QED
      BY <2>3, <3>2, FS_Singleton
  <2>. HIDE DEF exact
  <2>. QED
    BY <2>1, <2>3, <2>4
<1>. QED
  BY <1>6, <1>7, <1>8
-----------------------------------------------------------------------------
(***************************************************************************)
(* The inductive invariant: what the call knows at each of its places.     *)
(***************************************************************************)

Early == {"prepare", "targets"}
Late  == {"survey", "root", "record", "plan", "gate", "work"} \cup Ending

\* The fleet is the one that was accepted, and there is no exit code before the end.
FleetFits ==
  /\ specs \in Specs
  /\ pc \in Early \cup {"connect"} \cup Late \cup {"over"}
  /\ fleet = <<>> \/ fleet = Accepted(specs, User, Port)
  /\ pc \in {"connect"} \cup Late => fleet # <<>>
  /\ pc # "over" => code = NoCode

\* Connections are opened in fleet order.
Opened ==
  /\ pc \in Early => open = {}
  /\ pc = "connect" => \E k \in 0 .. Len(fleet) - 1 : open = 1 .. k
  /\ pc \in Late => open = DOMAIN fleet
  /\ pc = "over" /\ (code # Traceback \/ status # "none") => open = {}

Answered(i) == Key(i) \in known \/ Asked("key", i)

\* Past a question, it has been answered.
Consented ==
  /\ \A i \in open : Answered(i)
  /\ pc \in Late \/ worked => \A i \in DOMAIN fleet : Answered(i)
  /\ pc \in Late \ {"survey", "root"} \/ worked => (starved # {} => Asked("root", 0))
  /\ pc \in {"work", "save", "interrupted"} \/ worked => (args.mode = "plan" => Asked("plan", 0))

\* What the record says at each place, and what the exit code makes of it.
Recorded ==
  /\ pc \in Early \cup {"connect", "survey", "root", "record"} => ~ worked /\ status = "none" /\ ~ reported
  /\ pc \in {"plan", "gate", "work"} => ~ worked /\ status = "running" /\ ~ reported
  /\ pc = "unrun" => ~ worked /\ status \in {"failed", "cancelled"} /\ args.mode = "plan"
  /\ pc = "save" => worked /\ status \notin {"none", "running"}
  /\ pc = "interrupted" => worked /\ status = "cancelled"
  /\ pc \in {"plan", "gate"} => args.mode = "plan"
  /\ pc # "prepare" => ~ args.list \/ pc = "over"
  /\ CodeTellsEnding

CallInv == FleetFits /\ Opened /\ Consented /\ Recorded

\* A fleet that was accepted is a sequence with a server at least, told apart.
LEMMA AcceptedShape ==
  ASSUME NEW list \in Specs, NEW f, f = Accepted(list, User, Port), f # <<>>
  PROVE  Len(f) \in Nat /\ Len(f) > 0 /\ DOMAIN f = 1 .. Len(f) /\ Distinct(f)
<1>. DEFINE s == Labelled(Targets(list))
<1>1. list # <<>> /\ Distinct(f) /\ f = s
  BY DEF Accepted, Targets
<1>2. /\ Len(list) \in Nat /\ DOMAIN list = 1 .. Len(list)
      /\ Len(Targets(list)) = Len(list) /\ DOMAIN Targets(list) = 1 .. Len(list)
  BY TargetsShape
<1>3. s = [i \in 1 .. Len(list) |-> s[i]]
  BY <1>2, TargetsShape DEF Labelled
<1>4. Len(list) > 0
  <2>1. list \in Seq(HostValue)
    BY ListsOfValues
  <2>. QED
    BY <1>1, <2>1
<1>. HIDE DEF s
<1>5. Len(s) = Len(list) /\ DOMAIN s = 1 .. Len(list)
  BY <1>2, <1>3, FunctionIsSequence
<1>. QED
  BY <1>1, <1>2, <1>4, <1>5

LEMMA FleetShape ==
  ASSUME FleetFits
  PROVE  /\ Len(fleet) \in Nat /\ DOMAIN fleet = 1 .. Len(fleet)
         /\ fleet # <<>> => Len(fleet) > 0
         /\ Distinct(fleet)
<1>1. CASE fleet = <<>>
  BY <1>1 DEF Distinct
<1>2. CASE fleet # <<>>
  BY <1>2, AcceptedShape DEF FleetFits
<1>. QED
  BY <1>1, <1>2

LEMMA CallBegins == Init => CallInv
<1>. SUFFICES ASSUME Init PROVE CallInv
  OBVIOUS
<1>1. FleetFits
  BY DEF Init, FleetFits, Early, Late, Ending
<1>2. Opened
  BY DEF Init, Opened, Early, Late, Ending
<1>3. ~ worked /\ ~ reported
  BY Zenon DEF Init
<1>4. Consented
  BY <1>3 DEF Init, Consented, Late, Ending
<1>5. Recorded
  BY <1>3 DEF Init, Recorded, CodeTellsEnding, Early
<1>. QED
  BY <1>1, <1>2, <1>4, <1>5 DEF CallInv

\* The call is what it was, and only the check of its targets makes a fleet.
LEMMA FleetStep ==
  ASSUME FleetFits, [Next]_vars
  PROVE  FleetFits'
<1>. USE DEF FleetFits, Early, Late, Ending, call
<1>1. CASE PrepareFails \/ ListModels \/ Prepare \/ RefuseFleet
  BY <1>1 DEF PrepareFails, ListModels, Prepare, RefuseFleet, Exit
<1>2. CASE AcceptFleet
  BY <1>2 DEF AcceptFleet
<1>3. CASE Connect \/ ConnectFails \/ InterruptEarly
  BY <1>3 DEF Connect, ConnectFails, InterruptEarly, Exit
<1>4. CASE Survey \/ SurveyOnly \/ CarryOn \/ StopWithoutRoot
  BY <1>4 DEF Survey, SurveyOnly, CarryOn, StopWithoutRoot, Exit
<1>5. CASE BeginRecord \/ NoPlan \/ ShowPlan \/ DeclinePlan \/ ApprovePlan
  BY <1>5 DEF BeginRecord, NoPlan, ShowPlan, DeclinePlan, ApprovePlan, EndUnrun, Exit
<1>6. CASE Work \/ InterruptWork \/ WriteReport \/ Return \/ Interrupt \/ Raise
  BY <1>6 DEF Work, InterruptWork, WriteReport, Return, Interrupt, Raise, Exit
<1>7. CASE UNCHANGED vars
  BY <1>7 DEF vars
<1>. QED
  BY <1>1, <1>2, <1>3, <1>4, <1>5, <1>6, <1>7 DEF Next, Over

\* While connections are opened, those that are open are the first of the fleet.
LEMMA NearestIsNext ==
  ASSUME FleetFits, Opened, pc = "connect"
  PROVE  Nearest \in DOMAIN fleet /\ open = 1 .. Nearest - 1 /\ Nearest <= Len(fleet)
<1>1. PICK k \in 0 .. Len(fleet) - 1 : open = 1 .. k
  BY DEF Opened
<1>2. Len(fleet) \in Nat /\ DOMAIN fleet = 1 .. Len(fleet)
  BY FleetShape
<1>3. Cardinality(1 .. k) = k
  BY <1>1, <1>2, FS_Interval
<1>. QED
  BY <1>1, <1>2, <1>3 DEF Nearest

LEMMA OpenStep ==
  ASSUME FleetFits, Opened, Recorded, [Next]_vars
  PROVE  Opened'
<1>. USE DEF Opened, Early, Late, Ending, call
<1>1. CASE PrepareFails \/ ListModels \/ Prepare \/ RefuseFleet
  BY <1>1 DEF PrepareFails, ListModels, Prepare, RefuseFleet, Exit
<1>2. CASE AcceptFleet
  <2>1. Len(fleet') \in Nat /\ Len(fleet') > 0
    <3>1. specs \in Specs /\ fleet' = Accepted(specs, User, Port) /\ fleet' # <<>>
      BY <1>2 DEF AcceptFleet, FleetFits
    <3>. QED
      BY <3>1, AcceptedShape
  <2>2. open' = {} /\ pc' = "connect"
    BY <1>2 DEF AcceptFleet
  <2>. QED
    BY <2>1, <2>2
<1>3. CASE Connect
  <2>1. Nearest \in DOMAIN fleet /\ open = 1 .. Nearest - 1 /\ Nearest <= Len(fleet)
    BY <1>3, NearestIsNext DEF Connect
  <2>2. Len(fleet) \in Nat /\ DOMAIN fleet = 1 .. Len(fleet)
    BY FleetShape
  <2>3. /\ fleet' = fleet /\ open' = open \cup {Nearest}
        /\ pc' = IF Nearest = Len(fleet) THEN "survey" ELSE "connect"
    BY <1>3 DEF Connect
  <2>4. PICK m : m = Nearest
    OBVIOUS
  <2>5. m \in 1 .. Len(fleet) /\ open' = 1 .. m
    BY <2>1, <2>2, <2>3, <2>4
  <2>6. CASE m = Len(fleet)
    BY <2>2, <2>3, <2>4, <2>5, <2>6
  <2>7. CASE m # Len(fleet)
    <3>1. m \in 0 .. Len(fleet) - 1
      <4>1. m \in 1 .. Len(fleet) /\ Len(fleet) \in Nat
        BY <2>2, <2>5
      <4>. HIDE DEF Opened
      <4>. QED
        BY <2>7, <4>1
    <3>2. m \in 0 .. Len(fleet') - 1 /\ pc' = "connect"
      BY <2>3, <2>4, <2>7, <3>1
    <3>. QED
      BY <2>5, <3>2
  <2>. QED
    BY <2>6, <2>7
<1>4. CASE ConnectFails \/ InterruptEarly
  BY <1>4 DEF ConnectFails, InterruptEarly, Recorded, Exit
<1>5. CASE Survey \/ SurveyOnly \/ CarryOn \/ StopWithoutRoot
  BY <1>5 DEF Survey, SurveyOnly, CarryOn, StopWithoutRoot, Exit
<1>6. CASE BeginRecord \/ NoPlan \/ ShowPlan \/ DeclinePlan \/ ApprovePlan
  BY <1>6 DEF BeginRecord, NoPlan, ShowPlan, DeclinePlan, ApprovePlan, EndUnrun, Exit
<1>7. CASE Work \/ InterruptWork \/ WriteReport \/ Return \/ Interrupt \/ Raise
  BY <1>7 DEF Work, InterruptWork, WriteReport, Return, Interrupt, Raise, Exit
<1>8. CASE UNCHANGED vars
  BY <1>8 DEF vars
<1>. QED
  BY <1>1, <1>2, <1>3, <1>4, <1>5, <1>6, <1>7, <1>8 DEF Next, Over

\* What was said yes to stays said, to the same call.
LEMMA AnswersLast ==
  ASSUME UNCHANGED <<call, fleet>>, known \subseteq known', consents \subseteq consents'
  PROVE  /\ \A i : Answered(i) => Answered(i)'
         /\ \A question, about : Asked(question, about) => Asked(question, about)'
<1>1. args' = args /\ tty' = tty /\ fleet' = fleet
  BY DEF call
<1>2. ASSUME NEW c
      PROVE  Entitled(c) => Entitled(c)'
  BY <1>1, Zenon DEF Entitled
<1>3. ASSUME NEW question, NEW about, Asked(question, about)
      PROVE  Asked(question, about)'
  <2>1. PICK c \in consents : c[1] = question /\ c[2] = about /\ Entitled(c)
    BY <1>3 DEF Asked
  <2>2. c \in consents' /\ Entitled(c)'
    BY <1>2, <2>1
  <2>. QED
    BY <2>1, <2>2 DEF Asked
<1>4. \A i : Key(i)' = Key(i)
  BY <1>1 DEF Key
<1>. QED
  BY <1>3, <1>4 DEF Answered

\* Whoever says yes is entitled to: a switch answers what it is for, the operator
\* the rest.
LEMMA WhoSaysYesMay ==
  ASSUME NEW question \in {"key", "root", "plan"}, NEW about,
         UNCHANGED call, SaysYes(question, about)
  PROVE  consents \subseteq consents' /\ Asked(question, about)'
<1>1. args' = args /\ tty' = tty
  BY DEF call
<1>2. PICK who : who = IF Switch(question) # "nobody" THEN Switch(question) ELSE "operator"
  OBVIOUS
<1>. DEFINE c == <<question, about, who>>
<1>3. (who = "operator" => tty) /\ consents' = consents \cup {c}
  BY <1>2 DEF SaysYes
<1>4. \/ who = "operator"
      \/ who = "accept-host-key" /\ question = "key" /\ args.accept
      \/ who = "unattended" /\ args.mode = "unattended"
      \/ who = "yes" /\ question = "plan" /\ args.yes
  BY <1>2, Zenon DEF Switch, Unattended
<1>5. c[1] = question /\ c[2] = about /\ c[3] = who /\ c \in consents'
  BY <1>3
<1>. HIDE DEF c
<1>6. Entitled(c)'
  BY <1>1, <1>3, <1>4, <1>5, Zenon DEF Entitled
<1>. QED
  BY <1>3, <1>5, <1>6 DEF Asked

\* A step that reaches no new question keeps the answers.
LEMMA NothingAsked ==
  ASSUME Consented, UNCHANGED <<call, fleet, starved>>,
         known \subseteq known', consents \subseteq consents', open' \subseteq open,
         pc' \in Late \/ worked' => pc \in Late \/ worked,
         pc' \in Late \ {"survey", "root"} \/ worked' => pc \in Late \ {"survey", "root"} \/ worked,
         pc' \in {"work", "save", "interrupted"} \/ worked' =>
           pc \in {"work", "save", "interrupted"} \/ worked
  PROVE  Consented'
<1>1. fleet' = fleet /\ starved' = starved /\ args' = args
  BY DEF call
<1>2. /\ \A i : Answered(i) => Answered(i)'
      /\ \A question, about : Asked(question, about) => Asked(question, about)'
  BY AnswersLast
<1>3. \A i \in open' : Answered(i)'
  BY <1>2 DEF Consented
<1>4. pc' \in Late \/ worked' => \A i \in DOMAIN fleet' : Answered(i)'
  BY <1>1, <1>2 DEF Consented
<1>5. pc' \in Late \ {"survey", "root"} \/ worked' => (starved' # {} => Asked("root", 0)')
  BY <1>1, <1>2 DEF Consented
<1>6. pc' \in {"work", "save", "interrupted"} \/ worked' =>
        (args'.mode = "plan" => Asked("plan", 0)')
  BY <1>1, <1>2 DEF Consented
<1>. QED
  BY <1>3, <1>4, <1>5, <1>6 DEF Consented, Late

LEMMA ConsentStep ==
  ASSUME CallInv, [Next]_vars
  PROVE  Consented'
<1>. USE DEF CallInv, Late, Ending
<1>1. CASE PrepareFails \/ ListModels \/ Prepare \/ RefuseFleet \/ InterruptEarly
  BY <1>1, NothingAsked
     DEF PrepareFails, ListModels, Prepare, RefuseFleet, InterruptEarly, Exit
<1>2. CASE AcceptFleet
  <2>1. pc = "targets" /\ pc' = "connect" /\ open' = open
    BY <1>2 DEF AcceptFleet
  <2>2. ~ worked /\ worked' = worked
    BY <1>2, Zenon DEF AcceptFleet, Recorded, Early
  <2>3. open' = {}
    BY <2>1 DEF Opened, Early
  <2>. QED
    BY <2>1, <2>2, <2>3 DEF Consented
<1>3. CASE Connect
  <2>1. PICK m : m = Nearest
    OBVIOUS
  <2>2. /\ pc = "connect" /\ UNCHANGED <<call, fleet>> /\ starved' = starved
        /\ known \subseteq known' /\ open' = open \cup {m}
        /\ pc' = IF m = Len(fleet) THEN "survey" ELSE "connect"
    BY <1>3, <2>1 DEF Connect
  <2>3. ~ worked /\ worked' = worked
    BY <1>3, Zenon DEF Connect, Recorded, Early
  <2>4. consents \subseteq consents' /\ Answered(m)'
    <3>1. CASE Key(m) \in known
      <4>1. Key(m)' = Key(m) /\ known \subseteq known'
        BY <2>2 DEF Key
      <4>2. consents' = consents
        BY <1>3, <2>1, <3>1 DEF Connect, KeyAccepted
      <4>. QED
        BY <3>1, <4>1, <4>2 DEF Answered
    <3>2. CASE Key(m) \notin known
      <4>1. SaysYes("key", m)
        BY <1>3, <2>1, <3>2 DEF Connect, KeyAccepted
      <4>2. consents \subseteq consents' /\ Asked("key", m)'
        BY <2>2, <4>1, WhoSaysYesMay
      <4>. QED
        BY <4>2 DEF Answered
    <3>. QED
      BY <3>1, <3>2
  <2>5. \A i \in open' : Answered(i)'
    <3>1. \A i \in open : Answered(i)
      BY DEF Consented
    <3>2. \A i : Answered(i) => Answered(i)'
      BY <2>2, <2>4, AnswersLast
    <3>. QED
      BY <2>2, <2>4, <3>1, <3>2
  <2>6. pc' = "survey" => open' = DOMAIN fleet'
    BY <1>3, <2>2, OpenStep DEF Opened
  <2>. QED
    BY <2>2, <2>3, <2>5, <2>6 DEF Consented
<1>4. CASE ConnectFails
  <2>1. ~ worked /\ worked' = worked
    BY <1>4, Zenon DEF ConnectFails, Recorded, Early
  <2>2. pc' = "over" /\ open' = {}
    BY <1>4 DEF ConnectFails, Exit
  <2>. QED
    BY <2>1, <2>2 DEF Consented
<1>5. CASE Survey \/ SurveyOnly
  <2>1. ~ worked /\ worked' = worked
    BY <1>5, Zenon DEF Survey, SurveyOnly, Recorded, Early
  <2>2. /\ pc = "survey" /\ fleet' = fleet /\ open' \subseteq open
        /\ pc' = "over" \/ pc' = IF starved' = {} THEN "record" ELSE "root"
        /\ UNCHANGED <<call, fleet>> /\ known' = known /\ consents' = consents
    BY <1>5 DEF Survey, SurveyOnly, Exit
  <2>3. \A i : Answered(i) => Answered(i)'
    BY <2>2, AnswersLast
  <2>. QED
    BY <2>1, <2>2, <2>3 DEF Consented
<1>6. CASE CarryOn
  <2>1. ~ worked /\ worked' = worked
    BY <1>6, Zenon DEF CarryOn, Recorded, Early
  <2>2. /\ pc = "root" /\ pc' = "record" /\ fleet' = fleet /\ open' = open
        /\ UNCHANGED <<call, fleet>> /\ known' = known
    BY <1>6 DEF CarryOn
  <2>3. consents \subseteq consents' /\ Asked("root", 0)'
    BY <1>6, <2>2, WhoSaysYesMay DEF CarryOn
  <2>4. \A i : Answered(i) => Answered(i)'
    BY <2>2, <2>3, AnswersLast
  <2>. QED
    BY <2>1, <2>2, <2>3, <2>4 DEF Consented
<1>7. CASE StopWithoutRoot
  BY <1>7, NothingAsked DEF StopWithoutRoot, Exit
<1>8. CASE BeginRecord
  <2>1. ~ worked /\ worked' = worked
    BY <1>8, Zenon DEF BeginRecord, Recorded, Early
  <2>2. /\ pc = "record" /\ pc' = IF args.mode = "plan" THEN "plan" ELSE "work"
        /\ UNCHANGED <<call, fleet>> /\ UNCHANGED <<open, known, consents, starved>>
    BY <1>8 DEF BeginRecord
  <2>3. args' = args /\ fleet' = fleet
    BY <2>2 DEF call
  <2>4. /\ \A i : Answered(i) => Answered(i)'
        /\ \A question, about : Asked(question, about) => Asked(question, about)'
    BY <2>2, AnswersLast
  <2>. QED
    BY <2>1, <2>2, <2>3, <2>4 DEF Consented
<1>9. CASE NoPlan \/ ShowPlan \/ DeclinePlan
  BY <1>9, NothingAsked DEF NoPlan, ShowPlan, DeclinePlan, EndUnrun, Exit
<1>10. CASE ApprovePlan
  <2>1. ~ worked /\ worked' = worked
    BY <1>10, Zenon DEF ApprovePlan, Recorded
  <2>2. /\ pc = "gate" /\ pc' = "work" /\ UNCHANGED <<call, fleet>>
        /\ UNCHANGED <<open, known, starved>>
    BY <1>10 DEF ApprovePlan
  <2>3. consents \subseteq consents' /\ Asked("plan", 0)'
    BY <1>10, <2>2, WhoSaysYesMay DEF ApprovePlan
  <2>4. /\ \A i : Answered(i) => Answered(i)'
        /\ \A question, about : Asked(question, about) => Asked(question, about)'
    BY <2>2, <2>3, AnswersLast
  <2>5. fleet' = fleet
    BY <2>2
  <2>. QED
    BY <2>1, <2>2, <2>3, <2>4, <2>5 DEF Consented
<1>11. CASE Work \/ InterruptWork
  BY <1>11, NothingAsked DEF Work, InterruptWork
<1>12. CASE WriteReport \/ Return \/ Interrupt
  BY <1>12, NothingAsked DEF WriteReport, Return, Interrupt, Exit
<1>13. CASE Raise
  <2>1. worked' => worked \/ pc = "work"
    BY <1>13, Zenon DEF Raise
  <2>. QED
    BY <1>13, <2>1, NothingAsked DEF Raise, Exit
<1>14. CASE UNCHANGED vars
  BY <1>14, NothingAsked DEF vars, call
<1>. QED
  BY <1>1, <1>2, <1>3, <1>4, <1>5, <1>6, <1>7, <1>8, <1>9, <1>10, <1>11, <1>12, <1>13, <1>14
     DEF Next, Over

\* The record goes along with the call, and the exit code with the record.
LEMMA RecordStep ==
  ASSUME CallInv, [Next]_vars
  PROVE  Recorded'
<1>. USE DEF CallInv, Early, Late, Ending, NoCode, Traceback, call
<1>1. CASE PrepareFails \/ ListModels \/ Prepare \/ RefuseFleet
  <2>1. pc \in {"prepare", "targets"} /\ ~ worked /\ status = "none" /\ ~ reported
    BY <1>1, Zenon DEF PrepareFails, ListModels, Prepare, RefuseFleet, Recorded
  <2>2. worked' = worked /\ reported' = reported /\ status' = status /\ args' = args
    BY <1>1, Zenon DEF PrepareFails, ListModels, Prepare, RefuseFleet
  <2>3. \/ pc' = "over" /\ code' = 2
        \/ pc' = "over" /\ code' = 0 /\ args.list
        \/ pc' = "targets" /\ ~ args.list
    BY <1>1 DEF PrepareFails, ListModels, Prepare, RefuseFleet, Exit
  <2>. QED
    BY <2>1, <2>2, <2>3 DEF Recorded, CodeTellsEnding
<1>2. CASE AcceptFleet \/ Connect \/ ConnectFails
  <2>1. pc \in {"targets", "connect"} /\ ~ worked /\ status = "none" /\ ~ reported /\ ~ args.list
    BY <1>2, Zenon DEF AcceptFleet, Connect, ConnectFails, Recorded
  <2>2. worked' = worked /\ reported' = reported /\ status' = status /\ args' = args
    BY <1>2, Zenon DEF AcceptFleet, Connect, ConnectFails
  <2>3. pc' \in {"connect", "survey"} \/ (pc' = "over" /\ code' = 2)
    BY <1>2 DEF AcceptFleet, Connect, ConnectFails, Exit
  <2>. QED
    BY <2>1, <2>2, <2>3 DEF Recorded, CodeTellsEnding
<1>3. CASE InterruptEarly
  <2>1. pc \in {"prepare", "targets", "connect"} /\ ~ worked /\ ~ reported
    BY <1>3, Zenon DEF InterruptEarly, Recorded
  <2>2. worked' = worked /\ reported' = reported /\ pc' = "over" /\ code' = 1000
    BY <1>3, Zenon DEF InterruptEarly
  <2>. QED
    BY <2>1, <2>2 DEF Recorded, CodeTellsEnding
<1>4. CASE Survey \/ SurveyOnly \/ CarryOn \/ StopWithoutRoot
  <2>1. pc \in {"survey", "root"} /\ ~ worked /\ status = "none" /\ ~ reported /\ ~ args.list
    BY <1>4, Zenon DEF Survey, SurveyOnly, CarryOn, StopWithoutRoot, Recorded
  <2>2. worked' = worked /\ reported' = reported /\ status' = status /\ args' = args
    BY <1>4, Zenon DEF Survey, SurveyOnly, CarryOn, StopWithoutRoot
  <2>3. \/ pc' \in {"root", "record"}
        \/ pc' = "over" /\ code' = 0 /\ args.probe
        \/ pc' = "over" /\ code' = 2
    BY <1>4 DEF Survey, SurveyOnly, CarryOn, StopWithoutRoot, Exit
  <2>. QED
    BY <2>1, <2>2, <2>3 DEF Recorded, CodeTellsEnding
<1>5. CASE BeginRecord
  <2>1. pc = "record" /\ ~ worked /\ ~ reported /\ ~ args.list
    BY <1>5, Zenon DEF BeginRecord, Recorded
  <2>2. worked' = worked /\ reported' = reported /\ status' = "running" /\ args' = args
    BY <1>5, Zenon DEF BeginRecord
  <2>3. pc' \in {"plan", "work"} /\ (pc' = "plan" => args.mode = "plan")
    BY <1>5 DEF BeginRecord
  <2>. QED
    BY <2>1, <2>2, <2>3 DEF Recorded, CodeTellsEnding
<1>6. CASE ShowPlan \/ ApprovePlan
  <2>1. pc \in {"plan", "gate"} /\ ~ worked /\ status = "running" /\ ~ reported /\ ~ args.list
    BY <1>6, Zenon DEF ShowPlan, ApprovePlan, Recorded
  <2>2. worked' = worked /\ reported' = reported /\ status' = status /\ args' = args
    BY <1>6, Zenon DEF ShowPlan, ApprovePlan
  <2>3. pc' \in {"gate", "work"} /\ args.mode = "plan"
    BY <1>6 DEF ShowPlan, ApprovePlan, Recorded
  <2>. QED
    BY <2>1, <2>2, <2>3 DEF Recorded, CodeTellsEnding
<1>7. CASE NoPlan \/ DeclinePlan
  <2>1. pc \in {"plan", "gate"} /\ ~ worked /\ ~ reported /\ ~ args.list /\ args.mode = "plan"
    BY <1>7, Zenon DEF NoPlan, DeclinePlan, Recorded
  <2>2. worked' = worked /\ reported' = reported /\ args' = args
    BY <1>7, Zenon DEF NoPlan, DeclinePlan, EndUnrun
  <2>3. status' \in {"failed", "cancelled"} /\ pc' = "unrun"
    BY <1>7 DEF NoPlan, DeclinePlan, EndUnrun
  <2>. QED
    BY <2>1, <2>2, <2>3 DEF Recorded, CodeTellsEnding
<1>8. CASE Work \/ InterruptWork
  <2>1. pc = "work" /\ ~ reported /\ ~ args.list
    BY <1>8, Zenon DEF Work, InterruptWork, Recorded
  <2>2. worked' /\ reported' = reported /\ args' = args
    BY <1>8, Zenon DEF Work, InterruptWork
  <2>3. \/ pc' = "save" /\ status' \notin {"none", "running"}
        \/ pc' = "interrupted" /\ status' = "cancelled"
    BY <1>8 DEF Work, InterruptWork
  <2>. QED
    BY <2>1, <2>2, <2>3 DEF Recorded, CodeTellsEnding
<1>9. CASE WriteReport
  <2>1. pc \in Ending /\ pc' = pc /\ ~ args.list
    BY <1>9 DEF WriteReport, Recorded
  <2>2. worked' = worked /\ status' = status /\ args' = args
    BY <1>9, Zenon DEF WriteReport
  <2>. QED
    BY <2>1, <2>2 DEF Recorded, CodeTellsEnding
<1>10. CASE Return
  <2>1. pc \in Ending /\ reported
    BY <1>10, Zenon DEF Return
  <2>2. worked' = worked /\ reported' = reported /\ status' = status /\ args' = args
    BY <1>10, Zenon DEF Return
  <2>3. /\ pc = "unrun" => ~ worked /\ status \in {"failed", "cancelled"} /\ args.mode = "plan"
        /\ pc = "save" => worked /\ status \notin {"none", "running"}
        /\ pc = "interrupted" => worked /\ status = "cancelled"
    BY Zenon DEF Recorded
  <2>4. /\ pc' = "over"
        /\ \/ pc = "save" /\ code' = IF status = "done" THEN 0 ELSE 1
           \/ pc = "interrupted" /\ code' = 130
           \/ pc = "unrun" /\ code' = 1
    <3>1. pc' = "over" /\ code' = CASE pc = "save" -> IF status = "done" THEN 0 ELSE 1
                                   [] pc = "interrupted" -> 130
                                   [] pc = "unrun" -> 1
      BY <1>10, Zenon DEF Return, Exit
    <3>. QED
      BY <2>1, <3>1
  <2>. QED
    BY <2>1, <2>2, <2>3, <2>4 DEF Recorded, CodeTellsEnding
<1>11. CASE Interrupt
  <2>1. reported => pc \in Ending
    BY <1>11, Zenon DEF Interrupt, Recorded
  <2>2. worked' = worked /\ reported' = reported /\ status' = status /\ args' = args
    BY <1>11, Zenon DEF Interrupt
  <2>3. pc \in Ending => status \notin {"none", "running"} /\ (worked \/ args.mode = "plan")
    BY DEF Recorded
  <2>4. pc' = "over" /\ code' = 130
    BY <1>11 DEF Interrupt, Exit
  <2>. QED
    BY <2>1, <2>2, <2>3, <2>4 DEF Recorded, CodeTellsEnding
<1>12. CASE Raise
  <2>1. ~ reported /\ reported' = reported
    BY <1>12, Zenon DEF Raise
  <2>2. pc' = "over" /\ code' = 1000
    BY <1>12 DEF Raise, Exit
  <2>. QED
    BY <2>1, <2>2 DEF Recorded, CodeTellsEnding
<1>13. CASE UNCHANGED vars
  <2>1. /\ pc' = pc /\ worked' = worked /\ status' = status /\ reported' = reported
        /\ args' = args /\ code' = code
    BY <1>13 DEF vars
  <2>. QED
    BY <2>1 DEF Recorded, CodeTellsEnding
<1>. QED
  BY <1>1, <1>2, <1>3, <1>4, <1>5, <1>6, <1>7, <1>8, <1>9, <1>10, <1>11, <1>12, <1>13
     DEF Next, Over

THEOREM CallIsSound == Spec => []CallInv
<1>1. CallInv /\ [Next]_vars => CallInv'
  BY FleetStep, OpenStep, ConsentStep, RecordStep DEF CallInv
<1>. QED
  BY <1>1, CallBegins, PTL DEF Spec
-----------------------------------------------------------------------------
(***************************************************************************)
(* What follows.                                                           *)
(***************************************************************************)

\* AllOrNone: from the survey on every connection of the fleet is open, and main
\* returns with none, or raises with none once the record was begun.
THEOREM WholeFleet == Spec => []AllOrNone
<1>1. CallInv => AllOrNone
  BY DEF CallInv, Opened, AllOrNone, Late, Ending
<1>. QED
  BY <1>1, CallIsSound, PTL

\* StartedWithConsent: the agent is not started over an unknown key, an account without
\* root, or in plan mode a plan, unless somebody entitled to has said yes to it.
THEOREM AskedFirst == Spec => []StartedWithConsent
<1>1. CallInv => StartedWithConsent
  BY DEF CallInv, Consented, StartedWithConsent, Answered
<1>. QED
  BY <1>1, CallIsSound, PTL

\* CodeTellsEnding: whoever reads the exit code knows what became of the call, and what
\* a report can say beside it.
THEOREM CodeIsTrue == Spec => []CodeTellsEnding
<1>1. CallInv => CodeTellsEnding
  BY DEF CallInv, Recorded
<1>. QED
  BY <1>1, CallIsSound, PTL

\* NamesFindTheirServer: in a fleet that was accepted, a name or a label finds its own
\* server.
THEOREM AddressedAsMeant == Spec => []NamesFindTheirServer
<1>1. CallInv => NamesFindTheirServer
  <2>. SUFFICES ASSUME CallInv PROVE NamesFindTheirServer
    OBVIOUS
  <2>1. Distinct(fleet) /\ DOMAIN fleet = 1 .. Len(fleet) /\ Len(fleet) \in Nat
    BY FleetShape DEF CallInv
  <2>2. IsFiniteSet(DOMAIN fleet)
    BY <2>1, FS_Interval
  <2>. QED
    BY <2>1, <2>2, ApartAreFound
<1>. QED
  BY <1>1, CallIsSound, PTL

\* LabelsDoNotClash: a list of usable values, at endpoints and with names apart, is not
\* refused, whatever labels it leaves to the harness.
THEOREM RefusedForCause == Spec => LabelsDoNotClash
<1>1. CallInv /\ [Next]_vars => [pc = "targets" /\ code' = 2 => ~ WellWritten]_vars
  <2>. SUFFICES ASSUME CallInv, Next, pc = "targets", code' = 2
                PROVE  ~ WellWritten
    OBVIOUS
  <2>1. specs \in Specs /\ code # 2
    BY DEF CallInv, FleetFits, NoCode
  <2>2. RefuseFleet
    BY <2>1 DEF Next, PrepareFails, ListModels, Prepare, RefuseFleet, AcceptFleet, Connect,
      ConnectFails, InterruptEarly, Survey, SurveyOnly, CarryOn, StopWithoutRoot, BeginRecord,
      NoPlan, ShowPlan, DeclinePlan, ApprovePlan, Work, InterruptWork, WriteReport, Return,
      Interrupt, Raise, Ending, EndUnrun, Over, Traceback
  <2>3. Accepted(specs, User, Port) = <<>>
    BY <2>2 DEF RefuseFleet
  <2>. QED
    BY <2>1, <2>3, WellWrittenIsAccepted
<1>. QED
  BY <1>1, CallIsSound, PTL DEF Spec, LabelsDoNotClash
=============================================================================
