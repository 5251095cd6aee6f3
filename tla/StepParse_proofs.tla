---------------------------- MODULE StepParse_proofs ----------------------------
(* Proofs about StepParse, for every set of replies, of any length, and every     *)
(* fleet.                                                                         *)
EXTENDS StepParse, FiniteSetTheorems, WellFoundedInduction, SequenceTheorems, TLAPS

---------------------------------------------------------------------------------
(* The first and the last of a set of positions.                                 *)

LEMMA LeastExists ==
  ASSUME NEW T \in SUBSET Nat, T # {}
  PROVE  \E x \in T : \A y \in T : x <= y
<1>1. \E x \in T : \A y \in T : ~ (<<y, x>> \in OpToRel(<, Nat))
  BY NatLessThanWellFounded, WFMin
<1>2. \A x, y \in Nat : <<y, x>> \in OpToRel(<, Nat) <=> y < x
  BY DEF OpToRel
<1>3. PICK x \in T : \A y \in T : ~ (<<y, x>> \in OpToRel(<, Nat))
  BY <1>1
<1>4. ASSUME NEW y \in T
      PROVE  x <= y
  <2>1. x \in Nat /\ y \in Nat /\ ~ (y < x)
    BY <1>2, <1>3
  <2>. QED
    BY <2>1
<1>. QED
  BY <1>4

LEMMA MinIsLeast ==
  ASSUME NEW T \in SUBSET Nat, T # {}
  PROVE  Min(T) \in T /\ \A y \in T : Min(T) <= y
BY LeastExists DEF Min

LEMMA MaxIsGreatest ==
  ASSUME NEW n \in Nat, NEW T \in SUBSET (1 .. n), T # {}
  PROVE  Max(T) \in T /\ \A y \in T : Max(T) >= y
<1>. DEFINE Back == {n - x : x \in T}
<1>0. \A x \in T : n - x \in Nat
  OBVIOUS
<1>1. Back \in SUBSET Nat /\ Back # {}
  BY <1>0
<1>2. PICK b \in Back : \A y \in Back : b <= y
  <2>. HIDE DEF Back
  <2>. QED
    BY <1>1, LeastExists
<1>3. PICK x \in T : b = n - x
  BY <1>2
<1>4. ASSUME NEW y \in T
      PROVE  x >= y
  <2>1. n - x <= n - y
    BY <1>2, <1>3
  <2>2. x \in Nat /\ y \in Nat
    OBVIOUS
  <2>. QED
    BY <2>1, <2>2
<1>. QED
  BY <1>4 DEF Max

LEMMA LatestOf ==
  ASSUME NEW n \in Nat, NEW T \in SUBSET (1 .. n)
  PROVE  Latest(T) \in 0 .. n
<1>1. CASE T = {}
  BY <1>1 DEF Latest
<1>2. CASE T # {}
  <2>1. Max(T) \in T
    BY <1>2, MaxIsGreatest
  <2>2. Max(T) \in 1 .. n /\ Latest(T) = Max(T)
    BY <1>2, <2>1 DEF Latest
  <2>. QED
    BY <2>2
<1>. QED
  BY <1>1, <1>2

LEMMA LatestOfOne ==
  ASSUME NEW i \in Nat \ {0}
  PROVE  Latest({i}) = i
<1>1. {i} \in SUBSET (1 .. i) /\ {i} # {}
  OBVIOUS
<1>2. Max({i}) \in {i}
  BY <1>1, MaxIsGreatest
<1>. QED
  BY <1>2 DEF Latest
---------------------------------------------------------------------------------
(* What is left of a reply when the markers are off is a reply.                  *)

LEMMA PrefixIsWellFormed ==
  ASSUME NEW l, WellFormed(l), NEW n \in 0 .. Len(l)
  PROVE  WellFormed(SubSeq(l, 1, n))
<1>1. l \in Seq(ReplyLine) /\ \A i \in DOMAIN l : l[i].t = "open" => l[i].key \in Blocks
  BY DEF WellFormed
<1>2. Len(l) \in Nat /\ DOMAIN l = 1 .. Len(l)
  BY <1>1
<1>3. /\ SubSeq(l, 1, n) \in Seq(ReplyLine)
      /\ Len(SubSeq(l, 1, n)) = n
      /\ \A i \in 1 .. n : SubSeq(l, 1, n)[i] = l[i]
  BY <1>1, <1>2
<1>4. DOMAIN SubSeq(l, 1, n) = 1 .. n
  BY <1>3
<1>5. ASSUME NEW i \in 1 .. n
      PROVE  i \in DOMAIN l /\ SubSeq(l, 1, n)[i] = l[i]
  BY <1>2, <1>3
<1>. QED
  BY <1>1, <1>3, <1>4, <1>5, Zenon DEF WellFormed

LEMMA TagsStripped ==
  ASSUME NEW l, WellFormed(l)
  PROVE  WellFormed(StripTags(l))
<1>. DEFINE solid == Latest({i \in DOMAIN l : l[i].t \notin {"tag", "blank"}})
<1>1. Len(l) \in Nat /\ DOMAIN l = 1 .. Len(l)
  BY DEF WellFormed
<1>2. {i \in DOMAIN l : l[i].t \notin {"tag", "blank"}} \in SUBSET (1 .. Len(l))
  BY <1>1
<1>3. solid \in 0 .. Len(l)
  BY <1>1, <1>2, LatestOf
<1>. HIDE DEF solid
<1>4. WellFormed(SubSeq(l, 1, solid))
  BY <1>3, PrefixIsWellFormed
<1>. USE DEF solid
<1>5. StripTags(l) \in {l, SubSeq(l, 1, solid)}
  BY Zenon DEF StripTags
<1>. QED
  BY <1>4, <1>5

LEMMA StripIsWellFormed ==
  ASSUME NEW r, WellFormed(r)
  PROVE  WellFormed(Strip(r))
<1>1. PICK c : c = StripTags(r)
  OBVIOUS
<1>2. WellFormed(c)
  BY <1>1, TagsStripped
<1>3. c \in Seq(ReplyLine) /\ Len(c) \in Nat /\ DOMAIN c = 1 .. Len(c)
  BY <1>2 DEF WellFormed
<1>4. PICK tokens : tokens = {i \in DOMAIN c : c[i].t = "token"}
  OBVIOUS
<1>. DEFINE Blanked == [i \in DOMAIN c |-> IF i \in tokens THEN [c[i] EXCEPT !.t = "blank"] ELSE c[i]]
<1>5. Strip(r) = c \/ (tokens # {} /\ Strip(r) = SubSeq(c, 1, Min(tokens) - 1)) \/ Strip(r) = Blanked
  BY <1>1, <1>4, Zenon DEF Strip
<1>6. CASE tokens # {} /\ Strip(r) = SubSeq(c, 1, Min(tokens) - 1)
  <2>1. tokens \in SUBSET (1 .. Len(c)) /\ tokens \in SUBSET Nat
    BY <1>3, <1>4
  <2>2. Min(tokens) \in tokens
    BY <1>6, <2>1, MinIsLeast
  <2>3. Min(tokens) \in 1 .. Len(c)
    BY <2>1, <2>2
  <2>4. Min(tokens) - 1 \in 0 .. Len(c)
    BY <1>3, <2>3
  <2>. QED
    BY <1>2, <1>6, <2>4, PrefixIsWellFormed
<1>7. CASE Strip(r) = Blanked
  <2>1. ASSUME NEW i \in DOMAIN c
        PROVE  /\ Blanked[i] \in ReplyLine
               /\ Blanked[i].t = "open" => Blanked[i].key \in Blocks
    <3>1. c[i] \in ReplyLine /\ (c[i].t = "open" => c[i].key \in Blocks)
      BY <1>2, <1>3 DEF WellFormed
    <3>2. Blanked[i] = IF i \in tokens THEN [c[i] EXCEPT !.t = "blank"] ELSE c[i]
      OBVIOUS
    <3>. HIDE DEF Blanked
    <3>3. CASE i \in tokens
      BY <3>1, <3>2, <3>3 DEF ReplyLine
    <3>4. CASE i \notin tokens
      BY <3>1, <3>2, <3>4
    <3>. QED
      BY <3>3, <3>4
  <2>2. DOMAIN Blanked = 1 .. Len(c)
    BY <1>3
  <2>3. Blanked \in [1 .. Len(c) -> ReplyLine]
    BY <1>3, <2>1
  <2>. HIDE DEF Blanked
  <2>4. Blanked \in Seq(ReplyLine)
    BY <1>3, <2>3
  <2>. QED
    BY <1>3, <1>7, <2>1, <2>2, <2>4, Zenon DEF WellFormed
<1>. QED
  BY <1>2, <1>5, <1>6, <1>7
---------------------------------------------------------------------------------
(* What the lines below a line are.                                              *)

LEMMA BelowIs ==
  ASSUME WellFormed(lines), NEW i \in 1 .. Len(lines), NEW E \in SUBSET (1 .. Len(lines))
  PROVE  \E m \in i .. Len(lines) :
           /\ Below(i, E) = i + 1 .. m
           /\ Cardinality(Below(i, E)) = m - i
           /\ m + 1 \in E \/ m = Len(lines)
           /\ \A k \in E : k > i => k > m
<1>. DEFINE n    == Len(lines)
           Stops == {k \in E : k > i} \cup {n + 1}
<1>1. n \in Nat /\ i \in Nat
  BY DEF WellFormed
<1>2. Stops \in SUBSET (i + 1 .. n + 1) /\ Stops \in SUBSET Nat /\ n + 1 \in Stops
  <2>1. i <= n
    BY <1>1
  <2>. HIDE DEF n
  <2>2. ASSUME NEW k \in Stops
        PROVE  k \in i + 1 .. n + 1 /\ k \in Nat
    <3>1. CASE k = n + 1
      BY <1>1, <2>1, <3>1
    <3>2. CASE k \in E /\ k > i
      <4>1. k \in 1 .. n
        BY <3>2 DEF n
      <4>. QED
        BY <1>1, <3>2, <4>1
    <3>. QED
      BY <3>1, <3>2
  <2>3. n + 1 \in Stops
    OBVIOUS
  <2>. HIDE DEF Stops
  <2>. QED
    BY <2>2, <2>3
<1>3. PICK e : e = Min(Stops)
  OBVIOUS
<1>4. e \in Stops /\ \A y \in Stops : e <= y
  <2>. HIDE DEF Stops
  <2>. QED
    BY <1>2, <1>3, MinIsLeast
<1>5. e \in i + 1 .. n + 1
  BY <1>2, <1>4
<1>6. PICK m : m = e - 1
  OBVIOUS
<1>7. m \in i .. n /\ m + 1 = e
  BY <1>1, <1>5, <1>6
<1>8. Below(i, E) = i + 1 .. m
  BY <1>3, <1>6, Zenon DEF Below
<1>9. Cardinality(i + 1 .. m) = m - i
  <2>1. i + 1 \in Int /\ m \in Int
    BY <1>1, <1>7
  <2>2. Cardinality(i + 1 .. m) = IF i + 1 > m THEN 0 ELSE m - (i + 1) + 1
    BY <2>1, FS_Interval
  <2>. QED
    BY <1>1, <1>7, <2>2
<1>10. m + 1 \in E \/ m = n
  BY <1>1, <1>4, <1>7
<1>11. ASSUME NEW k \in E, k > i
       PROVE  k > m
  <2>1. k \in Stops /\ k \in Nat
    BY <1>11
  <2>2. e <= k
    BY <1>4, <2>1
  <2>. QED
    BY <1>1, <1>7, <2>1, <2>2
<1>. QED
  BY <1>7, <1>8, <1>9, <1>10, <1>11

LEMMA LinesBelowIs ==
  ASSUME WellFormed(lines), NEW i \in 1 .. Len(lines)
  PROVE  \E m \in i .. Len(lines) : LinesBelow(i) = i + 1 .. m
<1>1. PICK E : E = Where("fence") \cup Where("open") \cup KeyLines(Openers)
  OBVIOUS
<1>2. E \in SUBSET (1 .. Len(lines))
  BY <1>1 DEF WellFormed, Where, KeyLines
<1>3. LinesBelow(i) = Below(i, E)
  BY <1>1, Zenon DEF LinesBelow
<1>. QED
  BY <1>2, <1>3, BelowIs

\* Without the blank lines at its end, too, it is what is hard against the line.
LEMMA StripBlankIs ==
  ASSUME WellFormed(lines), NEW i \in 1 .. Len(lines)
  PROVE  \E m \in i .. Len(lines) :
           /\ StripBlank(LinesBelow(i)) = i + 1 .. m
           /\ Cardinality(StripBlank(LinesBelow(i))) = m - i
<1>1. PICK b \in i .. Len(lines) : LinesBelow(i) = i + 1 .. b
  BY LinesBelowIs
<1>2. i \in Nat /\ b \in Nat /\ Len(lines) \in Nat /\ b <= Len(lines) /\ i <= b
  BY <1>1 DEF WellFormed
<1>3. PICK T : T = {j \in i + 1 .. b : lines[j].t # "blank"}
  OBVIOUS
<1>4. StripBlank(LinesBelow(i)) = {j \in i + 1 .. b : \E k \in T : k >= j}
  BY <1>1, <1>3 DEF StripBlank
<1>5. PICK m \in i .. b : {j \in i + 1 .. b : \E k \in T : k >= j} = i + 1 .. m
  <2>1. CASE T = {}
    <3>1. {j \in i + 1 .. b : \E k \in T : k >= j} = i + 1 .. i
      BY <1>2, <2>1
    <3>. QED
      BY <1>2, <3>1
  <2>2. CASE T # {}
    <3>1. T \in SUBSET (1 .. b) /\ T \in SUBSET (i + 1 .. b)
      BY <1>2, <1>3
    <3>2. PICK m : m \in T /\ \A y \in T : m >= y
      BY <1>2, <2>2, <3>1, MaxIsGreatest
    <3>3. m \in i .. b
      BY <1>2, <3>1, <3>2
    <3>4. ASSUME NEW j \in i + 1 .. b
          PROVE  (\E k \in T : k >= j) <=> j <= m
      BY <1>2, <3>1, <3>2
    <3>5. {j \in i + 1 .. b : \E k \in T : k >= j} = {j \in i + 1 .. b : j <= m}
      BY <3>4
    <3>6. {j \in i + 1 .. b : j <= m} = i + 1 .. m
      BY <1>2, <3>3
    <3>. QED
      BY <3>3, <3>5, <3>6
  <2>. QED
    BY <2>1, <2>2
<1>6. m \in i .. Len(lines) /\ m \in Nat
  BY <1>2
<1>7. Cardinality(i + 1 .. m) = m - i
  <2>1. i + 1 \in Int /\ m \in Int
    BY <1>2, <1>6
  <2>2. Cardinality(i + 1 .. m) = IF i + 1 > m THEN 0 ELSE m - (i + 1) + 1
    BY <2>1, FS_Interval
  <2>. QED
    BY <1>2, <1>6, <2>2
<1>. QED
  BY <1>4, <1>5, <1>6, <1>7
---------------------------------------------------------------------------------
(* Each line is read as one thing.                                               *)

\* The lines that are read as a key.
Keyed == {fields[k].line : k \in DOMAIN fields} \cup ToSet(actions) \cup ToSet(verify)

\* What has been read stands above the line to read next.
ReadInv ==
  /\ WellFormed(lines)
  /\ index \in Nat /\ index >= 1
  /\ actions \in Seq(Nat) /\ verify \in Seq(Nat)
  /\ Keyed \subseteq 0 .. index - 1
  /\ swallowed \subseteq 1 .. index - 1
  /\ \A k \in DOMAIN fields : fields[k].body \subseteq swallowed
  /\ EachLineOnce

\* A field is as it was, or it is that of key and read at index, with lines of body.
OneField(key, body) ==
  \A k \in DOMAIN fields' :
    \/ k \in DOMAIN fields /\ fields'[k] = fields[k]
    \/ k = key /\ fields'[k].line \in {0, index} /\ fields'[k].body \subseteq body

\* A step that reads the line at index, with the lines of body below it, and reads
\* over no key behind them.
Reads(key, body) ==
  /\ UNCHANGED lines
  /\ index' \in Nat /\ index' > index
  /\ body \in SUBSET (index + 1 .. index' - 1)
  /\ \A i \in index + 1 .. index' - 1 : i \in body \/ lines[i].t # "key"
  /\ swallowed' = swallowed \cup body
  /\ OneField(key, body)
  /\ actions' \in Seq(Nat) /\ ToSet(actions') \subseteq ToSet(actions) \cup {index}
  /\ verify' \in Seq(Nat) /\ ToSet(verify') \subseteq ToSet(verify) \cup {index}

LEMMA ReadsOn ==
  ASSUME ReadInv, NEW key, NEW body, Reads(key, body)
  PROVE  ReadInv'
<1>1. index \in Nat /\ index >= 1 /\ index' \in Nat /\ index' > index
  BY DEF ReadInv, Reads
<1>2. /\ \A i \in Keyed : i \in 0 .. index - 1
      /\ \A i \in swallowed : i \in 1 .. index - 1
      /\ \A i \in body : i \in index + 1 .. index' - 1
  BY Zenon DEF ReadInv, Reads
<1>0. swallowed' = swallowed \cup body
  BY DEF Reads
<1>3. Keyed' \subseteq Keyed \cup {0, index}
  <2>1. \A k \in DOMAIN fields' : fields'[k].line \in Keyed \cup {0, index}
    <3>1. \A k \in DOMAIN fields : fields[k].line \in Keyed
      BY DEF Keyed
    <3>. QED
      BY <3>1, Zenon DEF Reads, OneField
  <2>2. ToSet(actions') \subseteq Keyed \cup {index} /\ ToSet(verify') \subseteq Keyed \cup {index}
    BY Zenon DEF Reads, Keyed
  <2>3. Keyed' = {fields'[k].line : k \in DOMAIN fields'} \cup ToSet(actions') \cup ToSet(verify')
    BY DEF Keyed, ToSet
  <2>. QED
    BY <2>1, <2>2, <2>3
<1>4. swallowed' \subseteq 1 .. index' - 1
  <2>1. ASSUME NEW i \in swallowed
        PROVE  i \in 1 .. index' - 1
    BY <1>1, <1>2
  <2>2. ASSUME NEW i \in body
        PROVE  i \in 1 .. index' - 1
    BY <1>1, <1>2
  <2>. QED
    BY <1>0, <2>1, <2>2, Zenon
<1>5. Keyed' \subseteq 0 .. index' - 1
  <2>1. ASSUME NEW i \in Keyed
        PROVE  i \in 0 .. index' - 1
    BY <1>1, <1>2
  <2>2. 0 \in 0 .. index' - 1 /\ index \in 0 .. index' - 1
    <3>1. \A a, b \in Nat : a >= 1 /\ b > a => 0 \in 0 .. b - 1 /\ a \in 0 .. b - 1
      OBVIOUS
    <3>. QED
      BY <1>1, <3>1
  <2>. QED
    BY <1>3, <2>1, <2>2, Zenon
<1>6. Keyed \cap swallowed = {}
  BY DEF ReadInv, EachLineOnce, Keyed
<1>7. Keyed' \cap swallowed' = {}
  <2>1. ASSUME NEW i \in Keyed', i \in swallowed'
        PROVE  FALSE
    <3>0. i \in swallowed \/ i \in body
      BY <1>0, <2>1
    <3>1. CASE i \in Keyed
      <4>1. i \in 0 .. index - 1 /\ i \in body
        BY <1>2, <1>6, <3>0, <3>1
      <4>. QED
        <5>1. i \in index + 1 .. index' - 1
          BY <1>2, <4>1, Zenon
        <5>. QED
          BY <1>1, <4>1, <5>1
    <3>2. CASE i \in {0, index}
      BY <1>1, <1>2, <3>0, <3>2
    <3>. QED
      BY <1>3, <2>1, <3>1, <3>2
  <2>. QED
    BY <2>1
<1>8. \A k \in DOMAIN fields : fields[k].body \subseteq swallowed
  BY DEF ReadInv
<1>9. \A k \in DOMAIN fields' : fields'[k].body \subseteq swallowed'
  BY <1>0, <1>8, Zenon DEF Reads, OneField
<1>10. body \cap swallowed = {}
  <2>1. ASSUME NEW i \in body, i \in swallowed
        PROVE  FALSE
    BY <1>1, <1>2, <2>1
  <2>. QED
    BY <2>1
<1>11. ASSUME NEW j \in DOMAIN fields', NEW k \in DOMAIN fields', j # k
       PROVE  fields'[j].body \cap fields'[k].body = {}
  <2>0. \A m \in DOMAIN fields' :
          \/ m \in DOMAIN fields /\ fields'[m] = fields[m]
          \/ m = key /\ fields'[m].line \in {0, index} /\ fields'[m].body \subseteq body
    BY Zenon DEF Reads, OneField
  <2>1. CASE j \in DOMAIN fields /\ fields'[j] = fields[j] /\ k \in DOMAIN fields /\ fields'[k] = fields[k]
    BY <1>11, <2>1 DEF ReadInv, EachLineOnce
  <2>2. CASE j = key /\ fields'[j].body \subseteq body
    <3>1. k \in DOMAIN fields /\ fields'[k] = fields[k]
      BY <1>11, <2>0, <2>2
    <3>. QED
      BY <1>8, <1>10, <2>2, <3>1
  <2>3. CASE k = key /\ fields'[k].body \subseteq body
    <3>1. j \in DOMAIN fields /\ fields'[j] = fields[j]
      BY <1>11, <2>0, <2>3
    <3>. QED
      BY <1>8, <1>10, <2>3, <3>1
  <2>. QED
    BY <2>0, <2>1, <2>2, <2>3, Zenon
<1>12. EachLineOnce'
  <2>1. Keyed' = {fields'[k].line : k \in DOMAIN fields'} \cup ToSet(actions') \cup ToSet(verify')
    BY DEF Keyed, ToSet
  <2>. QED
    BY <1>7, <1>11, <2>1 DEF EachLineOnce, ToSet
<1>13. WellFormed(lines)' /\ actions' \in Seq(Nat) /\ verify' \in Seq(Nat)
  BY Zenon DEF ReadInv, Reads, WellFormed
<1>14. index' \in Nat /\ index' >= 1
  BY <1>1
<1>. QED
  BY <1>4, <1>5, <1>9, <1>12, <1>13, <1>14, Zenon DEF ReadInv

LEMMA SetIs ==
  ASSUME NEW key, NEW line, NEW body, Set(key, line, body)
  PROVE  /\ DOMAIN fields' = DOMAIN fields \cup {key}
         /\ fields'[key].line = line /\ fields'[key].body = body
         /\ \A k \in DOMAIN fields \ {key} : fields'[k] = fields[k]
BY DEF Set

LEMMA SetDefaultIs ==
  ASSUME NEW key, NEW line, NEW body, SetDefault(key, line, body)
  PROVE  /\ key \in DOMAIN fields => fields' = fields
         /\ key \notin DOMAIN fields => Set(key, line, body)
BY DEF SetDefault

LEMMA OneFieldSet ==
  ASSUME NEW key, NEW line \in {0, index}, NEW body,
         Set(key, line, body) \/ SetDefault(key, line, body)
  PROVE  OneField(key, body)
<1>1. CASE fields' = fields
  BY <1>1 DEF OneField
<1>2. CASE Set(key, line, body)
  <2>1. /\ DOMAIN fields' = DOMAIN fields \cup {key}
        /\ fields'[key].line = line /\ fields'[key].body = body
        /\ \A k \in DOMAIN fields \ {key} : fields'[k] = fields[k]
    BY <1>2, SetIs, Zenon
  <2>2. ASSUME NEW k \in DOMAIN fields', k # key
        PROVE  k \in DOMAIN fields /\ fields'[k] = fields[k]
    BY <2>1, <2>2
  <2>. QED
    BY <2>1, <2>2, Zenon DEF OneField
<1>. QED
  BY <1>1, <1>2, SetDefaultIs, Zenon

LEMMA AppendedTo ==
  ASSUME NEW s \in Seq(Nat), NEW i \in Nat
  PROVE  Append(s, i) \in Seq(Nat) /\ ToSet(Append(s, i)) = ToSet(s) \cup {i}
<1>1. /\ Append(s, i) \in Seq(Nat) /\ Len(Append(s, i)) = Len(s) + 1
      /\ \A n \in 1 .. Len(s) : Append(s, i)[n] = s[n]
      /\ Append(s, i)[Len(s) + 1] = i
  OBVIOUS
<1>2. Len(s) \in Nat /\ DOMAIN s = 1 .. Len(s) /\ DOMAIN Append(s, i) = 1 .. Len(s) + 1
  BY <1>1
<1>3. 1 .. Len(s) + 1 = (1 .. Len(s)) \cup {Len(s) + 1}
  BY <1>2
<1>. QED
  BY <1>1, <1>2, <1>3 DEF ToSet

\* What a step that reads a line leaves as it was.
LEMMA NothingRead ==
  ASSUME ReadInv
  PROVE  /\ index \in Nat /\ index >= 1
         /\ index + 1 \in Nat /\ index + 1 > index
         /\ {} \in SUBSET (index + 1 .. (index + 1) - 1)
         /\ index + 1 .. (index + 1) - 1 = {}
         /\ actions \in Seq(Nat) /\ verify \in Seq(Nat)
         /\ (index <= Len(lines) => index \in 1 .. Len(lines))
<1>1. index \in Nat /\ index >= 1 /\ Len(lines) \in Nat
  BY DEF ReadInv, WellFormed
<1>2. actions \in Seq(Nat) /\ verify \in Seq(Nat)
  BY DEF ReadInv
<1>. QED
  BY <1>1, <1>2

LEMMA SkipLineReads ==
  ASSUME ReadInv, SkipLine
  PROVE  Reads("", {})
<1>1. index' = index + 1
  BY DEF SkipLine
<1>2. UNCHANGED <<lines, fields, actions, verify, swallowed>>
  BY DEF SkipLine
<1>3. swallowed' = swallowed \cup {}
  BY <1>2
<1>5. OneField("", {})
  BY <1>2, Zenon DEF OneField
<1>. QED
  BY <1>1, <1>2, <1>3, <1>5, NothingRead DEF Reads

LEMMA ReadActionReads ==
  ASSUME ReadInv, ReadAction
  PROVE  Reads("", {})
<1>1. index' = index + 1 /\ actions' = Append(actions, index)
  BY DEF ReadAction
<1>2. UNCHANGED <<lines, fields, verify, swallowed>>
  BY DEF ReadAction
<1>3. swallowed' = swallowed \cup {}
  BY <1>2
<1>4. actions' \in Seq(Nat) /\ ToSet(actions') \subseteq ToSet(actions) \cup {index}
  BY <1>1, NothingRead, AppendedTo
<1>5. OneField("", {})
  BY <1>2, Zenon DEF OneField
<1>. QED
  BY <1>1, <1>2, <1>3, <1>4, <1>5, NothingRead DEF Reads

LEMMA ReadVerifyReads ==
  ASSUME ReadInv, ReadVerify
  PROVE  Reads("", {})
<1>1. index' = index + 1 /\ (verify' = verify \/ verify' = Append(verify, index))
  BY DEF ReadVerify
<1>2. UNCHANGED <<lines, fields, actions, swallowed>>
  BY DEF ReadVerify
<1>3. swallowed' = swallowed \cup {}
  BY <1>2
<1>4. verify' \in Seq(Nat) /\ ToSet(verify') \subseteq ToSet(verify) \cup {index}
  BY <1>1, NothingRead, AppendedTo
<1>5. OneField("", {})
  BY <1>2, Zenon DEF OneField
<1>. QED
  BY <1>1, <1>2, <1>3, <1>4, <1>5, NothingRead DEF Reads

LEMMA ReadKeyReads ==
  ASSUME ReadInv, ReadKey
  PROVE  Reads(Here.key, {})
<1>1. index' = index + 1 /\ SetDefault(Here.key, index, {})
  BY DEF ReadKey
<1>2. UNCHANGED <<lines, actions, verify, swallowed>>
  BY DEF ReadKey
<1>3. swallowed' = swallowed \cup {}
  BY <1>2
<1>4. OneField(Here.key, {})
  <2>1. index \in {0, index}
    OBVIOUS
  <2>. QED
    BY <1>1, <2>1, OneFieldSet, Zenon
<1>. QED
  BY <1>1, <1>2, <1>3, <1>4, NothingRead DEF Reads

LEMMA ReadCommandReads ==
  ASSUME ReadInv, ReadCommand
  PROVE  Reads("command", {})
<1>1. index' = index + 1 /\ Set("command", index, {})
  BY DEF ReadCommand
<1>2. UNCHANGED <<lines, actions, verify, swallowed>>
  BY DEF ReadCommand
<1>3. swallowed' = swallowed \cup {}
  BY <1>2
<1>4. OneField("command", {})
  <2>1. index \in {0, index}
    OBVIOUS
  <2>. QED
    BY <1>1, <2>1, OneFieldSet, Zenon
<1>. QED
  BY <1>1, <1>2, <1>3, <1>4, NothingRead DEF Reads

\* A step that takes lines below the one at index, and reads on behind them.
LEMMA BodyRead ==
  ASSUME ReadInv, NEW key, NEW body,
         NEW m \in index .. Len(lines), body = index + 1 .. m,
         index' = m + 1 \/ (index' = m + 2 /\ lines[m + 1].t # "key"),
         OneField(key, body), swallowed' = swallowed \cup body, UNCHANGED <<lines, actions, verify>>
  PROVE  Reads(key, body)
<1>1. index \in Nat /\ Len(lines) \in Nat
  BY DEF ReadInv, WellFormed
<1>2. m \in Nat /\ index <= m
  BY <1>1
<1>3. index' \in Nat /\ index' > index /\ m <= index' - 1
  <2>1. \A a, b \in Nat : a <= b =>
          /\ b + 1 \in Nat /\ b + 1 > a /\ b <= (b + 1) - 1
          /\ b + 2 \in Nat /\ b + 2 > a /\ b <= (b + 2) - 1
    OBVIOUS
  <2>. QED
    BY <1>1, <1>2, <2>1, Zenon
<1>4. body \in SUBSET (index + 1 .. index' - 1)
  <2>1. \A i, a, b, c \in Nat : b <= c - 1 /\ i \in a + 1 .. b => i \in a + 1 .. c - 1
    OBVIOUS
  <2>2. \A i \in index + 1 .. m : i \in Nat
    BY <1>1, <1>2
  <2>. QED
    BY <1>1, <1>2, <1>3, <2>1, <2>2, Zenon
<1>5. ASSUME NEW i \in index + 1 .. index' - 1
      PROVE  i \in body \/ lines[i].t # "key"
  <2>0. i \in Nat /\ index + 1 <= i /\ i <= index' - 1
    <3>1. \A a, b \in Nat : \A j \in a + 1 .. b - 1 : j \in Nat /\ a + 1 <= j /\ j <= b - 1
      OBVIOUS
    <3>. QED
      BY <1>1, <1>3, <3>1, Zenon
  <2>1. CASE i <= m
    BY <1>1, <1>2, <2>0, <2>1
  <2>2. CASE i > m
    <3>1. index' = m + 2 /\ i = m + 1
      BY <1>2, <2>0, <2>2
    <3>. QED
      BY <3>1, <1>2
  <2>. QED
    BY <1>2, <2>0, <2>1, <2>2
<1>. QED
  BY <1>3, <1>4, <1>5, NothingRead DEF Reads

LEMMA ReadBlockReads ==
  ASSUME ReadInv, ReadBlock
  PROVE  \E body : Reads(Here.key, body) /\ Set(Here.key, 0, body)
<1>1. PICK E : E = Ends(Here.key) \cup KeyLines({"action"})
  OBVIOUS
<1>2. PICK body : body = Below(index, E)
  OBVIOUS
<1>3. index <= Len(lines)
  BY DEF ReadBlock, At
<1>4. E \in SUBSET (1 .. Len(lines))
  BY <1>1 DEF ReadInv, WellFormed, Where, KeyLines, Ends
<1>5. WellFormed(lines) /\ index \in 1 .. Len(lines)
  BY <1>3, NothingRead DEF ReadInv
<1>6. PICK m \in index .. Len(lines) : body = index + 1 .. m /\ Cardinality(body) = m - index
  BY <1>2, <1>4, <1>5, BelowIs, Zenon
<1>7. /\ Set(Here.key, 0, body)
      /\ swallowed' = swallowed \cup body
      /\ \/ index' = index + Cardinality(body) + 1
         \/ /\ index' = index + Cardinality(body) + 1 + 1
            /\ index + Cardinality(body) + 1 \in Ends(Here.key)
  BY <1>1, <1>2, Zenon DEF ReadBlock
<1>8. index' = m + 1 \/ (index' = m + 2 /\ lines[m + 1].t # "key")
  <2>1. index + Cardinality(body) + 1 = m + 1 /\ m + 1 + 1 = m + 2
    BY <1>5, <1>6
  <2>2. m + 1 \in Ends(Here.key) => lines[m + 1].t = "close"
    BY DEF Ends, Where
  <2>. QED
    BY <1>7, <2>1, <2>2
<1>9. UNCHANGED <<lines, actions, verify>>
  BY DEF ReadBlock
<1>10. OneField(Here.key, body)
  <2>1. 0 \in {0, index}
    OBVIOUS
  <2>. QED
    BY <1>7, <2>1, OneFieldSet, Zenon
<1>11. Reads(Here.key, body)
  BY <1>6, <1>7, <1>8, <1>9, <1>10, BodyRead, Zenon
<1>. QED
  BY <1>7, <1>11

LEMMA ReadIndentedReads ==
  ASSUME ReadInv, ReadIndented
  PROVE  \E body : Reads(Here.key, body) /\ SetDefault(Here.key, index, body)
<1>1. PICK E : E = Where("fence") \cup Where("open") \cup KeyLines(Keys)
  OBVIOUS
<1>2. PICK body : body = Below(index, E)
  OBVIOUS
<1>3. index <= Len(lines)
  BY DEF ReadIndented, At
<1>4. E \in SUBSET (1 .. Len(lines))
  BY <1>1 DEF ReadInv, WellFormed, Where, KeyLines
<1>5. WellFormed(lines) /\ index \in 1 .. Len(lines)
  BY <1>3, NothingRead DEF ReadInv
<1>6. PICK m \in index .. Len(lines) : body = index + 1 .. m /\ Cardinality(body) = m - index
  BY <1>2, <1>4, <1>5, BelowIs, Zenon
<1>7. /\ SetDefault(Here.key, index, body)
      /\ swallowed' = swallowed \cup body
      /\ index' = index + Cardinality(body) + 1
  BY <1>1, <1>2, Zenon DEF ReadIndented
<1>8. index' = m + 1
  BY <1>5, <1>6, <1>7
<1>9. UNCHANGED <<lines, actions, verify>>
  BY DEF ReadIndented
<1>10. OneField(Here.key, body)
  <2>1. index \in {0, index}
    OBVIOUS
  <2>. QED
    BY <1>7, <2>1, OneFieldSet, Zenon
<1>11. Reads(Here.key, body)
  BY <1>6, <1>7, <1>8, <1>9, <1>10, BodyRead, Zenon
<1>. QED
  BY <1>7, <1>11

LEMMA ReadContinuedReads ==
  ASSUME ReadInv, ReadContinued
  PROVE  Reads("command", StripBlank(LinesBelow(index)))
<1>1. PICK body : body = StripBlank(LinesBelow(index))
  OBVIOUS
<1>2. index <= Len(lines)
  BY DEF ReadContinued, FirstCommand, At
<1>3. WellFormed(lines) /\ index \in 1 .. Len(lines)
  BY <1>2, NothingRead DEF ReadInv
<1>4. PICK m \in index .. Len(lines) : body = index + 1 .. m /\ Cardinality(body) = m - index
  BY <1>1, <1>3, StripBlankIs, Zenon
<1>5. /\ Set("command", index, body)
      /\ swallowed' = swallowed \cup body
      /\ index' = index + Cardinality(body) + 1
  BY <1>1, Zenon DEF ReadContinued
<1>6. index' = m + 1
  BY <1>3, <1>4, <1>5
<1>7. UNCHANGED <<lines, actions, verify>>
  BY DEF ReadContinued
<1>8. OneField("command", body)
  <2>1. index \in {0, index}
    OBVIOUS
  <2>. QED
    BY <1>5, <2>1, OneFieldSet, Zenon
<1>. QED
  BY <1>1, <1>4, <1>5, <1>6, <1>7, <1>8, BodyRead, Zenon

\* Each action but the verdict reads a line.
ReadsALine ==
  \/ SkipLine \/ ReadBlock \/ ReadAction \/ ReadVerify \/ ReadIndented
  \/ ReadContinued \/ ReadCommand \/ ReadKey

LEMMA EveryActionReads ==
  ASSUME ReadInv, ReadsALine
  PROVE  \E key, body : Reads(key, body)
<1>1. CASE SkipLine
  BY <1>1, SkipLineReads
<1>2. CASE ReadBlock
  BY <1>2, ReadBlockReads
<1>3. CASE ReadAction
  BY <1>3, ReadActionReads
<1>4. CASE ReadVerify
  BY <1>4, ReadVerifyReads
<1>5. CASE ReadIndented
  BY <1>5, ReadIndentedReads
<1>6. CASE ReadContinued
  BY <1>6, ReadContinuedReads
<1>7. CASE ReadCommand
  BY <1>7, ReadCommandReads
<1>8. CASE ReadKey
  BY <1>8, ReadKeyReads
<1>. QED
  BY <1>1, <1>2, <1>3, <1>4, <1>5, <1>6, <1>7, <1>8, Zenon DEF ReadsALine

---------------------------------------------------------------------------------
(* What is known of the command while the reply is read.                         *)

\* The lines below a single-line COMMAND are its rest, or they are set aside.
CommandRead ==
  LET line == fields["command"].line
  IN  /\ line \in 1 .. Len(lines)
      /\ lines[line].says # <<>> =>
           \/ fields["command"].body = {} /\ trailing = LinesBelow(line)
           \/ fields["command"].body = StripBlank(LinesBelow(line)) /\ trailing = {}

CommandInv ==
  /\ "command" \notin DOMAIN fields => trailing = {}
  /\ "command" \in DOMAIN fields /\ fields["command"].line # 0 => CommandRead

LEMMA LinesStay ==
  ASSUME UNCHANGED lines, NEW i
  PROVE  /\ LinesBelow(i)' = LinesBelow(i)
         /\ StripBlank(LinesBelow(i))' = StripBlank(LinesBelow(i))
<1>1. LinesBelow(i)' = LinesBelow(i)
  BY DEF LinesBelow, Below, Where, KeyLines, IsKey
<1>. QED
  BY <1>1 DEF StripBlank

\* While the command and what is below it stay, so does what is known of them.
LEMMA CommandStays ==
  ASSUME CommandInv, UNCHANGED <<lines, trailing>>,
         "command" \in DOMAIN fields =>
           "command" \in DOMAIN fields' /\ fields'["command"] = fields["command"],
         "command" \notin DOMAIN fields => "command" \notin DOMAIN fields'
  PROVE  CommandInv'
<1>1. CASE "command" \in DOMAIN fields
  <2>1. "command" \in DOMAIN fields' /\ fields'["command"] = fields["command"]
    BY <1>1
  <2>2. PICK line : line = fields["command"].line
    OBVIOUS
  <2>3. LinesBelow(line)' = LinesBelow(line) /\ StripBlank(LinesBelow(line))' = StripBlank(LinesBelow(line))
    BY LinesStay
  <2>4. ASSUME line # 0
        PROVE  CommandRead'
    <3>1. CommandRead
      BY <1>1, <2>2, <2>4 DEF CommandInv
    <3>2. /\ line \in 1 .. Len(lines)
          /\ lines[line].says # <<>> =>
               \/ fields["command"].body = {} /\ trailing = LinesBelow(line)
               \/ fields["command"].body = StripBlank(LinesBelow(line)) /\ trailing = {}
      BY <2>2, <3>1 DEF CommandRead
    <3>3. /\ line \in 1 .. Len(lines')
          /\ lines'[line].says # <<>> =>
               \/ fields'["command"].body = {} /\ trailing' = LinesBelow(line)'
               \/ fields'["command"].body = StripBlank(LinesBelow(line))' /\ trailing' = {}
      BY <2>1, <2>3, <3>2
    <3>4. fields'["command"].line = line
      BY <2>1, <2>2
    <3>. QED
      BY <3>3, <3>4 DEF CommandRead
  <2>. QED
    BY <2>1, <2>2, <2>4 DEF CommandInv
<1>2. CASE "command" \notin DOMAIN fields
  BY <1>2 DEF CommandInv
<1>. QED
  BY <1>1, <1>2

\* A step that sets another field, or none.
LEMMA OtherKeySet ==
  ASSUME CommandInv, UNCHANGED <<lines, trailing>>, NEW key, NEW line, NEW body,
         key # "command", Set(key, line, body) \/ SetDefault(key, line, body)
  PROVE  CommandInv'
<1>1. CASE fields' = fields
  BY <1>1, CommandStays
<1>2. CASE Set(key, line, body)
  <2>1. /\ DOMAIN fields' = DOMAIN fields \cup {key}
        /\ \A k \in DOMAIN fields \ {key} : fields'[k] = fields[k]
    BY <1>2, SetIs, Zenon
  <2>2. "command" \in DOMAIN fields => fields'["command"] = fields["command"]
    BY <2>1
  <2>. QED
    BY <2>1, <2>2, CommandStays
<1>. QED
  BY <1>1, <1>2, SetDefaultIs, Zenon

\* A step that reads a command of lines in a block or below a key with nothing
\* behind it.
LEMMA CommandOfLines ==
  ASSUME CommandInv, UNCHANGED <<lines, trailing>>, NEW line, NEW body,
         Set("command", line, body) \/ SetDefault("command", line, body),
         line # 0 => line \in 1 .. Len(lines) /\ lines[line].says = <<>>
  PROVE  CommandInv'
<1>1. CASE fields' = fields
  BY <1>1, CommandStays
<1>2. CASE Set("command", line, body)
  <2>1. "command" \in DOMAIN fields' /\ fields'["command"].line = line
    BY <1>2, SetIs
  <2>2. line # 0 => CommandRead'
    BY <2>1 DEF CommandRead
  <2>. QED
    BY <2>1, <2>2 DEF CommandInv
<1>. QED
  BY <1>1, <1>2, SetDefaultIs, Zenon

LEMMA CommandKept ==
  ASSUME ReadInv, CommandInv, ReadsALine
  PROVE  CommandInv'
<1>0. index \in Nat /\ index >= 1 /\ (index <= Len(lines) => index \in 1 .. Len(lines))
  BY NothingRead
<1>1. CASE SkipLine \/ ReadAction \/ ReadVerify
  <2>1. UNCHANGED <<lines, trailing, fields>>
    BY <1>1 DEF SkipLine, ReadAction, ReadVerify
  <2>. QED
    BY <2>1, CommandStays
<1>2. CASE ReadBlock
  <2>1. PICK body : Set(Here.key, 0, body)
    BY <1>2, ReadBlockReads
  <2>2. UNCHANGED <<lines, trailing>>
    BY <1>2 DEF ReadBlock
  <2>3. CASE Here.key = "command"
    <3>1. Set("command", 0, body)
      BY <2>1, <2>3
    <3>. QED
      BY <2>2, <3>1, CommandOfLines
  <2>4. CASE Here.key # "command"
    BY <2>1, <2>2, <2>4, OtherKeySet
  <2>. QED
    BY <2>3, <2>4
<1>3. CASE ReadIndented
  <2>1. PICK body : SetDefault(Here.key, index, body)
    BY <1>3, ReadIndentedReads
  <2>2. UNCHANGED <<lines, trailing>>
    BY <1>3 DEF ReadIndented
  <2>3. CASE Here.key = "command"
    <3>1. SetDefault("command", index, body)
      BY <2>1, <2>3
    <3>2. index \in 1 .. Len(lines) /\ lines[index].says = <<>>
      BY <1>0, <1>3 DEF ReadIndented, At, Here
    <3>. QED
      BY <2>2, <3>1, <3>2, CommandOfLines
  <2>4. CASE Here.key # "command"
    BY <2>1, <2>2, <2>4, OtherKeySet
  <2>. QED
    BY <2>3, <2>4
<1>4. CASE ReadContinued
  <2>1. /\ index <= Len(lines) /\ "command" \notin DOMAIN fields
        /\ Set("command", index, StripBlank(LinesBelow(index)))
        /\ UNCHANGED <<lines, trailing>>
    BY <1>4 DEF ReadContinued, FirstCommand, At
  <2>0. PICK i : i = index
    OBVIOUS
  <2>2. /\ "command" \in DOMAIN fields' /\ fields'["command"].line = i
        /\ fields'["command"].body = StripBlank(LinesBelow(i))
    BY <2>0, <2>1, SetIs
  <2>3. trailing' = {}
    BY <2>1 DEF CommandInv
  <2>4. CommandRead'
    <3>1. fields'["command"].body = StripBlank(LinesBelow(i))'
      BY <2>1, <2>2, LinesStay
    <3>. QED
      BY <1>0, <2>0, <2>1, <2>2, <2>3, <3>1 DEF CommandRead
  <2>. QED
    BY <2>2, <2>4 DEF CommandInv
<1>5. CASE ReadCommand
  <2>1. /\ index <= Len(lines)
        /\ Set("command", index, {})
        /\ trailing' = LinesBelow(index) /\ UNCHANGED lines
    BY <1>5 DEF ReadCommand, FirstCommand, At
  <2>0. PICK i : i = index
    OBVIOUS
  <2>2. /\ "command" \in DOMAIN fields' /\ fields'["command"].line = i
        /\ fields'["command"].body = {}
    BY <2>0, <2>1, SetIs
  <2>3. CommandRead'
    <3>1. trailing' = LinesBelow(i)'
      BY <2>0, <2>1, LinesStay
    <3>. QED
      BY <1>0, <2>0, <2>1, <2>2, <3>1 DEF CommandRead
  <2>. QED
    BY <2>2, <2>3 DEF CommandInv
<1>6. CASE ReadKey
  <2>1. /\ SetDefault(Here.key, index, {})
        /\ Here.key = "command" => "command" \in DOMAIN fields
        /\ UNCHANGED <<lines, trailing>>
    BY <1>6 DEF ReadKey
  <2>2. CASE Here.key = "command"
    <3>1. fields' = fields
      BY <2>1, <2>2, SetDefaultIs
    <3>. QED
      BY <2>1, <3>1, CommandStays
  <2>3. CASE Here.key # "command"
    BY <2>1, <2>3, OtherKeySet
  <2>. QED
    BY <2>2, <2>3
<1>. QED
  BY <1>1, <1>2, <1>3, <1>4, <1>5, <1>6, Zenon DEF ReadsALine
---------------------------------------------------------------------------------
(* What is known of the server while the reply is read.                          *)

\* The HOST lines so far that are not part of a body.
NamedSoFar == {i \in KeyLines({"host"}) \ swallowed : i < index}

\* The first of them stands.
HostInv ==
  /\ "host" \notin DOMAIN fields => NamedSoFar = {}
  /\ "host" \in DOMAIN fields =>
       /\ fields["host"].body = {}
       /\ fields["host"].line \in NamedSoFar
       /\ \A i \in NamedSoFar : fields["host"].line <= i

\* A key line at index that is not HOST is none of them, nor is a line of a body.
LEMMA NoneNamed ==
  ASSUME ReadInv, NEW key, NEW body, Reads(key, body), ~ IsKey(index, {"host"})
  PROVE  NamedSoFar' = NamedSoFar
<1>1. /\ index \in Nat /\ index' \in Nat /\ index' > index /\ UNCHANGED lines
      /\ swallowed' = swallowed \cup body
      /\ body \in SUBSET (index + 1 .. index' - 1)
      /\ \A i \in index + 1 .. index' - 1 : i \in body \/ lines[i].t # "key"
  BY Zenon DEF ReadInv, Reads
<1>2. KeyLines({"host"})' = KeyLines({"host"})
  BY <1>1 DEF KeyLines, IsKey
<1>3. ASSUME NEW i \in KeyLines({"host"})
      PROVE  i \in Nat /\ lines[i].t = "key" /\ i # index
  BY <1>1 DEF KeyLines, IsKey, ReadInv, WellFormed
<1>4. ASSUME NEW i \in KeyLines({"host"})
      PROVE  (i \notin swallowed' /\ i < index') <=> (i \notin swallowed /\ i < index)
  <2>1. i \in Nat /\ lines[i].t = "key" /\ i # index
    BY <1>3
  <2>2. CASE i < index
    <3>0. \A a, b, j \in Nat : b > a /\ j < a => j \notin a + 1 .. b - 1 /\ j < b
      OBVIOUS
    <3>1. i \notin index + 1 .. index' - 1 /\ i < index'
      BY <1>1, <2>1, <2>2, <3>0, Zenon
    <3>2. i \notin body
      BY <1>1, <3>1
    <3>. QED
      BY <1>1, <2>2, <3>1, <3>2
  <2>3. CASE ~ (i < index) /\ i < index'
    <3>1. \A a, b, j \in Nat : j # a /\ ~ (j < a) /\ j < b => j \in a + 1 .. b - 1
      OBVIOUS
    <3>2. i \in index + 1 .. index' - 1
      BY <1>1, <2>1, <2>3, <3>1, Zenon
    <3>3. i \in swallowed'
      BY <1>1, <2>1, <3>2
    <3>. QED
      BY <2>3, <3>3
  <2>4. CASE ~ (i < index) /\ ~ (i < index')
    BY <2>4
  <2>. QED
    BY <2>2, <2>3, <2>4
<1>. QED
  BY <1>2, <1>4 DEF NamedSoFar

LEMMA HostStays ==
  ASSUME HostInv, NamedSoFar' = NamedSoFar,
         "host" \in DOMAIN fields => "host" \in DOMAIN fields' /\ fields'["host"] = fields["host"],
         "host" \notin DOMAIN fields => "host" \notin DOMAIN fields'
  PROVE  HostInv'
BY DEF HostInv

LEMMA OtherThanHostSet ==
  ASSUME HostInv, NamedSoFar' = NamedSoFar, NEW key, NEW line, NEW body,
         key # "host", Set(key, line, body) \/ SetDefault(key, line, body)
  PROVE  HostInv'
<1>1. CASE fields' = fields
  BY <1>1, HostStays
<1>2. CASE Set(key, line, body)
  <2>1. /\ DOMAIN fields' = DOMAIN fields \cup {key}
        /\ \A k \in DOMAIN fields \ {key} : fields'[k] = fields[k]
    BY <1>2, SetIs, Zenon
  <2>2. "host" \in DOMAIN fields => fields'["host"] = fields["host"]
    BY <2>1
  <2>. QED
    BY <2>1, <2>2, HostStays
<1>. QED
  BY <1>1, <1>2, SetDefaultIs, Zenon

LEMMA HostRead ==
  ASSUME ReadInv, HostInv, ReadKey, Here.key = "host"
  PROVE  HostInv'
<1>1. /\ index' = index + 1 /\ index <= Len(lines) /\ UNCHANGED <<lines, swallowed>>
      /\ SetDefault("host", index, {}) /\ lines[index].t = "key" /\ lines[index].key = "host"
  BY DEF ReadKey, At, Here
<1>2. index \in Nat /\ index \in 1 .. Len(lines)
  BY <1>1, NothingRead
<1>3. index \in KeyLines({"host"})
  BY <1>1, <1>2 DEF KeyLines, IsKey, ReadInv, WellFormed
<1>4. index \notin swallowed
  <2>1. \A i \in 1 .. index - 1 : i # index
    BY <1>2
  <2>. QED
    BY <2>1 DEF ReadInv
<1>5. KeyLines({"host"})' = KeyLines({"host"})
  BY <1>1 DEF KeyLines, IsKey
<1>6. NamedSoFar' = NamedSoFar \cup {index}
  <2>1. ASSUME NEW i \in KeyLines({"host"})
        PROVE  i < index + 1 <=> i < index \/ i = index
    <3>1. i \in Nat
      BY DEF KeyLines, ReadInv, WellFormed
    <3>. QED
      BY <1>2, <3>1
  <2>. QED
    BY <1>1, <1>3, <1>4, <1>5, <2>1 DEF NamedSoFar
<1>7. \A i \in NamedSoFar : i \in Nat /\ i <= index
  BY <1>2 DEF NamedSoFar, KeyLines, ReadInv, WellFormed
<1>8. CASE "host" \in DOMAIN fields
  <2>1. fields' = fields
    BY <1>1, <1>8, SetDefaultIs
  <2>2. /\ fields["host"].body = {}
        /\ fields["host"].line \in NamedSoFar
        /\ \A i \in NamedSoFar : fields["host"].line <= i
    BY <1>8 DEF HostInv
  <2>3. fields["host"].line <= index
    BY <1>7, <2>2
  <2>. QED
    BY <1>6, <1>8, <2>1, <2>2, <2>3 DEF HostInv
<1>9. CASE "host" \notin DOMAIN fields
  <2>1. Set("host", index, {})
    BY <1>1, <1>9, SetDefaultIs
  <2>2. "host" \in DOMAIN fields' /\ fields'["host"].line = index /\ fields'["host"].body = {}
    BY <2>1, SetIs
  <2>3. NamedSoFar' = {index}
    BY <1>6, <1>9 DEF HostInv
  <2>4. index <= index
    BY <1>2
  <2>. QED
    BY <2>2, <2>3, <2>4 DEF HostInv
<1>. QED
  BY <1>8, <1>9

LEMMA HostKept ==
  ASSUME ReadInv, HostInv, ReadsALine
  PROVE  HostInv'
<1>1. CASE SkipLine \/ ReadAction \/ ReadVerify
  <2>1. Reads("", {})
    BY <1>1, SkipLineReads, ReadActionReads, ReadVerifyReads
  <2>2. UNCHANGED fields
    BY <1>1 DEF SkipLine, ReadAction, ReadVerify
  <2>3. ~ IsKey(index, {"host"})
    BY <1>1 DEF SkipLine, ReadAction, ReadVerify, At, Here, IsKey, Keys
  <2>4. NamedSoFar' = NamedSoFar
    BY <2>1, <2>3, NoneNamed
  <2>. QED
    BY <2>2, <2>4, HostStays
<1>2. CASE ReadBlock
  <2>1. PICK body : Reads(Here.key, body) /\ Set(Here.key, 0, body)
    BY <1>2, ReadBlockReads
  <2>2. lines[index].t = "open" /\ index <= Len(lines)
    BY <1>2 DEF ReadBlock, At, Here
  <2>3. ~ IsKey(index, {"host"})
    BY <2>2 DEF IsKey
  <2>4. Here.key # "host"
    <3>1. index \in DOMAIN lines
      BY <2>2, NothingRead DEF ReadInv, WellFormed
    <3>2. lines[index].key \in Blocks
      BY <2>2, <3>1 DEF ReadInv, WellFormed
    <3>. QED
      BY <3>2 DEF Here, Blocks
  <2>5. NamedSoFar' = NamedSoFar
    BY <2>1, <2>3, NoneNamed
  <2>. QED
    BY <2>1, <2>4, <2>5, OtherThanHostSet
<1>3. CASE ReadIndented
  <2>1. PICK body : Reads(Here.key, body) /\ SetDefault(Here.key, index, body)
    BY <1>3, ReadIndentedReads
  <2>2. Here.key # "host" /\ ~ IsKey(index, {"host"})
    BY <1>3 DEF ReadIndented, Here, IsKey, Multiline, Blocks
  <2>3. NamedSoFar' = NamedSoFar
    BY <2>1, <2>2, NoneNamed
  <2>. QED
    BY <2>1, <2>2, <2>3, OtherThanHostSet
<1>4. CASE ReadContinued
  <2>1. Reads("command", StripBlank(LinesBelow(index)))
    BY <1>4, ReadContinuedReads
  <2>2. Set("command", index, StripBlank(LinesBelow(index))) /\ ~ IsKey(index, {"host"})
    BY <1>4 DEF ReadContinued, FirstCommand, At, Here, IsKey
  <2>3. NamedSoFar' = NamedSoFar
    BY <2>1, <2>2, NoneNamed
  <2>. QED
    BY <2>2, <2>3, OtherThanHostSet
<1>5. CASE ReadCommand
  <2>1. Reads("command", {})
    BY <1>5, ReadCommandReads
  <2>2. Set("command", index, {}) /\ ~ IsKey(index, {"host"})
    BY <1>5 DEF ReadCommand, FirstCommand, At, Here, IsKey
  <2>3. NamedSoFar' = NamedSoFar
    BY <2>1, <2>2, NoneNamed
  <2>. QED
    BY <2>2, <2>3, OtherThanHostSet
<1>6. CASE ReadKey /\ Here.key # "host"
  <2>1. Reads(Here.key, {})
    BY <1>6, ReadKeyReads
  <2>2. SetDefault(Here.key, index, {}) /\ ~ IsKey(index, {"host"})
    BY <1>6 DEF ReadKey, Here, IsKey
  <2>3. NamedSoFar' = NamedSoFar
    BY <2>1, <2>2, NoneNamed
  <2>. QED
    BY <1>6, <2>2, <2>3, OtherThanHostSet
<1>7. CASE ReadKey /\ Here.key = "host"
  BY <1>7, HostRead
<1>. QED
  BY <1>1, <1>2, <1>3, <1>4, <1>5, <1>6, <1>7, Zenon DEF ReadsALine
---------------------------------------------------------------------------------
(* The verdict.                                                                  *)

\* What a step that is handed over was found to be.
Verdict ==
  step.outcome = "step" =>
    /\ index > Len(lines)
    /\ step.host = ResolvedHost(step.action)
    /\ step.host = 0 => step.action \in {<<"done">>, <<"abort">>}
    /\ step.action = <<"run">> => Command # {} /\ Dangling = {} /\ step.dropped = Text(trailing)
    /\ \A n \in DOMAIN verify :
         /\ step.scopes[n] = ScopeOf(verify[n])
         /\ Scoped(verify[n]) => ScopeOf(verify[n]) # 0

LEMMA NotRefused ==
  ASSUME NEW action, Refusal(action) = "none"
  PROVE  /\ action \notin {<<"done">>, <<"abort">>} => ResolvedHost(action) # 0
         /\ action = <<"run">> => Command # {} /\ Dangling = {}
         /\ \A n \in DOMAIN verify : Scoped(verify[n]) => ScopeOf(verify[n]) # 0
<1>1. \A i \in ToSet(verify) : ~ (Scoped(i) /\ ScopeOf(i) = 0)
  BY Zenon DEF Refusal
<1>2. action \notin {<<"done">>, <<"abort">>} => ResolvedHost(action) # 0
  BY Zenon DEF Refusal
<1>3. action = <<"run">> => Command # {} /\ Dangling = {}
  BY Zenon DEF Refusal
<1>4. \A n \in DOMAIN verify : verify[n] \in ToSet(verify)
  BY DEF ToSet
<1>. QED
  BY <1>1, <1>2, <1>3, <1>4, Zenon

\* What the verdict is about stays while the reply, and what is read of it, do.
LEMMA ReadStays ==
  ASSUME UNCHANGED <<lines, fields, verify, trailing>>
  PROVE  /\ Command' = Command /\ Dangling' = Dangling
         /\ Text(trailing)' = Text(trailing)
         /\ \A i : ScopeOf(i)' = ScopeOf(i) /\ (Scoped(i)' <=> Scoped(i))
         /\ \A action : ResolvedHost(action)' = ResolvedHost(action)
<1>1. Command' = Command
  BY DEF Command, Text, Lines
<1>2. Dangling' = Dangling
  BY DEF Dangling
<1>3. Text(trailing)' = Text(trailing)
  BY DEF Text
<1>4. \A i : ScopeOf(i)' = ScopeOf(i) /\ (Scoped(i)' <=> Scoped(i))
  BY DEF ScopeOf, Scoped, Named
<1>5. Host' = Host
  BY DEF Host, Value, Lines, Latest, Named
<1>6. \A action : ResolvedHost(action)' = ResolvedHost(action)
  BY <1>5 DEF ResolvedHost
<1>. QED
  BY <1>1, <1>2, <1>3, <1>4, <1>6

LEMMA JudgedSo ==
  ASSUME Judge
  PROVE  Verdict'
<1>1. /\ index > Len(lines)
      /\ UNCHANGED <<reply, lines, index, fields, actions, verify, swallowed, trailing>>
      /\ step' = IF Refusal(FirstAction) = "none" THEN StepOf(FirstAction)
                 ELSE [outcome |-> "refused", why |-> Refusal(FirstAction)]
  BY DEF Judge
<1>2. CASE Refusal(FirstAction) # "none"
  <2>1. step'.outcome = "refused"
    BY <1>1, <1>2
  <2>. QED
    BY <2>1 DEF Verdict
<1>3. CASE Refusal(FirstAction) = "none"
  <2>0. PICK a : a = FirstAction
    OBVIOUS
  <2>1. step' = StepOf(a)
    BY <1>1, <1>3, <2>0
  <2>2. /\ step'.action = a /\ step'.host = ResolvedHost(a) /\ step'.dropped = Text(trailing)
        /\ \A n \in DOMAIN verify : step'.scopes[n] = ScopeOf(verify[n])
    BY <2>1 DEF StepOf
  <2>3. /\ a \notin {<<"done">>, <<"abort">>} => ResolvedHost(a) # 0
        /\ a = <<"run">> => Command # {} /\ Dangling = {}
        /\ \A n \in DOMAIN verify : Scoped(verify[n]) => ScopeOf(verify[n]) # 0
    BY <1>3, <2>0, NotRefused, Zenon
  <2>4. /\ Command' = Command /\ Dangling' = Dangling
        /\ Text(trailing)' = Text(trailing)
        /\ \A i : ScopeOf(i)' = ScopeOf(i) /\ (Scoped(i)' <=> Scoped(i))
        /\ ResolvedHost(a)' = ResolvedHost(a)
    BY <1>1, ReadStays, Zenon
  <2>. QED
    BY <1>1, <2>2, <2>3, <2>4 DEF Verdict
<1>. QED
  BY <1>2, <1>3

ParseInv == ReadInv /\ CommandInv /\ HostInv /\ Verdict

LEMMA ParseInvStarts == Init => ParseInv
<1>. SUFFICES ASSUME Init
              PROVE  ParseInv
  OBVIOUS
<1>1. WellFormed(lines)
  <2>1. WellFormed(reply)
    BY ParseAssumption DEF Init
  <2>. QED
    BY <2>1, StripIsWellFormed DEF Init
<1>2. /\ index = 1 /\ fields = <<>> /\ actions = <<>> /\ verify = <<>>
      /\ swallowed = {} /\ trailing = {} /\ step = Reading
  BY DEF Init
<1>3. DOMAIN fields = {} /\ ToSet(actions) = {} /\ ToSet(verify) = {}
  BY <1>2 DEF ToSet
<1>4. ReadInv
  <2>1. Keyed = {}
    BY <1>3 DEF Keyed
  <2>2. EachLineOnce
    BY <1>2, <1>3 DEF EachLineOnce
  <2>3. actions \in Seq(Nat) /\ verify \in Seq(Nat) /\ index \in Nat /\ index >= 1
    BY <1>2
  <2>. QED
    BY <1>1, <1>2, <1>3, <2>1, <2>2, <2>3 DEF ReadInv
<1>5. NamedSoFar = {}
  <2>1. \A i \in DOMAIN lines : i \in Nat /\ ~ (i < 1)
    BY <1>1 DEF WellFormed
  <2>. QED
    BY <1>2, <2>1 DEF NamedSoFar, KeyLines
<1>6. CommandInv /\ HostInv
  BY <1>2, <1>3, <1>5 DEF CommandInv, HostInv
<1>7. Verdict
  BY <1>2 DEF Verdict, Reading
<1>. QED
  BY <1>4, <1>6, <1>7 DEF ParseInv

LEMMA ParseInvStays ==
  ASSUME ParseInv, UNCHANGED <<lines, index, fields, actions, verify, swallowed, trailing>>
  PROVE  ReadInv' /\ CommandInv' /\ HostInv'
<1>1. ReadInv'
  <2>1. Keyed' = Keyed
    BY DEF Keyed, ToSet
  <2>2. EachLineOnce'
    BY <2>1 DEF ParseInv, ReadInv, EachLineOnce, ToSet
  <2>. QED
    BY <2>1, <2>2 DEF ParseInv, ReadInv, WellFormed
<1>2. CommandInv'
  BY CommandStays DEF ParseInv
<1>3. NamedSoFar' = NamedSoFar
  BY DEF NamedSoFar, KeyLines, IsKey
<1>4. HostInv'
  BY <1>3, HostStays DEF ParseInv
<1>. QED
  BY <1>1, <1>2, <1>4

LEMMA ParseInvKept == ParseInv /\ [Next]_vars => ParseInv'
<1>. SUFFICES ASSUME ParseInv, [Next]_vars
              PROVE  ParseInv'
  OBVIOUS
<1>1. CASE ReadsALine
  <2>1. ReadInv'
    BY <1>1, EveryActionReads, ReadsOn DEF ParseInv
  <2>2. CommandInv' /\ HostInv'
    BY <1>1, CommandKept, HostKept DEF ParseInv
  <2>3. step' = Reading
    BY <1>1 DEF ReadsALine, SkipLine, ReadBlock, ReadAction, ReadVerify, ReadIndented,
                ReadContinued, ReadCommand, ReadKey, FirstCommand, At
  <2>4. Verdict'
    BY <2>3 DEF Verdict, Reading
  <2>. QED
    BY <2>1, <2>2, <2>4 DEF ParseInv
<1>2. CASE Judge
  <2>1. ReadInv' /\ CommandInv' /\ HostInv'
    BY <1>2, ParseInvStays DEF Judge
  <2>. QED
    BY <1>2, <2>1, JudgedSo DEF ParseInv
<1>3. CASE UNCHANGED vars
  <2>1. ReadInv' /\ CommandInv' /\ HostInv'
    BY <1>3, ParseInvStays DEF vars
  <2>2. UNCHANGED <<step, index, lines, fields, verify, trailing>>
    BY <1>3 DEF vars
  <2>3. PICK a : a = step.action
    OBVIOUS
  <2>4. /\ Command' = Command /\ Dangling' = Dangling
        /\ Text(trailing)' = Text(trailing)
        /\ \A i : ScopeOf(i)' = ScopeOf(i) /\ (Scoped(i)' <=> Scoped(i))
        /\ ResolvedHost(a)' = ResolvedHost(a)
    BY <2>2, ReadStays, Zenon
  <2>5. Verdict'
    BY <2>2, <2>3, <2>4 DEF ParseInv, Verdict
  <2>. QED
    BY <2>1, <2>5 DEF ParseInv
<1>. QED
  BY <1>1, <1>2, <1>3 DEF Next, ReadsALine, Judged

THEOREM ParseIsSound == Spec => []ParseInv
BY ParseInvStarts, ParseInvKept, PTL DEF Spec

\* A line of the reply is read as one thing: no line of a body is read as a key
\* as well, and no two fields hold one line.
THEOREM ReadOnce == Spec => []EachLineOnce
<1>1. ParseInv => EachLineOnce
  BY DEF ParseInv, ReadInv
<1>. QED
  BY <1>1, ParseIsSound, PTL

\* A command that is taken runs whole: what stands hard against it does, and what
\* stands further down does or is on record.
LEMMA CommandWhole == ParseInv => NothingHalfRun
<1>. SUFFICES ASSUME ParseInv, Taken(<<"run">>), fields["command"].line # 0,
                     lines[fields["command"].line].says # <<>>
              PROVE  LET line == fields["command"].line
                         hard == {i \in Written(line) : \A j \in line + 1 .. i : lines[j].t # "blank"}
                     IN  hard \subseteq Command /\ Written(line) \subseteq Kept
  BY DEF NothingHalfRun
<1>1. Command # {} /\ Dangling = {} /\ step.dropped = Text(trailing)
  BY DEF ParseInv, Verdict, Taken
<1>2. "command" \in DOMAIN fields
  BY <1>1 DEF Command, Lines
<1>3. PICK line : line = fields["command"].line
  OBVIOUS
<1>4. PICK body : body = fields["command"].body
  OBVIOUS
<1>5. /\ line \in 1 .. Len(lines) /\ lines[line].says # <<>> /\ line # 0
      /\ \/ body = {} /\ trailing = LinesBelow(line)
         \/ body = StripBlank(LinesBelow(line)) /\ trailing = {}
  BY <1>2, <1>3, <1>4 DEF ParseInv, CommandInv, CommandRead
<1>6. WellFormed(lines) /\ line \in Nat
  BY <1>5 DEF ParseInv, ReadInv
<1>7. PICK m \in line .. Len(lines) : LinesBelow(line) = line + 1 .. m
  BY <1>5, <1>6, LinesBelowIs
<1>8. Lines("command") = body \cup {line}
  BY <1>2, <1>3, <1>4, <1>5 DEF Lines
<1>9. \A i \in LinesBelow(line) : i \in Nat /\ i > line
  BY <1>6, <1>7
<1>10. StripBlank(LinesBelow(line)) \subseteq LinesBelow(line)
  BY DEF StripBlank
<1>11. PICK solid : /\ solid = {i \in Text(Lines("command")) : lines[i].t # "tag"}
                    /\ Command = {i \in Lines("command") : \E j \in solid : j >= i}
  BY DEF Command
<1>12. line \in Command
  <2>1. PICK c \in Lines("command") : \E j \in solid : j >= c
    BY <1>1, <1>11
  <2>2. PICK j \in solid : j >= c
    BY <2>1
  <2>3. \A i \in Lines("command") : i \in Nat /\ i >= line
    BY <1>5, <1>6, <1>8, <1>9, <1>10
  <2>4. j \in Lines("command")
    BY <1>11, <2>2 DEF Text
  <2>5. j >= line
    BY <2>3, <2>4
  <2>. QED
    BY <1>8, <1>11, <2>2, <2>5
<1>13. Written(line) = {line} \cup {i \in Text(LinesBelow(line)) : lines[i].t # "tag"}
  BY DEF Written
<1>14. Written(line) \subseteq Kept
  <2>1. CASE trailing = LinesBelow(line)
    BY <1>1, <1>12, <1>13, <2>1 DEF Kept
  <2>2. CASE body = StripBlank(LinesBelow(line))
    <3>1. ASSUME NEW i \in Text(LinesBelow(line)), lines[i].t # "tag"
          PROVE  i \in Command
      <4>1. i \in LinesBelow(line) /\ lines[i].t # "blank" /\ i \in Nat /\ i >= i
        BY <1>9, <3>1 DEF Text
      <4>2. i \in StripBlank(LinesBelow(line))
        BY <4>1 DEF StripBlank
      <4>3. i \in Lines("command")
        BY <1>8, <2>2, <4>2
      <4>4. i \in solid
        BY <1>11, <3>1, <4>1, <4>3 DEF Text
      <4>. QED
        BY <1>11, <4>1, <4>3, <4>4
    <3>. QED
      BY <1>12, <1>13, <3>1 DEF Kept
  <2>. QED
    BY <1>5, <2>1, <2>2
<1>15. ASSUME NEW i \in Written(line), \A j \in line + 1 .. i : lines[j].t # "blank"
       PROVE  i \in Command
  <2>1. CASE i = line
    BY <1>12, <2>1
  <2>2. CASE i # line /\ trailing = {}
    <3>1. i \in Command \cup Text(trailing)
      BY <1>1, <1>14 DEF Kept
    <3>. QED
      BY <2>2, <3>1 DEF Text
  <2>3. CASE i # line /\ trailing = LinesBelow(line)
    <3>1. i \in line + 1 .. m
      BY <1>7, <1>13, <2>3 DEF Text
    <3>2. line + 1 \in trailing /\ line + 1 \in line + 1 .. i
      BY <1>6, <1>7, <2>3, <3>1
    <3>3. lines[line + 1].t # "blank"
      BY <1>15, <3>2
    <3>4. \A j \in trailing : j <= line + 1 => j = line + 1
      BY <1>6, <1>9, <2>3
    <3>5. line + 1 \in Dangling
      BY <3>2, <3>3, <3>4 DEF Dangling
    <3>. QED
      BY <1>1, <3>5
  <2>. QED
    BY <1>5, <2>1, <2>2, <2>3
<1>. QED
  BY <1>3, <1>14, <1>15, Zenon

THEOREM CommandsRunWhole == Spec => []NothingHalfRun
BY CommandWhole, ParseIsSound, PTL

\* A step goes where its first HOST line says, and a check where its bracket says.
LEMMA Addressed == ParseInv => AimedAsNamed
<1>. SUFFICES ASSUME ParseInv, step.outcome = "step"
              PROVE  LET named == KeyLines({"host"}) \ swallowed
                     IN  /\ step.host # 0 /\ Len(Servers) > 1 =>
                              named # {} /\ step.host = Named(lines[Min(named)].says)
                         /\ step.host = 0 => step.action \in {<<"done">>, <<"abort">>}
                         /\ \A n \in DOMAIN verify :
                              step.scopes[n] = 0 <=> lines[verify[n]].says[1] # "["
  BY DEF AimedAsNamed
<1>1. /\ index > Len(lines)
      /\ step.host = ResolvedHost(step.action)
      /\ step.host = 0 => step.action \in {<<"done">>, <<"abort">>}
      /\ \A n \in DOMAIN verify :
           /\ step.scopes[n] = ScopeOf(verify[n])
           /\ Scoped(verify[n]) => ScopeOf(verify[n]) # 0
  BY DEF ParseInv, Verdict
<1>2. PICK named : named = KeyLines({"host"}) \ swallowed
  OBVIOUS
<1>3. named = NamedSoFar /\ named \in SUBSET Nat
  <2>1. \A i \in KeyLines({"host"}) : i \in Nat /\ i < index
    BY <1>1 DEF KeyLines, ParseInv, ReadInv, WellFormed
  <2>. QED
    BY <1>2, <2>1 DEF NamedSoFar
<1>4. ASSUME step.host # 0, Len(Servers) > 1
      PROVE  named # {} /\ step.host = Named(lines[Min(named)].says)
  <2>1. Host # 0 /\ step.host = Host
    BY <1>1, <1>4 DEF ResolvedHost
  <2>2. Named(<<>>) = 0
    BY DEF Named, Find
  <2>3. Value("host") # <<>>
    BY <2>1, <2>2 DEF Host
  <2>4. "host" \in DOMAIN fields
    BY <2>3 DEF Value, Lines, Latest
  <2>5. PICK line : line = fields["host"].line
    OBVIOUS
  <2>6. line \in named /\ fields["host"].body = {} /\ \A i \in named : line <= i
    BY <1>3, <2>4, <2>5 DEF ParseInv, HostInv
  <2>7. line \in Nat /\ line # 0
    BY <1>2, <2>6 DEF KeyLines, ParseInv, ReadInv, WellFormed
  <2>8. Lines("host") = {line}
    <3>1. Lines("host") \subseteq {line}
      BY <2>4, <2>5, <2>6 DEF Lines
    <3>2. Lines("host") # {}
      BY <2>3 DEF Value, Latest
    <3>. QED
      BY <3>1, <3>2
  <2>9. Value("host") = lines[line].says
    BY <2>7, <2>8, LatestOfOne DEF Value
  <2>10. Min(named) = line
    <3>1. Min(named) \in named /\ Min(named) <= line
      BY <1>3, <2>6, MinIsLeast
    <3>2. line <= Min(named) /\ Min(named) \in Nat
      BY <1>3, <2>6, <3>1
    <3>. QED
      BY <2>7, <3>1, <3>2
  <2>. QED
    BY <2>1, <2>6, <2>9, <2>10 DEF Host
<1>5. ASSUME NEW n \in DOMAIN verify
      PROVE  step.scopes[n] = 0 <=> lines[verify[n]].says[1] # "["
  BY <1>1 DEF ScopeOf, Scoped
<1>. QED
  BY <1>1, <1>2, <1>4, <1>5, Zenon

THEOREM StepsGoWhereNamed == Spec => []AimedAsNamed
BY Addressed, ParseIsSound, PTL
=================================================================================
