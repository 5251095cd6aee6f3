-------------------------- MODULE GuardVerdict_proofs --------------------------
(***************************************************************************)
(* Proofs about GuardVerdict, for every command whose shells are not       *)
(* nested too deep to be looked into, and every script.                    *)
(***************************************************************************)
EXTENDS GuardVerdict, WellFoundedInduction, TLAPS

-----------------------------------------------------------------------------
(***************************************************************************)
(* Least and greatest.                                                     *)
(***************************************************************************)

LEMMA LeastExists ==
  ASSUME NEW T \in SUBSET Nat, T # {}
  PROVE  \E x \in T : \A y \in T : x <= y
<1>1. \E x \in T : \A y \in T : ~ (<<y, x>> \in OpToRel(<, Nat))
  BY NatLessThanWellFounded, WFMin
<1>2. \A x, y \in Nat : <<y, x>> \in OpToRel(<, Nat) <=> y < x
  BY DEF OpToRel
<1>3. PICK x \in T : \A y \in T : ~ (<<y, x>> \in OpToRel(<, Nat))
  BY <1>1
<1>4. ASSUME NEW y \in T
      PROVE  x <= y
  <2>1. x \in Nat /\ y \in Nat /\ ~ (y < x)
    BY <1>2, <1>3
  <2>. QED
    BY <2>1
<1>. QED
  BY <1>4

LEMMA MinIsLeast ==
  ASSUME NEW T \in SUBSET Nat, T # {}
  PROVE  Min(T) \in T /\ \A y \in T : Min(T) <= y
BY LeastExists DEF Min

LEMMA MinIs ==
  ASSUME NEW T \in SUBSET Nat, NEW x \in T, \A y \in T : x <= y
  PROVE  Min(T) = x
<1>1. Min(T) \in T /\ Min(T) <= x /\ x <= Min(T)
  BY MinIsLeast
<1>2. Min(T) \in Nat /\ x \in Nat
  BY <1>1
<1>. QED
  BY <1>1, <1>2

\* The first verdict of one is that one.
LEMMA FirstOfOne ==
  ASSUME NEW level
  PROVE  FirstOf(<<level>>) = level
<1>1. CASE level = "allow"
  <2>1. {i \in DOMAIN <<level>> : <<level>>[i] # "allow"} = {}
    BY <1>1
  <2>. QED
    BY <1>1, <2>1 DEF FirstOf
<1>2. CASE level # "allow"
  <2>1. {i \in DOMAIN <<level>> : <<level>>[i] # "allow"} = {1}
    BY <1>2
  <2>2. Min({1}) = 1
    BY MinIs
  <2>. QED
    BY <2>1, <2>2 DEF FirstOf
<1>. QED
  BY <1>1, <1>2

-----------------------------------------------------------------------------
(***************************************************************************)
(* One command by itself.                                                  *)
(***************************************************************************)

\* A text that is one command, where b and what the command says of itself make c.
StandsAlone(text, words, b, c) ==
  words # <<>> /\ \E bg : text = Alone(words, bg) /\ c = (b \/ bg)

\* What the patterns of the table say of a text, else the level.
RulesOr(text, level) == IF text.rules # {} THEN RuleLevels[Min(text.rules)] ELSE level

\* It is judged as the one segment it is.
LEMMA AloneIsItsSegment ==
  ASSUME NEW text, NEW b, NEW c, NEW words, StandsAlone(text, words, b, c)
  PROVE  \A x : /\ Classify(text, TRUE, x, b) = RulesOr(text, JudgeOuter(text.segs[1], x, c))
               /\ First(text, x, b) = RulesOr(text, JudgeFirst(text.segs[1], x, c))
<1> TAKE x
<1>0. PICK bg : words # <<>> /\ text = Alone(words, bg) /\ c = (b \/ bg)
  BY DEF StandsAlone
<1> DEFINE level == JudgeOuter(text.segs[1], x, c)
           deep  == JudgeFirst(text.segs[1], x, c)
           levels == [i \in DOMAIN text.segs |-> JudgeOuter(text.segs[i], x, b \/ text.segs[i].bg)]
           deeps  == [i \in DOMAIN text.segs |-> JudgeFirst(text.segs[i], x, b \/ text.segs[i].bg)]
<1>1. text.segs = <<[words |-> words, bg |-> bg]>> /\ text.open = FALSE
  BY <1>0 DEF Alone
<1>2. DOMAIN text.segs = {1} /\ text.segs[1].words = words /\ text.segs[1].bg = bg
  BY <1>1
<1>3. levels = <<level>> /\ deeps = <<deep>>
  BY <1>0, <1>2
<1> HIDE DEF level, deep
<1>4. FirstOf(levels) = level /\ FirstOf(deeps) = deep
  BY <1>3, FirstOfOne, Zenon
<1>5. ~ \A i \in DOMAIN text.segs : text.segs[i].words = <<>>
  BY <1>0, <1>2
<1>6. Classify(text, TRUE, x, b) =
        IF text.rules # {} THEN RuleLevels[Min(text.rules)] ELSE level
  BY <1>1, <1>4, <1>5, Zenon DEF Classify, Decide
<1>7. First(text, x, b) =
        IF text.rules # {} THEN RuleLevels[Min(text.rules)] ELSE deep
  BY <1>1, <1>4, <1>5, Zenon DEF First, Decide
<1>. QED
  BY <1>6, <1>7, Zenon DEF level, deep, RulesOr

\* The words of a shell command, past what only wraps it.
LEMMA StripsWrappers ==
  ASSUME NEW words, DOMAIN words = 1 .. Len(words), Len(words) \in Nat,
         NEW k \in 1 .. Len(words), words[k].w \notin Wrappers,
         \A i \in 1 .. k - 1 : words[i].w \in Wrappers
  PROVE  Stripped(words) = SubSeq(words, k, Len(words))
<1> DEFINE own == {i \in DOMAIN words : words[i].w \notin Wrappers}
<1>1. own \in SUBSET Nat /\ k \in own /\ \A i \in own : k <= i
  OBVIOUS
<1>2. Min(own) = k
  BY <1>1, MinIs
<1>. QED
  BY <1>1, <1>2 DEF Stripped

\* What stands behind -c, where it is the word at n.
LEMMA PayloadIs ==
  ASSUME NEW args, NEW n \in 2 .. Len(args), DOMAIN args = 1 .. Len(args), Len(args) \in Nat,
         args[n - 1].w = "-c", \A i \in 1 .. n - 2 : args[i].w # "-c", args[n].in # <<Empty>>
  PROVE  Payload(args) = args[n].in
<1> DEFINE behind == {i \in DOMAIN args : i > 1 /\ args[i - 1].w = "-c"}
<1>1. behind \in SUBSET Nat /\ n \in behind /\ \A i \in behind : n <= i
  OBVIOUS
<1>2. Min(behind) = n
  BY <1>1, MinIs
<1>. QED
  BY <1>1, <1>2 DEF Payload

\* A shell, past what wraps it, that is given a text to run.
HandsOver(words, t) ==
  /\ Stripped(words) # <<>>
  /\ Stripped(words)[1].w \in Shells \cup ScriptWrappers
  /\ Payload(Tail(Stripped(words))) = <<t>>

\* It is judged by that text.
LEMMA ShellIsItsText ==
  ASSUME NEW segment, NEW t, HandsOver(segment.words, t)
  PROVE  \A x, c : JudgeOuter(segment, x, c) = First(t, x, c) /\ JudgeFirst(segment, x, c) = Second(t, x, c)
<1> SUFFICES ASSUME NEW x, NEW c
             PROVE  JudgeOuter(segment, x, c) = First(t, x, c) /\ JudgeFirst(segment, x, c) = Second(t, x, c)
  OBVIOUS
<1>1. <<t>> # <<>> /\ <<t>>[1] = t
  OBVIOUS
<1>2. /\ Stripped(segment.words) # <<>>
      /\ Stripped(segment.words)[1].w \in Shells \cup ScriptWrappers
      /\ Payload(Tail(Stripped(segment.words))) = <<t>>
  BY DEF HandsOver
<1>3. JudgeOuter(segment, x, c) = First(t, x, c)
  BY <1>1, <1>2 DEF JudgeOuter, Judge, Given
<1>4. JudgeFirst(segment, x, c) = Second(t, x, c)
  BY <1>1, <1>2 DEF JudgeFirst, Judge, Given
<1>. QED
  BY <1>3, <1>4
-----------------------------------------------------------------------------
(***************************************************************************)
(* How deep a text lies makes no difference while all of it is looked into.*)
(***************************************************************************)

LEMMA RestIsSeq ==
  ASSUME NEW S, NEW s \in Seq(S)
  PROVE  /\ \A k \in 1 .. Len(s) : SubSeq(s, k, Len(s)) \in Seq(S)
         /\ s # <<>> => Tail(s) \in Seq(S)
         /\ \A i \in DOMAIN s : s[i] \in S
OBVIOUS

LEMMA SeqHasLength ==
  ASSUME NEW S, NEW s \in Seq(S)
  PROVE  Len(s) \in Nat /\ DOMAIN s = 1 .. Len(s)
OBVIOUS

\* The parts of a text are what they should be.
LEMMA PartsOfText ==
  ASSUME NEW W, NEW t \in TextsOf(W)
  PROVE  \A i \in DOMAIN t.segs : t.segs[i].words \in Seq(W) /\ t.segs[i].bg \in BOOLEAN
<1> DEFINE S == [words : Seq(W), bg : BOOLEAN]
<1>1. t.segs \in Seq(S)
  BY DEF TextsOf
<1>2. \A i \in DOMAIN t.segs : t.segs[i] \in S
  <2> HIDE DEF S
  <2>. QED
    BY <1>1, RestIsSeq
<1>3. \A s \in S : s.words \in Seq(W) /\ s.bg \in BOOLEAN
  OBVIOUS
<1> HIDE DEF S
<1>. QED
  BY <1>2, <1>3

\* A payload is what one of the words quotes, or nothing.
LEMMA PayloadIsQuoted ==
  ASSUME NEW In, <<>> \in In, NEW words \in Seq([w : STRING, in : In]), Stripped(words) # <<>>
  PROVE  Payload(Tail(Stripped(words))) \in In
<1> DEFINE W   == [w : STRING, in : In]
           own == {i \in DOMAIN words : words[i].w \notin Wrappers}
<1>1. own # {} /\ Stripped(words) = SubSeq(words, Min(own), Len(words))
  BY DEF Stripped
<1>2. Min(own) \in own
  <2>1. own \in SUBSET Nat
    OBVIOUS
  <2> HIDE DEF own
  <2>. QED
    BY <1>1, <2>1, MinIsLeast
<1>3. Stripped(words) \in Seq(W)
  <2>1. Min(own) \in 1 .. Len(words)
    BY <1>2
  <2> HIDE DEF own, W
  <2>2. words \in Seq(W)
    BY DEF W
  <2>. QED
    BY <1>1, <2>1, <2>2, RestIsSeq
<1> HIDE DEF own
<1>4. PICK args \in Seq(W) : args = Tail(Stripped(words))
  <2> HIDE DEF W
  <2>1. Tail(Stripped(words)) \in Seq(W)
    BY <1>3, RestIsSeq
  <2>. QED
    BY <2>1
<1> DEFINE behind == {i \in DOMAIN args : i > 1 /\ args[i - 1].w = "-c"}
<1>5. CASE behind = {}
  BY <1>4, <1>5 DEF Payload
<1>6. CASE behind # {}
  <2>1. behind \in SUBSET Nat
    OBVIOUS
  <2>2. Min(behind) \in behind
    <3> HIDE DEF behind
    <3>. QED
      BY <1>6, <2>1, MinIsLeast
  <2>3. Min(behind) \in DOMAIN args
    BY <2>2
  <2>4. args[Min(behind)].in \in In
    <3> HIDE DEF behind
    <3>1. args[Min(behind)] \in W
      <4> HIDE DEF W
      <4>. QED
        BY <2>3, RestIsSeq
    <3>. QED
      BY <3>1
  <2>5. Payload(args) \in {args[Min(behind)].in, <<>>}
    BY <1>6 DEF Payload
  <2>. QED
    BY <1>4, <2>4, <2>5
<1>. QED
  BY <1>5, <1>6

\* A text that quotes nothing is judged alike at every depth.
LEMMA PlainAtAnyDepth ==
  ASSUME NEW t \in PlainTexts, NEW x, NEW b
  PROVE  First(t, x, b) = Second(t, x, b) /\ Second(t, x, b) = Third(t, x, b)
<1>1. ASSUME NEW i \in DOMAIN t.segs, NEW bg
      PROVE  /\ JudgeFirst(t.segs[i], x, bg) = JudgeSecond(t.segs[i], x, bg)
             /\ JudgeSecond(t.segs[i], x, bg) = JudgeThird(t.segs[i], x, bg)
  <2>1. t.segs[i].words \in Seq([w : STRING, in : {<<>>}])
    BY PartsOfText DEF PlainTexts
  <2>2. Stripped(t.segs[i].words) # <<>> => Payload(Tail(Stripped(t.segs[i].words))) = <<>>
    BY <2>1, PayloadIsQuoted
  <2>. QED
    BY <2>2 DEF JudgeFirst, JudgeSecond, JudgeThird, Judge
<1> DEFINE one   == [i \in DOMAIN t.segs |-> JudgeFirst(t.segs[i], x, b \/ t.segs[i].bg)]
           two   == [i \in DOMAIN t.segs |-> JudgeSecond(t.segs[i], x, b \/ t.segs[i].bg)]
           three == [i \in DOMAIN t.segs |-> JudgeThird(t.segs[i], x, b \/ t.segs[i].bg)]
<1>2. one = two /\ two = three
  BY <1>1, Zenon
<1>3. First(t, x, b) = Second(t, x, b)
  BY <1>2, Zenon DEF First, Second, Decide
<1>4. Second(t, x, b) = Third(t, x, b)
  BY <1>2, Zenon DEF Second, Third, Decide
<1>. QED
  BY <1>3, <1>4

\* So is one that quotes such texts, at the depths where these are looked into.
LEMMA ShallowAtAnyDepth ==
  ASSUME NEW t \in ShallowTexts, NEW x, NEW b
  PROVE  Classify(t, TRUE, x, b) = First(t, x, b) /\ First(t, x, b) = Second(t, x, b)
<1>1. ASSUME NEW i \in DOMAIN t.segs, NEW bg
      PROVE  /\ JudgeOuter(t.segs[i], x, bg) = JudgeFirst(t.segs[i], x, bg)
             /\ JudgeFirst(t.segs[i], x, bg) = JudgeSecond(t.segs[i], x, bg)
  <2> DEFINE inner == Payload(Tail(Stripped(t.segs[i].words)))
  <2>1. t.segs[i].words \in Seq([w : STRING, in : Seq(PlainTexts)])
    BY PartsOfText DEF ShallowTexts
  <2>2. ASSUME Stripped(t.segs[i].words) # <<>>
        PROVE  inner \in Seq(PlainTexts)
    <3> DEFINE In    == Seq(PlainTexts)
               words == t.segs[i].words
    <3>1. <<>> \in In /\ words \in Seq([w : STRING, in : In]) /\ Stripped(words) # <<>>
      BY <2>1, <2>2
    <3> HIDE DEF In, words
    <3>2. Payload(Tail(Stripped(words))) \in In
      BY <3>1, PayloadIsQuoted
    <3>. QED
      BY <3>2 DEF In, words
  <2>3. Stripped(t.segs[i].words) # <<>> /\ inner # <<>> => inner[1] \in PlainTexts
    BY <2>2
  <2>4. Stripped(t.segs[i].words) # <<>> /\ inner # <<>> =>
          /\ First(inner[1], x, bg) = Second(inner[1], x, bg)
          /\ Second(inner[1], x, bg) = Third(inner[1], x, bg)
    BY <2>3, PlainAtAnyDepth
  <2> HIDE DEF inner
  <2>. QED
    BY <2>4 DEF JudgeOuter, JudgeFirst, JudgeSecond, Judge, Given, inner
<1> DEFINE zero  == [i \in DOMAIN t.segs |-> JudgeOuter(t.segs[i], x, b \/ t.segs[i].bg)]
           one   == [i \in DOMAIN t.segs |-> JudgeFirst(t.segs[i], x, b \/ t.segs[i].bg)]
           two   == [i \in DOMAIN t.segs |-> JudgeSecond(t.segs[i], x, b \/ t.segs[i].bg)]
<1>2. zero = one /\ one = two
  BY <1>1, Zenon
<1>3. Classify(t, TRUE, x, b) = First(t, x, b)
  BY <1>2, Zenon DEF First, Classify, Decide
<1>4. First(t, x, b) = Second(t, x, b)
  BY <1>2, Zenon DEF First, Second, Decide
<1>. QED
  BY <1>3, <1>4

\* A text whose commands all run behind an & is judged as one that does itself.
LEMMA BackgroundIsPassedOn ==
  ASSUME NEW t \in ShallowTexts
  PROVE  Command(Backgrounded(t)) = First(t, TRUE, TRUE)
<1> DEFINE b == Backgrounded(t)
<1>1. DOMAIN b.segs = DOMAIN t.segs /\ b.rules = t.rules /\ b.open = t.open
  BY DEF ShallowTexts, TextsOf, Backgrounded
<1>2. ASSUME NEW i \in DOMAIN t.segs
      PROVE  b.segs[i].words = t.segs[i].words /\ b.segs[i].bg = TRUE
  BY DEF ShallowTexts, TextsOf, Backgrounded
<1> HIDE DEF b
<1> DEFINE mine == [i \in DOMAIN b.segs |-> JudgeOuter(b.segs[i], TRUE, FALSE \/ b.segs[i].bg)]
           its  == [i \in DOMAIN t.segs |-> JudgeOuter(t.segs[i], TRUE, TRUE \/ t.segs[i].bg)]
<1>3. ASSUME NEW i \in DOMAIN t.segs
      PROVE  JudgeOuter(b.segs[i], TRUE, FALSE \/ b.segs[i].bg) =
             JudgeOuter(t.segs[i], TRUE, TRUE \/ t.segs[i].bg)
  <2>1. (FALSE \/ b.segs[i].bg) = (TRUE \/ t.segs[i].bg)
    BY <1>2
  <2>. QED
    BY <1>2, <2>1, Zenon DEF JudgeOuter, Judge, Given
<1>4. mine = its
  BY <1>1, <1>3, Zenon
<1>5. (\A i \in DOMAIN b.segs : b.segs[i].words = <<>>) <=>
      (\A i \in DOMAIN t.segs : t.segs[i].words = <<>>)
  BY <1>1, <1>2
<1>6. Command(b) = Classify(t, TRUE, TRUE, TRUE)
  BY <1>1, <1>4, <1>5, Zenon DEF Command, Classify, Decide
<1>. QED
  BY <1>6, ShallowAtAnyDepth DEF b
-----------------------------------------------------------------------------
(***************************************************************************)
(* A text in the hands of another shell.                                   *)
(***************************************************************************)

\* Tuples of three and four, and what is left of them.
LEMMA Triple ==
  ASSUME NEW a, NEW b, NEW c
  PROVE  /\ Len(<<a, b, c>>) = 3 /\ DOMAIN <<a, b, c>> = 1 .. 3
         /\ <<a, b, c>>[1] = a /\ <<a, b, c>>[2] = b /\ <<a, b, c>>[3] = c
         /\ SubSeq(<<a, b, c>>, 1, 3) = <<a, b, c>> /\ Tail(<<a, b, c>>) = <<b, c>>
<1>1. SubSeq(<<a, b, c>>, 1, 3) = [i \in 1 .. 3 |-> <<a, b, c>>[i]]
  OBVIOUS
<1>2. <<a, b, c>> = [i \in 1 .. 3 |-> <<a, b, c>>[i]]
  OBVIOUS
<1>3. Tail(<<a, b, c>>) = <<b, c>>
  OBVIOUS
<1>. QED
  BY <1>1, <1>2, <1>3

LEMMA Quadruple ==
  ASSUME NEW a, NEW b, NEW c, NEW d
  PROVE  /\ Len(<<a, b, c, d>>) = 4 /\ DOMAIN <<a, b, c, d>> = 1 .. 4
         /\ <<a, b, c, d>>[1] = a /\ <<a, b, c, d>>[2] = b
         /\ <<a, b, c, d>>[3] = c /\ <<a, b, c, d>>[4] = d
         /\ SubSeq(<<a, b, c, d>>, 1, 4) = <<a, b, c, d>>
         /\ SubSeq(<<a, b, c, d>>, 2, 4) = <<b, c, d>> /\ Tail(<<a, b, c, d>>) = <<b, c, d>>
<1>1. SubSeq(<<a, b, c, d>>, 1, 4) = [i \in 1 .. 4 |-> <<a, b, c, d>>[i]]
  OBVIOUS
<1>2. <<a, b, c, d>> = [i \in 1 .. 4 |-> <<a, b, c, d>>[i]]
  OBVIOUS
<1>3. SubSeq(<<a, b, c, d>>, 2, 4) = [i \in 1 .. 3 |-> <<a, b, c, d>>[i + 1]]
  OBVIOUS
<1>4. <<b, c, d>> = [i \in 1 .. 3 |-> <<a, b, c, d>>[i + 1]]
  OBVIOUS
<1>5. Tail(<<a, b, c, d>>) = <<b, c, d>>
  OBVIOUS
<1>. QED
  BY <1>1, <1>2, <1>3, <1>4, <1>5

\* What is run of a program without a wrapper, and of one behind a wrapper.
LEMMA WholeIsRun ==
  ASSUME NEW p, NEW c, NEW d, p.w \notin Wrappers
  PROVE  Stripped(<<p, c, d>>) = <<p, c, d>>
<1> DEFINE words == <<p, c, d>>
<1>1. words[1] = p /\ DOMAIN words = 1 .. Len(words) /\ Len(words) = 3
  OBVIOUS
<1> HIDE DEF words
<1>2. Stripped(words) = SubSeq(words, 1, Len(words))
  BY <1>1, StripsWrappers
<1>. QED
  BY <1>1, <1>2, Triple DEF words

LEMMA AllFourAreRun ==
  ASSUME NEW p, NEW c, NEW d, NEW e, p.w \notin Wrappers
  PROVE  Stripped(<<p, c, d, e>>) = <<p, c, d, e>>
<1> DEFINE words == <<p, c, d, e>>
<1>1. words[1] = p /\ DOMAIN words = 1 .. Len(words) /\ Len(words) = 4
  OBVIOUS
<1> HIDE DEF words
<1>2. Stripped(words) = SubSeq(words, 1, Len(words))
  BY <1>1, StripsWrappers
<1>. QED
  BY <1>1, <1>2, Quadruple DEF words

LEMMA RestIsRun ==
  ASSUME NEW p, NEW q, NEW c, NEW d, p.w \in Wrappers, q.w \notin Wrappers
  PROVE  Stripped(<<p, q, c, d>>) = <<q, c, d>>
<1> DEFINE words == <<p, q, c, d>>
<1>1. words[1] = p /\ words[2] = q /\ DOMAIN words = 1 .. Len(words) /\ Len(words) = 4
  OBVIOUS
<1> HIDE DEF words
<1>2. /\ 2 \in 1 .. Len(words) /\ words[2].w \notin Wrappers /\ Len(words) \in Nat
      /\ \A i \in 1 .. 2 - 1 : words[i].w \in Wrappers
  BY <1>1
<1>3. Stripped(words) = SubSeq(words, 2, Len(words))
  BY <1>1, <1>2, StripsWrappers
<1>. QED
  BY <1>1, <1>3, Quadruple DEF words

\* What stands behind the -c, at once and after a word.
LEMMA BehindTheFlag ==
  ASSUME NEW o, NEW u, o.w = "-c", u.in # <<Empty>>
  PROVE  Payload(<<o, u>>) = u.in
<1> DEFINE args == <<o, u>>
<1>1. args[1] = o /\ args[2] = u /\ DOMAIN args = 1 .. Len(args) /\ Len(args) = 2
  OBVIOUS
<1> HIDE DEF args
<1>2. Payload(args) = args[2].in
  BY <1>1, PayloadIs
<1>. QED
  BY <1>1, <1>2 DEF args

LEMMA BehindTheNextFlag ==
  ASSUME NEW q, NEW o, NEW u, q.w # "-c", o.w = "-c", u.in # <<Empty>>
  PROVE  Payload(<<q, o, u>>) = u.in
<1> DEFINE args == <<q, o, u>>
<1>1. args[1] = q /\ args[2] = o /\ args[3] = u /\ DOMAIN args = 1 .. Len(args) /\ Len(args) = 3
  OBVIOUS
<1> HIDE DEF args
<1>2. Payload(args) = args[3].in
  BY <1>1, PayloadIs
<1>. QED
  BY <1>1, <1>2 DEF args

\* What each of the wrapped forms runs, and what it is given.
LEMMA WrappersRunTheText ==
  ASSUME NEW t, t # Empty,
         NEW words \in { <<Word("bash"), Word("-c"), Quoted(t)>>,
                         <<Word("sudo"), Word("bash"), Word("-c"), Quoted(t)>>,
                         <<Word("su"), Word("postgres"), Word("-c"), Quoted(t)>>,
                         <<Word("su"), Word("-c"), Quoted(t)>> }
  PROVE  words # <<>> /\ HandsOver(words, t)
<1> DEFINE bash == Word("bash")
           sudo == Word("sudo")
           su   == Word("su")
           name == Word("postgres")
           c    == Word("-c")
           u    == Quoted(t)
<1>1. bash.w = "bash" /\ su.w = "su" /\ c.w = "-c" /\ sudo.w = "sudo" /\ name.w = "postgres" /\ u.in = <<t>>
  BY DEF Word, Quoted
<1>0. u.in # <<Empty>>
  <2> HIDE DEF u
  <2>. QED
    BY <1>1
<1>2. bash.w \notin Wrappers /\ su.w \notin Wrappers /\ sudo.w \in Wrappers
  BY <1>1 DEF Wrappers
<1>3. bash.w # "-c" /\ sudo.w # "-c" /\ name.w # "-c"
  BY <1>1
<1>4. bash.w \in Shells \cup ScriptWrappers /\ su.w \in Shells \cup ScriptWrappers
  BY <1>1 DEF Shells, ScriptWrappers
<1> HIDE DEF bash, sudo, su, name, c, u
<1>5. words \in {<<bash, c, u>>, <<sudo, bash, c, u>>, <<su, name, c, u>>, <<su, c, u>>}
  BY Zenon DEF bash, sudo, su, name, c, u
<1>6. CASE words = <<bash, c, u>>
  <2>1. Stripped(<<bash, c, u>>) = <<bash, c, u>> /\ Payload(<<c, u>>) = u.in
    BY <1>0, <1>1, <1>2, WholeIsRun, RestIsRun, BehindTheFlag
  <2>2. Tail(<<bash, c, u>>) = <<c, u>> /\ <<bash, c, u>>[1] = bash /\ words # <<>>
    BY <1>6, Triple
  <2>. QED
    BY <1>1, <1>4, <1>6, <2>1, <2>2 DEF HandsOver
<1>7. CASE words = <<sudo, bash, c, u>>
  <2>0. Payload(<<c, u>>) = u.in
    BY <1>0, <1>1, BehindTheFlag
  <2>1. Stripped(<<sudo, bash, c, u>>) = <<bash, c, u>> /\ Payload(<<c, u>>) = u.in
    BY <1>2, <2>0, RestIsRun
  <2>2. Tail(<<bash, c, u>>) = <<c, u>> /\ <<bash, c, u>>[1] = bash /\ <<bash, c, u>> # <<>> /\ words # <<>>
    BY <1>7, Triple, Quadruple
  <2>. QED
    BY <1>1, <1>4, <1>7, <2>1, <2>2 DEF HandsOver
<1>8. CASE words = <<su, name, c, u>>
  <2>1. Stripped(<<su, name, c, u>>) = <<su, name, c, u>> /\ Payload(<<name, c, u>>) = u.in
    BY <1>0, <1>1, <1>2, <1>3, AllFourAreRun, BehindTheNextFlag
  <2>2. Tail(<<su, name, c, u>>) = <<name, c, u>> /\ <<su, name, c, u>>[1] = su /\ words # <<>>
    BY <1>8, Quadruple
  <2>. QED
    BY <1>1, <1>4, <1>8, <2>1, <2>2 DEF HandsOver
<1>9. CASE words = <<su, c, u>>
  <2>1. Stripped(<<su, c, u>>) = <<su, c, u>> /\ Payload(<<c, u>>) = u.in
    BY <1>0, <1>1, <1>2, WholeIsRun, BehindTheFlag
  <2>2. Tail(<<su, c, u>>) = <<c, u>> /\ <<su, c, u>>[1] = su /\ words # <<>>
    BY <1>9, Triple
  <2>. QED
    BY <1>1, <1>4, <1>9, <2>1, <2>2 DEF HandsOver
<1>. QED
  BY <1>5, <1>6, <1>7, <1>8, <1>9 DEF u, HandsOver

\* What stands alone and quotes one text at its end matches what that text matches.
LEMMA RulesOfQuoted ==
  ASSUME NEW t, NEW bg
  PROVE  /\ Alone(<<Word("bash"), Word("-c"), Quoted(t)>>, bg).rules = t.rules
         /\ Alone(<<Word("sudo"), Word("bash"), Word("-c"), Quoted(t)>>, bg).rules = t.rules
         /\ Alone(<<Word("su"), Word("postgres"), Word("-c"), Quoted(t)>>, bg).rules = t.rules
         /\ Alone(<<Word("su"), Word("-c"), Quoted(t)>>, bg).rules = t.rules
<1> DEFINE direct == <<Word("bash"), Word("-c"), Quoted(t)>>
           sudo   == <<Word("sudo"), Word("bash"), Word("-c"), Quoted(t)>>
           su     == <<Word("su"), Word("postgres"), Word("-c"), Quoted(t)>>
           brief  == <<Word("su"), Word("-c"), Quoted(t)>>
           quoting(words) == {v \in ToSet(words) : v.in # <<>>}
<1>1. Quoted(t).in # <<>> /\ Quoted(t).in[1] = t /\ \A w : Word(w).in = <<>>
  BY DEF Quoted, Word
<1>2. /\ ToSet(direct) = {Word("bash"), Word("-c"), Quoted(t)}
      /\ ToSet(sudo) = {Word("sudo"), Word("bash"), Word("-c"), Quoted(t)}
      /\ ToSet(su) = {Word("su"), Word("postgres"), Word("-c"), Quoted(t)}
      /\ ToSet(brief) = {Word("su"), Word("-c"), Quoted(t)}
  <2> HIDE DEF Word, Quoted
  <2>. QED
    BY DEF ToSet
<1>3. \A words \in {direct, sudo, su, brief} : quoting(words) = {Quoted(t)}
  <2>1. quoting(direct) = {Quoted(t)} /\ quoting(sudo) = {Quoted(t)}
    BY <1>1, <1>2, Zenon
  <2>2. quoting(su) = {Quoted(t)} /\ quoting(brief) = {Quoted(t)}
    BY <1>1, <1>2, Zenon
  <2> HIDE DEF quoting, direct, sudo, su, brief
  <2>. QED
    BY <2>1, <2>2
<1>4. UNION {w.in[1].rules : w \in {Quoted(t)}} = t.rules
  BY <1>1
<1>5. ASSUME NEW words, quoting(words) = {Quoted(t)}
      PROVE  Alone(words, bg).rules = t.rules
  <2>1. Alone(words, bg).rules = UNION {w.in[1].rules : w \in quoting(words)}
    BY DEF Alone
  <2>. QED
    BY <1>4, <1>5, <2>1, Zenon
<1> HIDE DEF quoting
<1>. QED
  BY <1>3, <1>5

\* The words that hand a text to a shell.
Handed(t) == { <<Word("bash"), Word("-c"), Quoted(t)>>,
               <<Word("sudo"), Word("bash"), Word("-c"), Quoted(t)>>,
               <<Word("su"), Word("postgres"), Word("-c"), Quoted(t)>>,
               <<Word("su"), Word("-c"), Quoted(t)>> }

\* A text that gives a shell another one, whose patterns it has.
IsHandedOn(text, t) == HandsOver(text.segs[1].words, t) /\ text.rules = t.rules

\* It is judged as the other one shell deeper, which runs behind an & as c says.
JudgedAs(text, b, t, c) ==
  \A x : Classify(text, TRUE, x, b) = First(t, x, c) /\ First(text, x, b) = Second(t, x, c)

LEMMA ShellAloneIsItsText ==
  ASSUME NEW text, NEW b, NEW t, NEW c, NEW words,
         StandsAlone(text, words, b, c), IsHandedOn(text, t)
  PROVE  JudgedAs(text, b, t, c)
<1> SUFFICES ASSUME NEW x
             PROVE  Classify(text, TRUE, x, b) = First(t, x, c) /\ First(text, x, b) = Second(t, x, c)
  BY Zenon DEF JudgedAs
<1> DEFINE seg == text.segs[1]
<1>1. JudgeOuter(seg, x, c) = First(t, x, c) /\ JudgeFirst(seg, x, c) = Second(t, x, c)
  BY ShellIsItsText DEF IsHandedOn
<1>2. Classify(text, TRUE, x, b) = RulesOr(text, JudgeOuter(seg, x, c))
  BY AloneIsItsSegment, Zenon
<1>3. First(text, x, b) = RulesOr(text, JudgeFirst(seg, x, c))
  BY AloneIsItsSegment, Zenon
<1>4. First(t, x, c) = RulesOr(t, First(t, x, c)) /\ Second(t, x, c) = RulesOr(t, Second(t, x, c))
  BY Zenon DEF First, Second, Decide, RulesOr
<1>5. \A level : RulesOr(text, level) = RulesOr(t, level)
  BY DEF RulesOr, IsHandedOn
<1>. QED
  BY <1>1, <1>2, <1>3, <1>4, <1>5, Zenon

LEMMA HandedIsItsText ==
  ASSUME NEW text, NEW b, NEW t, NEW c, NEW words,
         t # Empty, StandsAlone(text, words, b, c), words \in Handed(t)
  PROVE  JudgedAs(text, b, t, c)
<1>1. HandsOver(words, t)
  BY WrappersRunTheText, Zenon DEF Handed
<1>2. IsHandedOn(text, t)
  <2>1. PICK bg : text = Alone(words, bg)
    BY DEF StandsAlone
  <2>2. Alone(words, bg).rules = t.rules
    BY RulesOfQuoted DEF Handed
  <2>3. text.segs[1].words = words
    BY <2>1 DEF Alone
  <2>. QED
    BY <1>1, <2>1, <2>2, <2>3 DEF IsHandedOn
<1>. QED
  BY <1>2, ShellAloneIsItsText, Zenon

\* Where the words are not none a text of them alone stands alone.
LEMMA AloneStandsAlone ==
  ASSUME NEW bg \in BOOLEAN, NEW words, words # <<>>
  PROVE  StandsAlone(Alone(words, bg), words, FALSE, bg)
BY DEF StandsAlone

\* In whatever hands a text is, it is judged as it is by itself.
LEMMA WrappedAlike ==
  ASSUME NEW t \in ShallowTexts, t # Empty, NEW bg \in BOOLEAN, NEW w \in Wrapped(t, bg)
  PROVE  Command(w) = First(t, TRUE, bg)
<1>1. CASE \E words \in Handed(t) : w = Alone(words, bg)
  <2>1. PICK words \in Handed(t) : w = Alone(words, bg)
    BY <1>1
  <2>2. words # <<>>
    BY WrappersRunTheText, Zenon DEF Handed
  <2>3. StandsAlone(w, words, FALSE, bg)
    BY <2>1, <2>2, AloneStandsAlone
  <2>4. JudgedAs(w, FALSE, t, bg)
    BY <2>1, <2>3, HandedIsItsText
  <2>. QED
    BY <2>4, Zenon DEF Command, JudgedAs
<1>2. CASE w = Alone(<<Word("su"), Word("-c"),
                       Quoted(Alone(<<Word("bash"), Word("-c"), Quoted(t)>>, FALSE))>>, bg)
  <2> DEFINE direct == <<Word("bash"), Word("-c"), Quoted(t)>>
             inner  == Alone(direct, FALSE)
             outer  == <<Word("su"), Word("-c"), Quoted(inner)>>
  <2>1. direct \in Handed(t) /\ outer \in Handed(inner)
    BY Zenon DEF Handed
  <2>2. direct # <<>> /\ outer # <<>>
    BY Triple
  <2>3. StandsAlone(inner, direct, bg, bg) /\ StandsAlone(w, outer, FALSE, bg)
    <3> HIDE DEF direct, inner
    <3>1. StandsAlone(inner, direct, bg, bg)
      BY <2>2, Zenon DEF StandsAlone, inner
    <3> HIDE DEF outer
    <3>2. w = Alone(outer, bg)
      BY <1>2, Zenon DEF outer, inner, direct
    <3>. QED
      BY <2>2, <3>1, <3>2, AloneStandsAlone
  <2>0. inner # Empty
    <3> HIDE DEF direct
    <3>1. inner.segs[1].words = direct /\ Empty.segs[1].words = <<>>
      BY DEF Alone, Empty
    <3>. QED
      BY <2>2, <3>1
  <2> HIDE DEF direct, inner, outer
  <2>4. JudgedAs(inner, bg, t, bg) /\ JudgedAs(w, FALSE, inner, bg)
    BY <2>0, <2>1, <2>3, HandedIsItsText
  <2>5. Second(t, TRUE, bg) = First(t, TRUE, bg)
    BY ShallowAtAnyDepth
  <2>. QED
    BY <2>4, <2>5, Zenon DEF Command, JudgedAs
<1>3. \/ \E words \in Handed(t) : w = Alone(words, bg)
      \/ w = Alone(<<Word("su"), Word("-c"),
                     Quoted(Alone(<<Word("bash"), Word("-c"), Quoted(t)>>, FALSE))>>, bg)
  BY Zenon DEF Wrapped, Handed
<1>. QED
  BY <1>1, <1>2, <1>3

\* The wrapped forms, against the text by itself and the text behind an &.
LEMMA WrappedIsJudgedTheSame ==
  ASSUME NEW t \in ShallowTexts, t # Empty
  PROVE  /\ \A w \in Wrapped(t, FALSE) : Command(w) = Command(t)
         /\ \A w \in Wrapped(t, TRUE) : Command(w) = Command(Backgrounded(t))
<1>1. Command(t) = First(t, TRUE, FALSE)
  BY ShallowAtAnyDepth DEF Command
<1>2. Command(Backgrounded(t)) = First(t, TRUE, TRUE)
  BY BackgroundIsPassedOn
<1>. QED
  BY <1>1, <1>2, WrappedAlike
-----------------------------------------------------------------------------
(***************************************************************************)
(* The verdicts on the spans of a script, as the equations they solve.     *)
(***************************************************************************)

\* Where a command ends, and a file it writes.
LEMMA WhereACommandEnds ==
  ASSUME NEW body, NEW n \in Nat, NEW end \in Nat, n <= end
  PROVE  LastOf(body, n, end) \in n .. end
<1> DEFINE T == {i \in n .. end : ~ body[i].cont} \cup {end}
<1>1. T \in SUBSET Nat /\ T # {} /\ T \subseteq n .. end
  OBVIOUS
<1> HIDE DEF T
<1>2. Min(T) \in T
  BY <1>1, MinIsLeast
<1>. QED
  BY <1>1, <1>2 DEF LastOf, T

LEMMA WhereAFileEnds ==
  ASSUME NEW body, NEW tag, NEW m \in Nat, NEW end \in Nat, m <= end + 1
  PROVE  /\ StopOf(body, tag, m, end) \in m .. end + 1
         /\ StopOf(body, tag, m, end) > m \/ m = end + 1
<1> DEFINE T == {i \in m + 1 .. end : body[i].ends = tag} \cup {end + 1}
<1>1. T \in SUBSET Nat /\ T # {} /\ T \subseteq m .. end + 1 /\ \A i \in T : i > m \/ m = end + 1
  OBVIOUS
<1> HIDE DEF T
<1>2. Min(T) \in T
  BY <1>1, MinIsLeast
<1>. QED
  BY <1>1, <1>2 DEF StopOf, T

\* A function on an interval that each value of comes from the one before.
Goes(f, a, m, V, base, step) ==
  /\ f \in [a .. m -> V]
  /\ f[a] = base /\ \A i \in a + 1 .. m : f[i] = step[<<i, f[i - 1]>>]

LEMMA StepByStep ==
  ASSUME NEW a \in Nat, NEW m \in Nat, a <= m, NEW V, NEW base \in V, NEW step \in [Nat \X V -> V]
  PROVE  \E f : Goes(f, a, m, V, base, step)
<1> DEFINE Is(k, f) == /\ f \in [a .. a + k -> V]
                       /\ f[a] = base /\ \A i \in a + 1 .. a + k : f[i] = step[<<i, f[i - 1]>>]
           Good(k) == \E f : Is(k, f)
           Bad     == {k \in Nat : ~ Good(k)}
<1>1. Good(0)
  <2> DEFINE f == [i \in a .. a + 0 |-> base]
  <2>1. Is(0, f)
    OBVIOUS
  <2>. QED
    BY <2>1
<1>2. ASSUME NEW k \in Nat, Good(k)
      PROVE  Good(k + 1)
  <2>1. PICK g : Is(k, g)
    BY <1>2
  <2> DEFINE f == [i \in a .. a + (k + 1) |-> IF i = a + k + 1 THEN step[<<a + k + 1, g[a + k]>>] ELSE g[i]]
  <2>2. g[a + k] \in V
    BY <2>1
  <2>3. f \in [a .. a + (k + 1) -> V]
    <3>1. step[<<a + k + 1, g[a + k]>>] \in V
      BY <2>2
    <3>2. \A i \in a .. a + (k + 1) : i # a + k + 1 => g[i] \in V
      BY <2>1
    <3>. QED
      BY <3>1, <3>2
  <2>4. f[a] = base
    BY <2>1
  <2>5. ASSUME NEW i \in a + 1 .. a + (k + 1)
        PROVE  f[i] = step[<<i, f[i - 1]>>]
    <3>1. f[i - 1] = g[i - 1]
      OBVIOUS
    <3>2. CASE i = a + k + 1
      <4>1. i - 1 = a + k
        BY <3>2
      <4>2. f[i] = step[<<a + k + 1, g[a + k]>>]
        BY <3>2
      <4>. QED
        BY <3>1, <3>2, <4>1, <4>2
    <3>3. CASE i # a + k + 1
      <4>1. i \in a + 1 .. a + k /\ f[i] = g[i]
        BY <3>3
      <4>. QED
        BY <2>1, <3>1, <4>1
    <3>. QED
      BY <3>2, <3>3
  <2> HIDE DEF f
  <2>6. Is(k + 1, f)
    BY <2>3, <2>4, <2>5
  <2>. QED
    BY <2>6
<1> HIDE DEF Good
<1>3. Bad = {}
  <2> SUFFICES ASSUME Bad # {}
               PROVE  FALSE
    OBVIOUS
  <2>1. PICK k \in Bad : \A y \in Bad : k <= y
    <3>1. Bad \in SUBSET Nat
      OBVIOUS
    <3> HIDE DEF Bad
    <3>. QED
      BY <3>1, LeastExists
  <2>2. k # 0 /\ k - 1 \in Nat /\ k - 1 \notin Bad
    BY <1>1, <2>1
  <2>3. Good(k - 1 + 1)
    BY <1>2, <2>2
  <2>. QED
    BY <2>1, <2>3
<1>4. Good(m - a)
  BY <1>3
<1>5. PICK f : Is(m - a, f)
  BY <1>4 DEF Good
<1>6. a + (m - a) = m
  OBVIOUS
<1>. QED
  BY <1>5, <1>6 DEF Goes

\* The lines of a script open heredocs and nothing else.
Scripted(body) == \A i \in 1 .. Len(body) : body[i].docs \in Seq(Heredocs)

\* The heredocs of a command grow with each line of it.
LEMMA DocsFollow ==
  ASSUME NEW body, Len(body) \in Nat, Scripted(body), NEW n \in 1 .. Len(body)
  PROVE  /\ \A i \in n .. Len(body) : Docs(body, n)[i] \in Seq(Heredocs)
         /\ Docs(body, n)[n] = body[n].docs
         /\ \A i \in n + 1 .. Len(body) : Docs(body, n)[i] = Docs(body, n)[i - 1] \o body[i].docs
<1> DEFINE L     == Len(body)
           V     == Seq(Heredocs)
           step  == [x \in Nat \X V |-> IF x[1] \in 1 .. L THEN x[2] \o body[x[1]].docs ELSE <<>>]
           Is(f) == f = [i \in n .. L |-> IF i = n THEN body[n].docs ELSE f[i - 1] \o body[i].docs]
<1>1. body[n].docs \in V /\ \A i \in 1 .. L : body[i].docs \in V
  BY DEF Scripted
<1>2. step \in [Nat \X V -> V]
  <2>1. ASSUME NEW x \in Nat \X V
        PROVE  (IF x[1] \in 1 .. L THEN x[2] \o body[x[1]].docs ELSE <<>>) \in V
    <3>1. x[2] \in V
      OBVIOUS
    <3>2. \A s, t \in V : s \o t \in V
      OBVIOUS
    <3>3. <<>> \in V
      OBVIOUS
    <3> HIDE DEF V
    <3>. QED
      BY <1>1, <3>1, <3>2, <3>3
  <2> HIDE DEF V
  <2>. QED
    BY <2>1
<1>3. ASSUME NEW i \in 1 .. L, NEW d \in V
      PROVE  step[<<i, d>>] = d \o body[i].docs
  <2> HIDE DEF V
  <2>1. <<i, d>> \in Nat \X V /\ <<i, d>>[1] = i /\ <<i, d>>[2] = d
    OBVIOUS
  <2>. QED
    BY <2>1
<1> HIDE DEF V, step
<1>4. PICK f : /\ f \in [n .. L -> V]
               /\ f[n] = body[n].docs /\ \A i \in n + 1 .. L : f[i] = step[<<i, f[i - 1]>>]
  <2>1. n \in Nat /\ L \in Nat /\ n <= L /\ body[n].docs \in V
    BY <1>1
  <2>2. \E f : Goes(f, n, L, V, body[n].docs, step)
    BY <1>2, <2>1, StepByStep
  <2>. QED
    BY <2>2 DEF Goes
<1>5. \A i \in n + 1 .. L : f[i] = f[i - 1] \o body[i].docs
  <2> TAKE i \in n + 1 .. L
  <2>1. i - 1 \in n .. L /\ i \in 1 .. L
    OBVIOUS
  <2>2. f[i - 1] \in V
    BY <1>4, <2>1
  <2>. QED
    BY <1>3, <1>4, <2>1, <2>2
<1>6. Is(f)
  <2>0. \A i \in n .. L : i # n => i \in n + 1 .. L
    OBVIOUS
  <2>1. \A i \in n .. L : f[i] = IF i = n THEN body[n].docs ELSE f[i - 1] \o body[i].docs
    BY <1>4, <1>5, <2>0, Zenon
  <2>2. f = [i \in n .. L |-> f[i]]
    BY <1>4
  <2>. QED
    BY <2>1, <2>2
<1> DEFINE d == CHOOSE g : Is(g)
<1>7. Is(d)
  BY <1>6
<1>8. Docs(body, n) = d
  BY DEF Docs
<1> HIDE DEF d
<1>9. d[n] = body[n].docs /\ \A i \in n + 1 .. L : d[i] = d[i - 1] \o body[i].docs
  <2>1. n \in n .. L /\ \A i \in n + 1 .. L : i \in n .. L /\ i # n
    OBVIOUS
  <2>2. \A i \in n .. L : d[i] = IF i = n THEN body[n].docs ELSE d[i - 1] \o body[i].docs
    BY <1>7, Zenon
  <2>. QED
    BY <2>1, <2>2, Zenon
<1> DEFINE Bad == {i \in n .. L : d[i] \notin V}
<1>10. Bad = {}
  <2> SUFFICES ASSUME Bad # {}
               PROVE  FALSE
    OBVIOUS
  <2>1. PICK k \in Bad : \A y \in Bad : k <= y
    <3>1. Bad \in SUBSET Nat
      OBVIOUS
    <3> HIDE DEF Bad
    <3>. QED
      BY <3>1, LeastExists
  <2>2. k # n /\ k \in n + 1 .. L /\ k - 1 \in n .. L /\ k - 1 \notin Bad /\ k \in 1 .. L
    BY <1>1, <1>9, <2>1
  <2>3. d[k - 1] \in V /\ body[k].docs \in V /\ d[k] = d[k - 1] \o body[k].docs
    BY <1>1, <1>9, <2>2
  <2>4. d[k] \in V
    BY <2>3 DEF V
  <2>. QED
    BY <2>1, <2>4
<1>. QED
  BY <1>8, <1>9, <1>10 DEF V

\* Those a command writes to a file are some of them, or none.
LEMMA OpensAreHeredocs ==
  ASSUME NEW body, Len(body) \in Nat, Scripted(body), NEW n \in 1 .. Len(body), NEW m \in n .. Len(body)
  PROVE  Opens(body, n, m) \in Seq(Heredocs)
<1>1. Docs(body, n)[m] \in Seq(Heredocs)
  BY DocsFollow
<1>2. <<>> \in Seq(Heredocs)
  OBVIOUS
<1>. QED
  BY <1>1, <1>2 DEF Opens

\* The files of a command end one below the other, at the end at the latest.
EndInOrder(stop, body, docs, m, end) ==
  /\ stop[0] = m
  /\ \A k \in 0 .. Len(docs) : stop[k] \in m .. end + 1
  /\ \A k \in 1 .. Len(docs) : /\ stop[k] = StopOf(body, docs[k].tag, stop[k - 1], end)
                               /\ stop[k] > stop[k - 1] \/ stop[k - 1] = end + 1
                               /\ stop[k] >= stop[k - 1] /\ stop[k] > m

LEMMA StopsFollow ==
  ASSUME NEW body, NEW docs \in Seq(Heredocs), NEW m \in Nat, NEW end \in Nat, m <= end
  PROVE  EndInOrder(Stops(body, docs, m, end), body, docs, m, end)
<1> DEFINE V      == m .. end + 1
           Stop(k, s) == StopOf(body, docs[k].tag, s, end)
           step   == [x \in Nat \X V |-> Stop(x[1], x[2])]
           Is(f)  == f = [k \in 0 .. Len(docs) |-> IF k = 0 THEN m ELSE Stop(k, f[k - 1])]
<1>0. Len(docs) \in Nat
  OBVIOUS
<1>1. \A k, s : s \in V => Stop(k, s) \in V /\ (Stop(k, s) > s \/ s = end + 1) /\ Stop(k, s) >= s /\ Stop(k, s) > m
  <2> TAKE k, s
  <2> HAVE s \in V
  <2>1. s \in Nat /\ s <= end + 1
    OBVIOUS
  <2>2. Stop(k, s) \in s .. end + 1 /\ (Stop(k, s) > s \/ s = end + 1)
    BY <2>1, WhereAFileEnds
  <2> HIDE DEF Stop
  <2>. QED
    BY <2>2
<1> HIDE DEF Stop
<1>2. step \in [Nat \X V -> V] /\ \A k \in Nat, s \in V : step[<<k, s>>] = Stop(k, s)
  <2> HIDE DEF V
  <2>. QED
    BY <1>1
<1>3. m \in V
  OBVIOUS
<1> HIDE DEF V, step
<1>4. PICK f : /\ f \in [0 .. Len(docs) -> V]
               /\ f[0] = m /\ \A k \in 0 + 1 .. Len(docs) : f[k] = step[<<k, f[k - 1]>>]
  <2>1. 0 \in Nat /\ 0 <= Len(docs)
    BY <1>0
  <2>2. \E f : Goes(f, 0, Len(docs), V, m, step)
    BY <1>0, <1>2, <1>3, <2>1, StepByStep
  <2>. QED
    BY <2>2 DEF Goes
<1>5. \A k \in 1 .. Len(docs) : f[k] = Stop(k, f[k - 1])
  <2> TAKE k \in 1 .. Len(docs)
  <2>1. k - 1 \in 0 .. Len(docs) /\ k \in Nat /\ k \in 0 + 1 .. Len(docs)
    BY <1>0
  <2>2. f[k - 1] \in V
    BY <1>4, <2>1
  <2>. QED
    BY <1>2, <1>4, <2>1, <2>2
<1>6. Is(f)
  <2>1. \A k \in 0 .. Len(docs) : f[k] = IF k = 0 THEN m ELSE Stop(k, f[k - 1])
    BY <1>0, <1>4, <1>5
  <2>2. f = [k \in 0 .. Len(docs) |-> f[k]]
    BY <1>4
  <2>. QED
    BY <2>1, <2>2
<1> DEFINE d == CHOOSE g : Is(g)
<1>7. Is(d)
  BY <1>6
<1>8. Stops(body, docs, m, end) = d
  BY DEF Stops, Stop
<1> HIDE DEF d
<1>9. d[0] = m /\ \A k \in 1 .. Len(docs) : d[k] = Stop(k, d[k - 1])
  BY <1>0, <1>7
<1> DEFINE Bad == {k \in 0 .. Len(docs) : d[k] \notin V}
<1>10. Bad = {}
  <2> SUFFICES ASSUME Bad # {}
               PROVE  FALSE
    OBVIOUS
  <2>1. PICK k \in Bad : \A y \in Bad : k <= y
    <3>1. Bad \in SUBSET Nat
      BY <1>0
    <3> HIDE DEF Bad
    <3>. QED
      BY <3>1, LeastExists
  <2>2. k \in 1 .. Len(docs) /\ k - 1 \in 0 .. Len(docs) /\ k - 1 \notin Bad
    BY <1>0, <1>3, <1>9, <2>1
  <2>3. d[k - 1] \in V /\ d[k] = Stop(k, d[k - 1])
    BY <1>9, <2>2
  <2>. QED
    BY <1>1, <2>1, <2>3
<1>11. \A k \in 1 .. Len(docs) : d[k - 1] \in V
  BY <1>0, <1>10
<1>12. \A k \in 1 .. Len(docs) :
         (d[k] > d[k - 1] \/ d[k - 1] = end + 1) /\ d[k] >= d[k - 1] /\ d[k] > m
  BY <1>1, <1>9, <1>11
<1>. QED
  BY <1>8, <1>9, <1>10, <1>12 DEF V, Stop, EndInOrder

\* The line after a command and the files it writes.
NextOf(body, n, end) ==
  LET last == LastOf(body, n, end)
      docs == Opens(body, n, last)
  IN  Stops(body, docs, last, end)[Len(docs)] + 1

LEMMA NextIsFurther ==
  ASSUME NEW body, Len(body) \in Nat, Scripted(body),
         NEW n \in 1 .. Len(body), NEW end \in 1 .. Len(body), n <= end
  PROVE  NextOf(body, n, end) \in n + 1 .. end + 2
<1> DEFINE last == LastOf(body, n, end)
           docs == Opens(body, n, last)
           stop == Stops(body, docs, last, end)
<1>1. last \in n .. end
  BY WhereACommandEnds
<1> HIDE DEF last
<1>2. docs \in Seq(Heredocs)
  BY <1>1, OpensAreHeredocs
<1> HIDE DEF docs
<1>3. Len(docs) \in 0 .. Len(docs)
  BY <1>2
<1>4. stop[Len(docs)] \in last .. end + 1
  <2>1. last \in Nat /\ end \in Nat /\ last <= end
    BY <1>1
  <2>2. EndInOrder(stop, body, docs, last, end)
    BY <1>2, <2>1, StopsFollow
  <2> HIDE DEF stop
  <2>. QED
    BY <1>3, <2>2 DEF EndInOrder
<1>5. NextOf(body, n, end) = stop[Len(docs)] + 1
  BY DEF NextOf, last, docs
<1> HIDE DEF stop
<1>. QED
  BY <1>1, <1>4, <1>5

\* Spans by how much they hold.
Shorter(s, t) == s.end - s.from < t.end - t.from

\* What is judged of a file comes from the verdict on its lines alone.
LEMMA FileIsOfItsSpan ==
  ASSUME NEW body, NEW from, NEW end, NEW kind, NEW f, NEW g,
         f[Span(from, end, FALSE)] = g[Span(from, end, FALSE)]
  PROVE  FileLevel(body, from, end, kind, f) = FileLevel(body, from, end, kind, g)
BY DEF FileLevel, ScriptLevel

\* What is judged of a span comes from shorter ones alone.
LEMMA WalkIsOfShorter ==
  ASSUME NEW body, Len(body) \in Nat, Scripted(body), NEW span \in Spans(body), NEW f, NEW g,
         \A s \in Spans(body) : Shorter(s, span) => f[s] = g[s]
  PROVE  Walk(body, span, f) = Walk(body, span, g)
<1> DEFINE n    == span.from
           end  == span.end
           last == LastOf(body, n, end)
           docs == Opens(body, n, last)
           stop == Stops(body, docs, last, end)
           next == NextOf(body, n, end)
<1>1. n \in 1 .. Len(body) + 2 /\ end \in 0 .. Len(body) /\ span.executed \in BOOLEAN
  BY DEF Spans
<1>2. span = Span(n, end, span.executed)
  BY DEF Spans, Span
<1>3. \A i \in 1 .. Len(body) + 2, x \in BOOLEAN, e \in 0 .. Len(body) :
         Span(i, e, x) \in Spans(body) /\ Span(i, e, x).from = i /\ Span(i, e, x).end = e
  BY DEF Span, Spans
<1>4. \A i : [span EXCEPT !.from = i] = Span(i, end, span.executed)
  BY <1>2 DEF Span
<1>5. CASE n > end
  BY <1>5 DEF Walk
<1>6. CASE n <= end
  <2>0. n \in 1 .. Len(body) /\ end \in 1 .. Len(body)
    BY <1>1, <1>6
  <2>1. last \in n .. end
    BY <2>0, <1>6, WhereACommandEnds
  <2>3. next \in n + 1 .. end + 2
    BY <2>0, <1>6, NextIsFurther
  <2> HIDE DEF last
  <2>2. docs \in Seq(Heredocs)
    BY <2>0, <2>1, OpensAreHeredocs
  <2> HIDE DEF next, docs
  <2>4. ASSUME NEW i \in n + 1 .. end + 2
        PROVE  f[[span EXCEPT !.from = i]] = g[[span EXCEPT !.from = i]]
    <3> DEFINE s == Span(i, end, span.executed)
    <3>1. s \in Spans(body) /\ s.from = i /\ s.end = end
      BY <1>1, <1>3
    <3>2. Shorter(s, span)
      BY <1>1, <3>1 DEF Shorter
    <3> HIDE DEF s
    <3>3. f[s] = g[s]
      BY <3>1, <3>2
    <3>. QED
      BY <1>4, <3>3 DEF s
  <2>5. ASSUME NEW k \in 1 .. Len(docs)
        PROVE  f[Span(stop[k - 1] + 1, stop[k] - 1, FALSE)] = g[Span(stop[k - 1] + 1, stop[k] - 1, FALSE)]
    <3> DEFINE s == Span(stop[k - 1] + 1, stop[k] - 1, FALSE)
    <3>0. stop[k - 1] \in last .. end + 1 /\ stop[k] \in last + 1 .. end + 1
      <4>1. last \in Nat /\ end \in Nat /\ last <= end
        BY <2>0, <2>1
      <4>2. Len(docs) \in Nat /\ k - 1 \in 0 .. Len(docs) /\ k \in 0 .. Len(docs)
        BY <2>2
      <4>3. /\ \A j \in 0 .. Len(docs) : stop[j] \in last .. end + 1
            /\ \A j \in 1 .. Len(docs) : stop[j] > last
        <5>1. EndInOrder(stop, body, docs, last, end)
          BY <2>2, <4>1, StopsFollow
        <5> HIDE DEF stop
        <5>. QED
          BY <5>1 DEF EndInOrder
      <4> HIDE DEF stop
      <4>. QED
        BY <4>1, <4>2, <4>3
    <3> HIDE DEF stop
    <3>1. stop[k - 1] + 1 \in 1 .. Len(body) + 2 /\ stop[k] - 1 \in 0 .. Len(body)
      <4> HIDE DEF n, end
      <4>. QED
        BY <2>0, <2>1, <3>0
    <3>2. s \in Spans(body) /\ s.from = stop[k - 1] + 1 /\ s.end = stop[k] - 1
      BY <1>3, <3>1
    <3>3. Shorter(s, span)
      <4> HIDE DEF s, n, end
      <4>1. s.end - s.from < end - n
        BY <2>0, <2>1, <3>0, <3>2
      <4>. QED
        BY <4>1 DEF Shorter, n, end
    <3> HIDE DEF s
    <3>4. f[s] = g[s]
      BY <3>2, <3>3
    <3>. QED
      BY <3>4 DEF s
  <2>6. \A k \in 1 .. Len(docs) :
           FileLevel(body, stop[k - 1] + 1, stop[k] - 1, docs[k].kind, f) =
           FileLevel(body, stop[k - 1] + 1, stop[k] - 1, docs[k].kind, g)
    BY <2>5, FileIsOfItsSpan
  <2>7. Found(body, n, last, span, f) = Found(body, n, last, span, g)
    <3>1. DOMAIN docs = 1 .. Len(docs)
      BY <2>2
    <3>2. \A h : Found(body, n, last, span, h) =
            {Classify(Text(body, n, last), FALSE, span.executed, FALSE)} \cup
            {FileLevel(body, stop[k - 1] + 1, stop[k] - 1, docs[k].kind, h) : k \in DOMAIN docs}
      BY Zenon DEF Found, docs
    <3> HIDE DEF stop
    <3>3. {FileLevel(body, stop[k - 1] + 1, stop[k] - 1, docs[k].kind, f) : k \in DOMAIN docs} =
          {FileLevel(body, stop[k - 1] + 1, stop[k] - 1, docs[k].kind, g) : k \in DOMAIN docs}
      BY <2>6, <3>1, Zenon
    <3>. QED
      BY <3>2, <3>3, Zenon
  <2>8. f[[span EXCEPT !.from = n + 1]] = g[[span EXCEPT !.from = n + 1]]
    <3>1. n + 1 \in n + 1 .. end + 2
      <4> HIDE DEF n, end
      <4>. QED
        BY <1>1, <1>6
    <3>. QED
      BY <2>4, <3>1
  <2>9. f[[span EXCEPT !.from = next]] = g[[span EXCEPT !.from = next]]
    BY <2>3, <2>4
  <2>10. \A h : Walk(body, span, h) =
           IF n > end THEN Clean
           ELSE IF body[n].noise THEN h[[span EXCEPT !.from = n + 1]]
           ELSE Kept(Found(body, n, last, span, h), n, h[[span EXCEPT !.from = next]])
    BY Zenon DEF Walk, NextOf, last, docs, next
  <2>. QED
    BY <2>7, <2>8, <2>9, <2>10, Zenon
<1>. QED
  BY <1>1, <1>5, <1>6

\* How much a span holds, as a number that is never negative.
Weight(body, s) == s.end + Len(body) + 2 - s.from

LEMMA WeightIsNat ==
  ASSUME NEW body, Len(body) \in Nat, NEW s \in Spans(body)
  PROVE  Weight(body, s) \in 0 .. 2 * Len(body) + 1
<1>1. s.from \in 1 .. Len(body) + 2 /\ s.end \in 0 .. Len(body)
  BY DEF Spans
<1>. QED
  BY <1>1 DEF Weight

LEMMA ShorterIsLighter ==
  ASSUME NEW body, Len(body) \in Nat, NEW s \in Spans(body), NEW t \in Spans(body)
  PROVE  Shorter(s, t) <=> Weight(body, s) < Weight(body, t)
<1>1. /\ s.from \in 1 .. Len(body) + 2 /\ s.end \in 0 .. Len(body)
      /\ t.from \in 1 .. Len(body) + 2 /\ t.end \in 0 .. Len(body)
  BY DEF Spans
<1>2. \A a, b, c, d \in Int : b - a < d - c <=> b + Len(body) + 2 - a < d + Len(body) + 2 - c
  OBVIOUS
<1>3. s.from \in Int /\ s.end \in Int /\ t.from \in Int /\ t.end \in Int
  BY <1>1
<1>4. s.end - s.from < t.end - t.from <=>
        s.end + Len(body) + 2 - s.from < t.end + Len(body) + 2 - t.from
  BY <1>2, <1>3
<1>. QED
  BY <1>4, Zenon DEF Weight, Shorter

\* A function that solves the equations of all spans lighter than k.
Solves(body, k, f) ==
  /\ f = [s \in Spans(body) |-> f[s]]
  /\ \A s \in Spans(body) : Weight(body, s) < k => f[s] = Walk(body, s, f)

LEMMA OneMoreSolved ==
  ASSUME NEW body, Len(body) \in Nat, Scripted(body), NEW k \in Nat, NEW f, Solves(body, k, f)
  PROVE  \E g : Solves(body, k + 1, g)
<1> DEFINE g == [s \in Spans(body) |-> IF Weight(body, s) < k THEN f[s] ELSE Walk(body, s, f)]
<1>1. \A s \in Spans(body) : g[s] = IF Weight(body, s) < k THEN f[s] ELSE Walk(body, s, f)
  OBVIOUS
<1>2. g = [s \in Spans(body) |-> g[s]]
  OBVIOUS
<1> HIDE DEF g
<1>3. ASSUME NEW s \in Spans(body), Weight(body, s) < k + 1
      PROVE  g[s] = Walk(body, s, g)
  <2>1. ASSUME NEW t \in Spans(body), Shorter(t, s)
        PROVE  f[t] = g[t]
    <3>1. Weight(body, t) < k
      <4>1. Weight(body, t) < Weight(body, s)
        BY <2>1, ShorterIsLighter
      <4>2. Weight(body, t) \in Nat /\ Weight(body, s) \in Nat
        BY WeightIsNat
      <4>. QED
        BY <1>3, <4>1, <4>2
    <3>. QED
      BY <1>1, <3>1
  <2>2. Walk(body, s, f) = Walk(body, s, g)
    BY <2>1, WalkIsOfShorter
  <2>3. g[s] = Walk(body, s, f)
    BY <1>1 DEF Solves
  <2>. QED
    BY <2>2, <2>3
<1>. QED
  BY <1>2, <1>3 DEF Solves

LEMMA AllSolved ==
  ASSUME NEW body, Len(body) \in Nat, Scripted(body)
  PROVE  \E f : f = [s \in Spans(body) |-> Walk(body, s, f)]
<1> DEFINE Good(k) == \E f : Solves(body, k, f)
           Bad     == {k \in Nat : ~ Good(k)}
           most    == 2 * Len(body) + 2
<1>1. Good(0)
  <2> DEFINE f == [s \in Spans(body) |-> Clean]
  <2>1. f = [s \in Spans(body) |-> f[s]]
    OBVIOUS
  <2>2. \A s \in Spans(body) : ~ (Weight(body, s) < 0)
    <3>1. \A s \in Spans(body) : Weight(body, s) \in 0 .. 2 * Len(body) + 1
      BY WeightIsNat
    <3>. QED
      BY <3>1
  <2> HIDE DEF f
  <2>3. Solves(body, 0, f)
    BY <2>1, <2>2 DEF Solves
  <2>. QED
    BY <2>3
<1>2. \A k \in Nat : Good(k) => Good(k + 1)
  BY OneMoreSolved
<1> HIDE DEF Good
<1>3. Bad = {}
  <2> SUFFICES ASSUME Bad # {}
               PROVE  FALSE
    OBVIOUS
  <2>1. PICK k \in Bad : \A y \in Bad : k <= y
    <3>1. Bad \in SUBSET Nat
      OBVIOUS
    <3> HIDE DEF Bad
    <3>. QED
      BY <3>1, LeastExists
  <2>2. k # 0 /\ k - 1 \in Nat /\ k - 1 \notin Bad
    BY <1>1, <2>1
  <2>3. Good(k - 1 + 1)
    BY <1>2, <2>2
  <2>. QED
    BY <2>1, <2>3
<1>4. Good(most)
  BY <1>3
<1>5. PICK f : Solves(body, most, f)
  BY <1>4 DEF Good
<1>6. \A s \in Spans(body) : f[s] = Walk(body, s, f)
  <2>1. \A s \in Spans(body) : Weight(body, s) < most
    <3>1. \A s \in Spans(body) : Weight(body, s) \in 0 .. 2 * Len(body) + 1
      BY WeightIsNat
    <3>. QED
      BY <3>1
  <2>. QED
    BY <1>5, <2>1 DEF Solves
<1>7. f = [s \in Spans(body) |-> f[s]]
  BY <1>5 DEF Solves
<1>8. f = [s \in Spans(body) |-> Walk(body, s, f)]
  BY <1>6, <1>7
<1>. QED
  BY <1>8

\* So the verdicts are what Walk makes of them.
LEMMA VerdictsAreWalked ==
  ASSUME NEW body, Len(body) \in Nat, Scripted(body), NEW s \in Spans(body)
  PROVE  Verdicts(body)[s] = Walk(body, s, Verdicts(body))
<1> DEFINE Are(f) == f = [t \in Spans(body) |-> Walk(body, t, f)]
           v      == CHOOSE f : Are(f)
<1>1. Are(v)
  BY AllSolved
<1>2. Verdicts(body) = v
  BY DEF Verdicts
<1> HIDE DEF v
<1>3. v[s] = Walk(body, s, v)
  BY <1>1
<1>. QED
  BY <1>2, <1>3
-----------------------------------------------------------------------------
(***************************************************************************)
(* What each line of a script is.                                          *)
(***************************************************************************)

\* The roles of the first lines, as far as line m.
AreRoles(body, m, f) ==
  f = [i \in 0 .. m |->
         IF i = 0 THEN Idle ELSE RoleAfter(body, i, f[i - 1])]

LEMMA RolesExist ==
  ASSUME NEW body, Len(body) \in Nat
  PROVE  \E f : AreRoles(body, Len(body), f)
<1> DEFINE Good(m) == \E f : AreRoles(body, m, f)
           Bad     == {m \in Nat : ~ Good(m)}
<1>1. Good(0)
  <2> DEFINE f == [i \in 0 .. 0 |-> Idle]
  <2>1. AreRoles(body, 0, f)
    BY DEF AreRoles
  <2>. QED
    BY <2>1
<1>2. ASSUME NEW m \in Nat, Good(m)
      PROVE  Good(m + 1)
  <2>1. PICK g : AreRoles(body, m, g)
    BY <1>2
  <2> DEFINE f == [i \in 0 .. m + 1 |-> IF i = m + 1 THEN RoleAfter(body, m + 1, g[m]) ELSE g[i]]
  <2>2. ASSUME NEW i \in 0 .. m + 1
        PROVE  f[i] = IF i = 0 THEN Idle ELSE RoleAfter(body, i, f[i - 1])
    <3>1. CASE i = m + 1
      <4>1. f[i] = RoleAfter(body, i, g[m]) /\ f[i - 1] = g[m] /\ i # 0
        BY <3>1
      <4> HIDE DEF f
      <4>. QED
        BY <4>1
    <3>2. CASE i # m + 1
      <4>1. i \in 0 .. m /\ f[i] = g[i] /\ (i # 0 => f[i - 1] = g[i - 1])
        BY <3>2
      <4> HIDE DEF f
      <4>2. g[i] = IF i = 0 THEN Idle ELSE RoleAfter(body, i, g[i - 1])
        BY <2>1, <4>1 DEF AreRoles
      <4>. QED
        BY <4>1, <4>2
    <3>. QED
      BY <3>1, <3>2
  <2>3. f = [i \in 0 .. m + 1 |-> f[i]]
    OBVIOUS
  <2> HIDE DEF f
  <2>4. AreRoles(body, m + 1, f)
    BY <2>2, <2>3 DEF AreRoles
  <2>. QED
    BY <2>4
<1> HIDE DEF Good
<1>3. Bad = {}
  <2> SUFFICES ASSUME Bad # {}
               PROVE  FALSE
    OBVIOUS
  <2>1. PICK k \in Bad : \A y \in Bad : k <= y
    <3>1. Bad \in SUBSET Nat
      OBVIOUS
    <3> HIDE DEF Bad
    <3>. QED
      BY <3>1, LeastExists
  <2>2. k # 0 /\ k - 1 \in Nat /\ k - 1 \notin Bad
    BY <1>1, <2>1
  <2>3. Good(k - 1 + 1)
    BY <1>2, <2>2
  <2>. QED
    BY <2>1, <2>3
<1>4. Good(Len(body))
  BY <1>3
<1>. QED
  BY <1>4 DEF Good

LEMMA RolesFollow ==
  ASSUME NEW body, Len(body) \in Nat
  PROVE  /\ Roles(body)[0] = Idle
         /\ \A i \in 1 .. Len(body) : Roles(body)[i] = RoleAfter(body, i, Roles(body)[i - 1])
<1> DEFINE r == CHOOSE f : AreRoles(body, Len(body), f)
<1>1. AreRoles(body, Len(body), r)
  BY RolesExist
<1>2. Roles(body) = r
  BY DEF Roles, AreRoles
<1> HIDE DEF r
<1>3. r[0] = Idle
  BY <1>1 DEF AreRoles
<1>4. ASSUME NEW i \in 1 .. Len(body)
      PROVE  r[i] = RoleAfter(body, i, r[i - 1])
  BY <1>1 DEF AreRoles
<1>. QED
  BY <1>2, <1>3, <1>4

LEMMA MaxIs ==
  ASSUME NEW T \in SUBSET Nat, NEW x \in T, \A y \in T : y <= x
  PROVE  Max(T) = x
<1>1. \E z \in T : \A y \in T : z >= y
  OBVIOUS
<1>2. Max(T) \in T /\ \A y \in T : Max(T) >= y
  BY <1>1 DEF Max
<1>3. Max(T) \in Nat /\ x \in Nat /\ Max(T) <= x /\ Max(T) >= x
  BY <1>2
<1>. QED
  BY <1>3

\* The lines from n on that all have a role end at the last one that has it.
LEMMA LastAsIs ==
  ASSUME NEW body, Len(body) \in Nat, NEW is, NEW n \in 0 .. Len(body), NEW m \in n .. Len(body),
         \A i \in n + 1 .. m : Roles(body)[i].is = is,
         m < Len(body) => Roles(body)[m + 1].is # is
  PROVE  LastAs(is, body, n) = m
<1> DEFINE T == {k \in n .. Len(body) : \A i \in n + 1 .. k : Roles(body)[i].is = is}
<1>1. T \in SUBSET Nat /\ m \in T
  OBVIOUS
<1>2. ASSUME NEW k \in T
      PROVE  k <= m
  <2> SUFFICES ASSUME k > m
               PROVE  FALSE
    OBVIOUS
  <2>1. k \in Nat /\ k <= Len(body) /\ m + 1 \in n + 1 .. k
    OBVIOUS
  <2>2. Roles(body)[m + 1].is = is
    BY <2>1
  <2>. QED
    BY <2>1, <2>2
<1> HIDE DEF T
<1>3. Max(T) = m
  BY <1>1, <1>2, MaxIs
<1>. QED
  BY <1>3 DEF LastAs, T

\* A command goes on while its lines are continued, and a file until its end.
LEMMA LinesOfACommand ==
  ASSUME NEW body, NEW n \in Nat, NEW end \in Nat, n <= end
  PROVE  LET last == LastOf(body, n, end)
         IN  /\ \A i \in n .. last - 1 : body[i].cont
             /\ last < end => ~ body[last].cont
<1> DEFINE T    == {i \in n .. end : ~ body[i].cont} \cup {end}
           last == Min(T)
<1>1. T \in SUBSET Nat /\ T # {}
  OBVIOUS
<1>2. last \in T /\ \A y \in T : last <= y
  <2> HIDE DEF T
  <2>. QED
    BY <1>1, MinIsLeast
<1>3. LastOf(body, n, end) = last
  BY DEF LastOf
<1> HIDE DEF last
<1>4. ASSUME NEW i \in n .. last - 1
      PROVE  body[i].cont
  <2>1. i \in n .. end /\ ~ (last <= i)
    BY <1>1, <1>2
  <2>. QED
    BY <1>2, <2>1
<1>5. last < end => ~ body[last].cont
  BY <1>1, <1>2
<1>. QED
  BY <1>3, <1>4, <1>5

LEMMA LinesOfAFile ==
  ASSUME NEW body, NEW tag, NEW m \in Nat, NEW end \in Nat, m <= end
  PROVE  LET stop == StopOf(body, tag, m, end)
         IN  /\ \A i \in m + 1 .. stop - 1 : body[i].ends # tag
             /\ stop <= end => body[stop].ends = tag
<1> DEFINE T    == {i \in m + 1 .. end : body[i].ends = tag} \cup {end + 1}
           stop == Min(T)
<1>1. T \in SUBSET Nat /\ T # {}
  OBVIOUS
<1>2. stop \in T /\ \A y \in T : stop <= y
  <2> HIDE DEF T
  <2>. QED
    BY <1>1, MinIsLeast
<1>3. StopOf(body, tag, m, end) = stop
  BY DEF StopOf
<1> HIDE DEF stop
<1>4. ASSUME NEW i \in m + 1 .. stop - 1
      PROVE  body[i].ends # tag
  <2>1. i \in m + 1 .. end /\ ~ (stop <= i)
    BY <1>1, <1>2
  <2>. QED
    BY <1>2, <2>1
<1>5. stop <= end => body[stop].ends = tag
  BY <1>1, <1>2
<1>. QED
  BY <1>3, <1>4, <1>5

\* What line i of a command that starts at line n has for a role.
IsOfCommand(body, n, i) ==
  LET role == Roles(body)[i]
  IN  /\ role.is = IF i = n THEN "start" ELSE "joined"
      /\ role.docs = Docs(body, n)[i] /\ role.ended = 0
      /\ role.file <=> \E j \in n .. i : body[j].file

\* Along a command every line but the first is joined, and each adds its heredocs.
LEMMA RolesOfACommand ==
  ASSUME NEW body, Len(body) \in Nat, Scripted(body),
         NEW n \in 1 .. Len(body), Roles(body)[n].is = "start"
  PROVE  \A i \in n .. LastOf(body, n, Len(body)) : IsOfCommand(body, n, i)
<1> DEFINE R       == Roles(body)
           last    == LastOf(body, n, Len(body))
           Good(i) == IsOfCommand(body, n, i)
           Bad     == {i \in n .. last : ~ Good(i)}
<1>1. last \in n .. Len(body) /\ n \in Nat
  BY WhereACommandEnds
<1>2. \A i \in n .. last - 1 : body[i].cont
  BY LinesOfACommand
<1>3. \A i \in 1 .. Len(body) : R[i] = RoleAfter(body, i, R[i - 1])
  BY RolesFollow
<1>0. /\ Docs(body, n)[n] = body[n].docs
      /\ \A i \in n + 1 .. Len(body) : Docs(body, n)[i] = Docs(body, n)[i - 1] \o body[i].docs
  BY DocsFollow
<1> HIDE DEF last
<1>4. Good(n)
  <2>1. R[n] = RoleAfter(body, n, R[n - 1])
    BY <1>3
  <2>2. R[n].is = "start"
    OBVIOUS
  <2> HIDE DEF R
  <2>3. R[n] = Role("start", body[n].docs, body[n].file, 0)
    BY <2>1, <2>2 DEF RoleAfter, Role, Idle
  <2>4. n .. n = {n}
    OBVIOUS
  <2>5. R[n].docs = body[n].docs /\ R[n].file = body[n].file /\ R[n].ended = 0
    BY <2>3 DEF Role
  <2>6. (\E j \in n .. n : body[j].file) <=> body[n].file
    BY <2>4, Zenon
  <2>. QED
    BY <1>0, <2>2, <2>5, <2>6, Zenon DEF IsOfCommand, R
<1>5. ASSUME NEW i \in n .. last - 1, Good(i)
      PROVE  Good(i + 1)
  <2>1. i + 1 \in n + 1 .. Len(body) /\ i + 1 \in 1 .. Len(body) /\ i + 1 - 1 = i /\ i + 1 # n
    BY <1>1
  <2>2. R[i + 1] = RoleAfter(body, i + 1, R[i])
    BY <1>3, <2>1
  <2>3. body[i].cont
    BY <1>2
  <2>4. Docs(body, n)[i + 1] = Docs(body, n)[i] \o body[i + 1].docs
    <3> DEFINE D          == Docs(body, n)
               Plus(d, j) == d \o body[j].docs
    <3>1. \A j \in n + 1 .. Len(body) : D[j] = Plus(D[j - 1], j)
      BY <1>0
    <3> HIDE DEF D, Plus
    <3>2. D[i + 1] = Plus(D[i], i + 1)
      BY <2>1, <3>1
    <3>. QED
      BY <3>2 DEF D, Plus
  <2>5. /\ R[i].is \in {"start", "joined"} /\ R[i].docs = Docs(body, n)[i]
        /\ R[i].file <=> \E j \in n .. i : body[j].file
    BY <1>5 DEF IsOfCommand
  <2> HIDE DEF R
  <2>6. R[i + 1] = Role("joined", R[i].docs \o body[i + 1].docs, R[i].file \/ body[i + 1].file, 0)
    BY <2>1, <2>2, <2>3, <2>5 DEF RoleAfter
  <2>7. /\ R[i + 1].is = "joined" /\ R[i + 1].docs = R[i].docs \o body[i + 1].docs
        /\ R[i + 1].file = (R[i].file \/ body[i + 1].file) /\ R[i + 1].ended = 0
    <3> DEFINE d == R[i].docs \o body[i + 1].docs
               f == R[i].file \/ body[i + 1].file
    <3>1. R[i + 1] = Role("joined", d, f, 0)
      BY <2>6
    <3> HIDE DEF d, f
    <3>2. R[i + 1].is = "joined" /\ R[i + 1].docs = d /\ R[i + 1].file = f /\ R[i + 1].ended = 0
      BY <3>1 DEF Role
    <3>. QED
      BY <3>2 DEF d, f
  <2>8. n .. i + 1 = (n .. i) \cup {i + 1}
    BY <1>1
  <2>9. (\E j \in n .. i + 1 : body[j].file) <=> (\E j \in n .. i : body[j].file) \/ body[i + 1].file
    BY <2>8, Zenon
  <2>10. R[i + 1].file <=> \E j \in n .. i + 1 : body[j].file
    BY <2>5, <2>7, <2>9, Zenon
  <2>11. R[i + 1].docs = Docs(body, n)[i + 1]
    BY <2>4, <2>5, <2>7, Zenon
  <2>. QED
    BY <2>1, <2>7, <2>10, <2>11, Zenon DEF IsOfCommand, R
<1> HIDE DEF Good
<1>6. Bad = {}
  <2> SUFFICES ASSUME Bad # {}
               PROVE  FALSE
    OBVIOUS
  <2>1. PICK k \in Bad : \A y \in Bad : k <= y
    <3>1. Bad \in SUBSET Nat
      BY <1>1
    <3> HIDE DEF Bad
    <3>. QED
      BY <3>1, LeastExists
  <2>2. k - 1 \in n .. last - 1 /\ k - 1 \notin Bad
    BY <1>1, <1>4, <2>1
  <2>3. Good(k - 1)
    BY <1>1, <2>2
  <2>4. Good(k - 1 + 1)
    BY <1>5, <2>2, <2>3
  <2>5. k - 1 + 1 = k
    BY <1>1, <2>1
  <2>. QED
    BY <2>1, <2>4, <2>5
<1>7. \A i \in n .. last : Good(i)
  BY <1>6
<1>. QED
  BY <1>7 DEF Good, last

\* Below line s, where a file is awaited and no command goes on.
AwaitsAt(body, s) ==
  /\ s \in 1 .. Len(body) /\ Pending(Roles(body)[s])
  /\ Roles(body)[s].is \in {"start", "joined"} /\ s < Len(body) => ~ body[s].cont

\* Along a file every line is of its body, until the one that ends it.
LEMMA RolesOfAFile ==
  ASSUME NEW body, Len(body) \in Nat, NEW s, AwaitsAt(body, s)
  PROVE  LET role == Roles(body)[s]
             stop == StopOf(body, Awaited(role).tag, s, Len(body))
         IN  /\ \A i \in s + 1 .. stop - 1 :
                  Roles(body)[i] = Role("body", role.docs, role.file, role.ended)
             /\ stop <= Len(body) =>
                  Roles(body)[stop] = Role("end", role.docs, role.file, role.ended + 1)
<1> DEFINE R       == Roles(body)
           d       == R[s].docs
           f       == R[s].file
           e       == R[s].ended
           tag     == Awaited(R[s]).tag
           stop    == StopOf(body, tag, s, Len(body))
           Good(i) == R[i] = Role("body", d, f, e)
           Bad     == {i \in s + 1 .. stop - 1 : ~ Good(i)}
<1>0. s \in 1 .. Len(body) /\ s \in Nat /\ s <= Len(body)
  BY DEF AwaitsAt
<1>1. stop \in s + 1 .. Len(body) + 1
  BY <1>0, WhereAFileEnds
<1>2. /\ \A i \in s + 1 .. stop - 1 : body[i].ends # tag
      /\ stop <= Len(body) => body[stop].ends = tag
  BY <1>0, LinesOfAFile
<1>3. \A i \in 1 .. Len(body) : R[i] = RoleAfter(body, i, R[i - 1])
  BY RolesFollow
<1>4. /\ R[s].is \in {"start", "joined"} /\ s < Len(body) => ~ body[s].cont
      /\ Pending(R[s]) /\ tag = d[e + 1].tag /\ f /\ e < Len(d)
  BY DEF AwaitsAt, Pending, Awaited
<1> HIDE DEF stop, tag, R
<1>5. ASSUME NEW i \in s + 1 .. Len(body), i = s + 1 \/ Good(i - 1)
      PROVE  R[i] = IF body[i].ends = tag THEN Role("end", d, f, e + 1) ELSE Role("body", d, f, e)
  <2>1. R[i] = RoleAfter(body, i, R[i - 1])
    BY <1>0, <1>3
  <2>2. CASE i = s + 1
    <3>1. i - 1 = s /\ s < Len(body)
      BY <1>0, <1>5, <2>2
    <3>2. R[i] = RoleAfter(body, i, R[s])
      BY <2>1, <3>1
    <3>3. ~ (R[s].is \in {"start", "joined"} /\ body[i - 1].cont)
      BY <1>4, <3>1
    <3>. QED
      BY <1>4, <3>2, <3>3, Zenon DEF RoleAfter, Awaited
  <2>3. CASE Good(i - 1)
    <3> DEFINE b == Role("body", d, f, e)
    <3>1. b.is = "body" /\ b.docs = d /\ b.file = f /\ b.ended = e
      BY DEF Role
    <3>2. b.is \notin {"start", "joined"}
      BY <3>1
    <3>3. R[i] = RoleAfter(body, i, b)
      BY <2>1, <2>3
    <3> HIDE DEF b
    <3>4. Pending(b) /\ Awaited(b).tag = tag
      BY <1>4, <3>1 DEF Pending, Awaited
    <3>. QED
      BY <3>1, <3>2, <3>3, <3>4, Zenon DEF RoleAfter
  <2>. QED
    BY <1>5, <2>2, <2>3
<1>6. ASSUME NEW i \in s + 1 .. stop - 1, i = s + 1 \/ Good(i - 1)
      PROVE  Good(i)
  <2>1. i \in s + 1 .. Len(body) /\ body[i].ends # tag
    BY <1>0, <1>1, <1>2
  <2>. QED
    BY <1>5, <1>6, <2>1
<1> HIDE DEF Good
<1>7. Bad = {}
  <2> SUFFICES ASSUME Bad # {}
               PROVE  FALSE
    OBVIOUS
  <2>1. PICK k \in Bad : \A y \in Bad : k <= y
    <3>1. Bad \in SUBSET Nat
      BY <1>0
    <3> HIDE DEF Bad
    <3>. QED
      BY <3>1, LeastExists
  <2>2. k = s + 1 \/ (k - 1 \in s + 1 .. stop - 1 /\ k - 1 \notin Bad)
    BY <1>0, <1>1, <2>1
  <2>3. k = s + 1 \/ Good(k - 1)
    BY <2>2
  <2>4. Good(k)
    BY <1>6, <2>1, <2>3
  <2>. QED
    BY <2>1, <2>4
<1>8. \A i \in s + 1 .. stop - 1 : Good(i)
  BY <1>7
<1>9. ASSUME stop <= Len(body)
      PROVE  R[stop] = Role("end", d, f, e + 1)
  <2>1. stop = s + 1 \/ Good(stop - 1)
    BY <1>0, <1>1, <1>8
  <2>2. stop \in s + 1 .. Len(body) /\ body[stop].ends = tag
    BY <1>0, <1>1, <1>2, <1>9
  <2>. QED
    BY <1>5, <2>1, <2>2
<1>. QED
  BY <1>8, <1>9 DEF Good, R, tag, stop
\* The command that ends on line last writes these to files.
CommandEnds(body, last, docs) ==
  LET role == Roles(body)[last]
  IN  /\ last \in 1 .. Len(body) /\ docs \in Seq(Heredocs)
      /\ role.is \in {"start", "joined"} /\ last < Len(body) => ~ body[last].cont
      /\ role.ended = 0
      /\ IF role.file THEN role.docs = docs ELSE docs = <<>>

\* On line s so many of its files have ended.
EndsWith(body, docs, s, k) ==
  LET role == Roles(body)[s]
  IN  /\ role.ended = k
      /\ docs # <<>> => role.docs = docs /\ role.file
      /\ docs = <<>> => ~ Pending(role)
      /\ role.is \in {"start", "joined"} /\ s < Len(body) => ~ body[s].cont
      /\ k > 0 => role.is = "end"

LEMMA NextFile ==
  ASSUME NEW body, Len(body) \in Nat, NEW docs \in Seq(Heredocs), NEW s \in 1 .. Len(body),
         NEW k \in 0 .. Len(docs), EndsWith(body, docs, s, k)
  PROVE  /\ Pending(Roles(body)[s]) <=> k < Len(docs)
         /\ k < Len(docs) => AwaitsAt(body, s) /\ Awaited(Roles(body)[s]) = docs[k + 1]
         /\ k = Len(docs) /\ s < Len(body) => Roles(body)[s + 1].is \in {"nothing", "start"}
<1> DEFINE role == Roles(body)[s]
<1>0. Len(docs) \in Nat /\ (docs = <<>> <=> Len(docs) = 0) /\ k \in Nat /\ k <= Len(docs)
  OBVIOUS
<1>1. /\ role.ended = k
      /\ docs # <<>> => role.docs = docs /\ role.file
      /\ docs = <<>> => ~ Pending(role)
      /\ role.is \in {"start", "joined"} /\ s < Len(body) => ~ body[s].cont
  BY DEF EndsWith
<1>2. s < Len(body) => Roles(body)[s + 1] = RoleAfter(body, s + 1, role)
  <2>1. s < Len(body) => s + 1 \in 1 .. Len(body) /\ s + 1 - 1 = s
    OBVIOUS
  <2>. QED
    BY <2>1, RolesFollow
<1> HIDE DEF role
<1>3. Pending(role) <=> k < Len(docs)
  <2>1. CASE docs = <<>>
    BY <1>0, <1>1, <2>1
  <2>2. CASE docs # <<>>
    BY <1>0, <1>1, <2>2 DEF Pending
  <2>. QED
    BY <2>1, <2>2
<1>4. k < Len(docs) => AwaitsAt(body, s) /\ Awaited(role) = docs[k + 1]
  <2> SUFFICES ASSUME k < Len(docs)
               PROVE  AwaitsAt(body, s) /\ Awaited(role) = docs[k + 1]
    OBVIOUS
  <2>1. docs # <<>> /\ Pending(role)
    BY <1>0, <1>3
  <2>2. Awaited(role) = docs[k + 1]
    BY <1>1, <2>1 DEF Awaited
  <2>3. AwaitsAt(body, s)
    BY <1>1, <2>1 DEF AwaitsAt, role
  <2>. QED
    BY <2>2, <2>3
<1>5. ASSUME k = Len(docs), s < Len(body)
      PROVE  Roles(body)[s + 1].is \in {"nothing", "start"}
  <2>1. ~ Pending(role)
    BY <1>0, <1>3, <1>5
  <2>2. s + 1 - 1 = s
    OBVIOUS
  <2>3. ~ (role.is \in {"start", "joined"} /\ body[s + 1 - 1].cont)
    BY <1>1, <1>5, <2>2
  <2>4. RoleAfter(body, s + 1, role) =
          IF body[s + 1].noise THEN Idle ELSE Role("start", body[s + 1].docs, body[s + 1].file, 0)
    BY <2>1, <2>3 DEF RoleAfter
  <2>. QED
    BY <1>2, <1>5, <2>4 DEF Idle, Role
<1>. QED
  BY <1>3, <1>4, <1>5 DEF role

\* Each file goes from where the one before ends to where it ends itself.
LEMMA FilesOfACommand ==
  ASSUME NEW body, Len(body) \in Nat, NEW last, NEW docs, CommandEnds(body, last, docs)
  PROVE  LET stop == Stops(body, docs, last, Len(body))
         IN  /\ \A k \in 0 .. Len(docs) : stop[k] <= Len(body) => EndsWith(body, docs, stop[k], k)
             /\ \A k \in 1 .. Len(docs) : stop[k - 1] <= Len(body) =>
                  \A i \in stop[k - 1] + 1 .. stop[k] - 1 : Roles(body)[i].is = "body"
<1> DEFINE L       == Len(body)
           R       == Roles(body)
           stop    == Stops(body, docs, last, L)
           Good(k) == stop[k] <= L => EndsWith(body, docs, stop[k], k)
           Bad     == {k \in 0 .. Len(docs) : ~ Good(k)}
<1>0. last \in 1 .. L /\ docs \in Seq(Heredocs) /\ Len(docs) \in Nat
  BY DEF CommandEnds
<1>1. /\ stop[0] = last
      /\ \A k \in 0 .. Len(docs) : stop[k] \in last .. L + 1
      /\ \A k \in 1 .. Len(docs) : /\ stop[k] = StopOf(body, docs[k].tag, stop[k - 1], L)
                                   /\ stop[k] > stop[k - 1] \/ stop[k - 1] = L + 1
                                   /\ stop[k] >= stop[k - 1]
  <2>1. last \in Nat /\ L \in Nat /\ last <= L
    BY <1>0
  <2>2. EndInOrder(stop, body, docs, last, L)
    BY <1>0, <2>1, StopsFollow
  <2> HIDE DEF stop
  <2>. QED
    BY <2>2 DEF EndInOrder
<1> HIDE DEF stop
<1>2. Good(0)
  <2>1. EndsWith(body, docs, last, 0)
    <3> DEFINE role == R[last]
    <3>1. /\ role.is \in {"start", "joined"} /\ last < L => ~ body[last].cont
          /\ role.ended = 0 /\ IF role.file THEN role.docs = docs ELSE docs = <<>>
      BY DEF CommandEnds
    <3>2. docs = <<>> => ~ Pending(role)
      <4> HIDE DEF role
      <4>. QED
        BY <3>1 DEF Pending
    <3>. QED
      BY <3>1, <3>2 DEF EndsWith
  <2>. QED
    BY <1>1, <2>1
<1>3. ASSUME NEW k \in 1 .. Len(docs), Good(k - 1), stop[k - 1] <= L
      PROVE  /\ \A i \in stop[k - 1] + 1 .. stop[k] - 1 : R[i].is = "body"
             /\ Good(k)
  <2> DEFINE s == stop[k - 1]
  <2>1. k - 1 \in 0 .. Len(docs) /\ k - 1 < Len(docs) /\ k - 1 + 1 = k /\ s \in 1 .. L
    BY <1>0, <1>1, <1>3
  <2>2. EndsWith(body, docs, s, k - 1)
    BY <1>3
  <2> HIDE DEF s, R, Good
  <2>3. AwaitsAt(body, s) /\ Awaited(R[s]) = docs[k]
    BY <1>0, <2>1, <2>2, NextFile DEF R
  <2>4. stop[k] = StopOf(body, Awaited(R[s]).tag, s, L)
    BY <1>1, <2>3 DEF s
  <2>5. /\ \A i \in s + 1 .. stop[k] - 1 : R[i] = Role("body", R[s].docs, R[s].file, R[s].ended)
        /\ stop[k] <= L => R[stop[k]] = Role("end", R[s].docs, R[s].file, R[s].ended + 1)
    BY <2>3, <2>4, RolesOfAFile DEF R
  <2>6. \A i \in s + 1 .. stop[k] - 1 : R[i].is = "body"
    BY <2>5 DEF Role
  <2>7. stop[k] <= L => EndsWith(body, docs, stop[k], k)
    <3> SUFFICES ASSUME stop[k] <= L
                 PROVE  EndsWith(body, docs, stop[k], k)
      OBVIOUS
    <3>1. docs # <<>>
      BY <2>1
    <3>2. R[s].ended = k - 1 /\ R[s].docs = docs /\ R[s].file
      BY <2>2, <3>1 DEF EndsWith, R
    <3> DEFINE f == R[s].file
    <3>3. f
      BY <3>2
    <3>4. R[stop[k]] = Role("end", docs, f, k)
      BY <2>1, <2>5, <3>2
    <3> HIDE DEF f
    <3>5. R[stop[k]].is = "end" /\ R[stop[k]].docs = docs /\ R[stop[k]].file = f /\ R[stop[k]].ended = k
      BY <3>4 DEF Role
    <3>. QED
      BY <3>1, <3>3, <3>5 DEF EndsWith, R
  <2>. QED
    BY <2>6, <2>7 DEF Good, s
<1>4. ASSUME NEW k \in 1 .. Len(docs), Good(k - 1)
      PROVE  Good(k)
  <2>1. k \in 0 .. Len(docs) /\ k - 1 \in 0 .. Len(docs)
    BY <1>0
  <2>2. stop[k] <= L => stop[k - 1] <= L
    BY <1>0, <1>1, <2>1
  <2>3. stop[k - 1] <= L => Good(k)
    BY <1>3, <1>4
  <2>. QED
    BY <2>2, <2>3
<1> HIDE DEF Good
<1>5. Bad = {}
  <2> SUFFICES ASSUME Bad # {}
               PROVE  FALSE
    OBVIOUS
  <2>1. PICK k \in Bad : \A y \in Bad : k <= y
    <3>1. Bad \in SUBSET Nat
      BY <1>0
    <3> HIDE DEF Bad
    <3>. QED
      BY <3>1, LeastExists
  <2>2. k \in 1 .. Len(docs) /\ k - 1 \in 0 .. Len(docs) /\ k - 1 \notin Bad
    BY <1>0, <1>2, <2>1
  <2>3. Good(k - 1)
    BY <2>2
  <2>. QED
    BY <1>4, <2>1, <2>2, <2>3
<1>6. \A k \in 0 .. Len(docs) : Good(k)
  BY <1>5
<1>7. \A k \in 1 .. Len(docs) : Good(k - 1)
  <2>1. \A k \in 1 .. Len(docs) : k - 1 \in 0 .. Len(docs)
    BY <1>0
  <2>. QED
    BY <1>6, <2>1
<1>8. \A k \in 1 .. Len(docs) : stop[k - 1] <= L =>
        \A i \in stop[k - 1] + 1 .. stop[k] - 1 : R[i].is = "body"
  BY <1>3, <1>7
<1>. QED
  BY <1>6, <1>8 DEF Good, stop, R, L

\* All of its lines are of the files of the command.
LEMMA LinesOfTheFiles ==
  ASSUME NEW body, Len(body) \in Nat, NEW last, NEW docs, CommandEnds(body, last, docs),
         NEW k \in 0 .. Len(docs)
  PROVE  \A i \in last + 1 .. Stops(body, docs, last, Len(body))[k] :
           i <= Len(body) => Roles(body)[i].is \in {"body", "end"}
<1> DEFINE L       == Len(body)
           R       == Roles(body)
           stop    == Stops(body, docs, last, L)
           Good(j) == \A i \in last + 1 .. stop[j] : i <= L => R[i].is \in {"body", "end"}
           Bad     == {j \in 0 .. Len(docs) : ~ Good(j)}
<1>0. last \in 1 .. L /\ docs \in Seq(Heredocs) /\ Len(docs) \in Nat
  BY DEF CommandEnds
<1>1. /\ stop[0] = last
      /\ \A j \in 0 .. Len(docs) : stop[j] \in last .. L + 1
      /\ \A j \in 1 .. Len(docs) : /\ stop[j] > stop[j - 1] \/ stop[j - 1] = L + 1
                                   /\ stop[j] >= stop[j - 1]
  <2>1. last \in Nat /\ L \in Nat /\ last <= L
    BY <1>0
  <2>2. EndInOrder(stop, body, docs, last, L)
    BY <1>0, <2>1, StopsFollow
  <2> HIDE DEF stop
  <2>. QED
    BY <2>2 DEF EndInOrder
<1>2. /\ \A j \in 0 .. Len(docs) : stop[j] <= L => EndsWith(body, docs, stop[j], j)
      /\ \A j \in 1 .. Len(docs) : stop[j - 1] <= L =>
           \A i \in stop[j - 1] + 1 .. stop[j] - 1 : R[i].is = "body"
  BY FilesOfACommand
<1> HIDE DEF stop
<1>3. Good(0)
  BY <1>0, <1>1
<1>4. ASSUME NEW j \in 1 .. Len(docs), Good(j - 1)
      PROVE  Good(j)
  <2> SUFFICES ASSUME NEW i \in last + 1 .. stop[j], i <= L
               PROVE  R[i].is \in {"body", "end"}
    OBVIOUS
  <2>1. /\ j \in 0 .. Len(docs) /\ j - 1 \in 0 .. Len(docs) /\ j > 0
        /\ stop[j] \in last .. L + 1 /\ stop[j - 1] \in last .. L + 1
    BY <1>0, <1>1
  <2>2. CASE i <= stop[j - 1]
    <3>1. i \in last + 1 .. stop[j - 1]
      BY <2>1, <2>2
    <3>. QED
      BY <1>4, <3>1
  <2>3. CASE stop[j - 1] < i /\ i < stop[j]
    <3>1. stop[j - 1] <= L /\ i \in stop[j - 1] + 1 .. stop[j] - 1
      BY <1>0, <2>1, <2>3
    <3>. QED
      BY <1>2, <3>1
  <2>4. CASE i = stop[j]
    <3>1. EndsWith(body, docs, stop[j], j)
      BY <1>2, <2>1, <2>4
    <3>. QED
      BY <2>1, <2>4, <3>1 DEF EndsWith
  <2>5. i \in Int /\ stop[j] \in Int /\ stop[j - 1] \in Int /\ i <= stop[j]
    BY <1>0, <2>1
  <2>. QED
    BY <2>2, <2>3, <2>4, <2>5
<1> HIDE DEF Good
<1>5. Bad = {}
  <2> SUFFICES ASSUME Bad # {}
               PROVE  FALSE
    OBVIOUS
  <2>1. PICK j \in Bad : \A y \in Bad : j <= y
    <3>1. Bad \in SUBSET Nat
      BY <1>0
    <3> HIDE DEF Bad
    <3>. QED
      BY <3>1, LeastExists
  <2>2. j \in 1 .. Len(docs) /\ j - 1 \in 0 .. Len(docs) /\ j - 1 \notin Bad
    BY <1>0, <1>3, <2>1
  <2>3. Good(j - 1)
    BY <2>2
  <2>. QED
    BY <1>4, <2>1, <2>2, <2>3
<1>6. Good(k)
  BY <1>5
<1>. QED
  BY <1>6 DEF Good, R, L, stop
\* The files of a command are the lines below those where one is awaited.
LEMMA FilesAreAbove ==
  ASSUME NEW body, Len(body) \in Nat, NEW last, NEW docs, CommandEnds(body, last, docs)
  PROVE  LET stop == Stops(body, docs, last, Len(body))
         IN  \A s : s \in Above(body, last) <=>
               s <= Len(body) /\ \E k \in 1 .. Len(docs) : s = stop[k - 1]
<1> DEFINE L    == Len(body)
           R    == Roles(body)
           stop == Stops(body, docs, last, L)
<1>0. last \in 1 .. L /\ docs \in Seq(Heredocs) /\ Len(docs) \in Nat
  BY DEF CommandEnds
<1>1. /\ stop[0] = last
      /\ \A j \in 0 .. Len(docs) : stop[j] \in last .. L + 1
      /\ \A j \in 1 .. Len(docs) : /\ stop[j] > stop[j - 1] \/ stop[j - 1] = L + 1
                                   /\ stop[j] >= stop[j - 1]
  <2>1. last \in Nat /\ L \in Nat /\ last <= L
    BY <1>0
  <2>2. EndInOrder(stop, body, docs, last, L)
    BY <1>0, <2>1, StopsFollow
  <2> HIDE DEF stop
  <2>. QED
    BY <2>2 DEF EndInOrder
<1>2. /\ \A j \in 0 .. Len(docs) : stop[j] <= L => EndsWith(body, docs, stop[j], j)
      /\ \A j \in 1 .. Len(docs) : stop[j - 1] <= L =>
           \A i \in stop[j - 1] + 1 .. stop[j] - 1 : R[i].is = "body"
  BY FilesOfACommand
<1>3. \A j \in 0 .. Len(docs) : \A i \in last + 1 .. stop[j] : i <= L => R[i].is \in {"body", "end"}
  BY LinesOfTheFiles
<1> HIDE DEF stop
<1>4. \A s : s \in Above(body, last) <=>
        /\ s \in last .. L /\ Pending(R[s])
        /\ s > last => R[s].is = "end"
        /\ \A i \in last + 1 .. s : R[i].is \in {"body", "end"}
  BY DEF Above
<1>5. ASSUME NEW k \in 0 .. Len(docs), stop[k] <= L
      PROVE  /\ stop[k] \in 1 .. L
             /\ Pending(R[stop[k]]) <=> k < Len(docs)
             /\ k = Len(docs) /\ stop[k] < L => R[stop[k] + 1].is \notin {"body", "end"}
  <2>1. stop[k] \in 1 .. L /\ EndsWith(body, docs, stop[k], k)
    BY <1>0, <1>1, <1>2, <1>5
  <2>. QED
    BY <1>0, <2>1, NextFile
<1> HIDE DEF R, L
<1>6. ASSUME NEW k \in 1 .. Len(docs), stop[k - 1] <= L
      PROVE  stop[k - 1] \in Above(body, last)
  <2> DEFINE s == stop[k - 1]
  <2>1. k - 1 \in 0 .. Len(docs) /\ k - 1 < Len(docs)
    BY <1>0
  <2>2. s \in last .. L /\ Pending(R[s])
    BY <1>0, <1>1, <1>5, <1>6, <2>1 DEF L
  <2>3. \A i \in last + 1 .. s : R[i].is \in {"body", "end"}
    <3> TAKE i \in last + 1 .. s
    <3>1. i <= L
      BY <1>0, <2>2 DEF L
    <3>. QED
      BY <1>3, <2>1, <3>1
  <2>4. s > last => R[s].is = "end"
    <3> SUFFICES ASSUME s > last
                 PROVE  R[s].is = "end"
      OBVIOUS
    <3>1. k - 1 > 0
      <4>1. k - 1 # 0
        BY <1>0, <1>1, <2>2 DEF L
      <4>. QED
        BY <2>1, <4>1
    <3>2. EndsWith(body, docs, s, k - 1)
      BY <1>2, <1>6, <2>1
    <3>. QED
      BY <3>1, <3>2 DEF EndsWith, R
  <2>. QED
    BY <1>4, <2>2, <2>3, <2>4
<1>7. ASSUME NEW s \in Above(body, last)
      PROVE  s <= L /\ \E k \in 1 .. Len(docs) : s = stop[k - 1]
  <2>0. /\ s \in last .. L /\ Pending(R[s])
        /\ s > last => R[s].is = "end"
        /\ \A i \in last + 1 .. s : R[i].is \in {"body", "end"}
    BY <1>4
  <2> DEFINE Found0   == \E k \in 1 .. Len(docs) : s = stop[k - 1]
             Below(k) == s >= stop[k]
             Bad      == {k \in 0 .. Len(docs) : ~ Below(k)}
  <2> SUFFICES ASSUME ~ Found0
               PROVE  FALSE
    BY <1>0, <2>0 DEF L
  <2>1. Below(0)
    BY <1>0, <1>1, <2>0 DEF L
  <2>2. ASSUME NEW k \in 1 .. Len(docs), Below(k - 1)
        PROVE  Below(k)
    <3>1. k - 1 \in 0 .. Len(docs) /\ k \in 0 .. Len(docs) /\ L \in Nat
      BY <1>0 DEF L
    <3>2. s # stop[k - 1]
      OBVIOUS
    <3>3. stop[k - 1] \in last .. L /\ stop[k] \in last .. L + 1 /\ s > stop[k - 1] /\ s > last
      BY <1>0, <1>1, <2>0, <2>2, <3>1, <3>2
    <3>4. \A i \in stop[k - 1] + 1 .. stop[k] - 1 : R[i].is = "body"
      BY <1>0, <1>2, <3>1, <3>3
    <3>5. s \notin stop[k - 1] + 1 .. stop[k] - 1
      BY <2>0, <3>3, <3>4
    <3>. QED
      BY <1>0, <2>0, <3>1, <3>3, <3>5
  <2>3. Bad = {}
    <3> SUFFICES ASSUME Bad # {}
                 PROVE  FALSE
      OBVIOUS
    <3> HIDE DEF Below
    <3>1. PICK k \in Bad : \A y \in Bad : k <= y
      <4>1. Bad \in SUBSET Nat
        BY <1>0
      <4> HIDE DEF Bad
      <4>. QED
        BY <4>1, LeastExists
    <3>2. k \in 1 .. Len(docs) /\ k - 1 \in 0 .. Len(docs) /\ k - 1 \notin Bad
      BY <1>0, <2>1, <3>1
    <3>3. Below(k - 1)
      BY <3>2
    <3>. QED
      BY <2>2, <3>1, <3>2, <3>3
  <2> DEFINE m == Len(docs)
             e == stop[m]
  <2>4. m \in 0 .. m /\ L \in Nat
    BY <1>0 DEF L
  <2>5. s >= e
    BY <2>3, <2>4
  <2> HIDE DEF Bad, Below, Found0
  <2>6. e \in last .. L
    BY <1>0, <1>1, <2>0, <2>4, <2>5
  <2>7. ~ Pending(R[e]) /\ (e < L => R[e + 1].is \notin {"body", "end"})
    <3>1. Pending(R[stop[m]]) <=> m < Len(docs)
      BY <1>5, <2>4, <2>6
    <3>2. m = Len(docs) /\ stop[m] < L => R[stop[m] + 1].is \notin {"body", "end"}
      BY <1>5, <2>4, <2>6
    <3>. QED
      BY <1>0, <3>1, <3>2
  <2>8. s # e
    BY <2>0, <2>7
  <2>9. e < L /\ e + 1 \in last + 1 .. s
    BY <1>0, <2>0, <2>4, <2>5, <2>6, <2>8
  <2>. QED
    BY <2>0, <2>7, <2>9
<1>. QED
  BY <1>6, <1>7 DEF L, stop

\* A file without a line is let through.
LEMMA EmptyFileIsAllowed ==
  ASSUME NEW body, Len(body) \in Nat, Scripted(body), NEW kind
  PROVE  FileLevel(body, Len(body) + 2, Len(body), kind, Verdicts(body)) = "allow"
<1> DEFINE L    == Len(body)
           span == Span(L + 2, L, FALSE)
           v    == Verdicts(body)
<1>1. L + 2 .. L = {} /\ 1 .. L + 1 - (L + 2) = {}
  OBVIOUS
<1>2. v[span].level = "allow"
  <2>1. span \in Spans(body) /\ span.from > span.end
    BY DEF Span, Spans
  <2>2. v[span] = Walk(body, span, v)
    BY <2>1, VerdictsAreWalked
  <2> HIDE DEF v, span
  <2>3. Walk(body, span, v) = Clean
    BY <2>1 DEF Walk
  <2>. QED
    BY <2>2, <2>3 DEF Clean
<1>3. Python(PythonOf(body, L + 2, L)) = "allow"
  <2> DEFINE script == PythonOf(body, L + 2, L)
             levels == [i \in DOMAIN script.calls |-> JudgeCall(script.calls[i])]
  <2>1. script.parses /\ DOMAIN script.calls = {}
    BY <1>1 DEF PythonOf
  <2> HIDE DEF script
  <2>2. DOMAIN levels = {} /\ ToSet(levels) = {}
    BY <2>1 DEF ToSet
  <2>3. FirstOf(levels) = "allow"
    <3> HIDE DEF levels
    <3>. QED
      BY <2>2 DEF FirstOf
  <2>4. Python(script) = IF ~ script.parses \/ "block" \in ToSet(levels) THEN "block" ELSE FirstOf(levels)
    BY DEF Python
  <2> HIDE DEF levels
  <2>5. Python(script) = "allow"
    BY <2>1, <2>2, <2>3, <2>4
  <2>. QED
    BY <2>5 DEF script
<1> HIDE DEF v, span
<1>4. ScriptLevel(body, Span(L + 2, L, FALSE), kind, v) = "allow"
  <2>1. Span(L + 2, L, FALSE).from = L + 2 /\ Span(L + 2, L, FALSE).end = L
    BY DEF Span
  <2>. QED
    BY <1>2, <1>3, <2>1 DEF ScriptLevel, span
<1>. QED
  BY <1>1, <1>4 DEF FileLevel, v
-----------------------------------------------------------------------------
(***************************************************************************)
(* The strictest verdict of a script.                                      *)
(***************************************************************************)

\* Line n belongs to nothing before it.
Fresh(body, n) == n > Len(body) \/ Roles(body)[n].is \in {"nothing", "start"}

LEMMA FreshAfter ==
  ASSUME NEW body, Len(body) \in Nat, NEW n \in 1 .. Len(body) + 2, Roles(body)[n - 1] = Idle
  PROVE  Fresh(body, n)
<1>1. n <= Len(body) => Roles(body)[n] = RoleAfter(body, n, Idle)
  BY RolesFollow
<1>2. Idle.is = "nothing" /\ Idle.file = FALSE
  BY DEF Idle, Role
<1>3. RoleAfter(body, n, Idle) =
        IF body[n].noise THEN Idle ELSE Role("start", body[n].docs, body[n].file, 0)
  BY <1>2 DEF RoleAfter, Pending
<1>4. n <= Len(body) => Roles(body)[n].is \in {"nothing", "start"}
  BY <1>1, <1>3 DEF Idle, Role
<1>. QED
  BY <1>4 DEF Fresh

\* The first line belongs to nothing, nor does what comes after a line of no command.
LEMMA FirstLineIsFresh ==
  ASSUME NEW body, Len(body) \in Nat
  PROVE  Fresh(body, 1)
<1>1. Roles(body)[0] = Idle /\ 1 - 1 = 0
  BY RolesFollow
<1>. QED
  BY <1>1, FreshAfter

\* A fresh line starts a command unless there is nothing on it to judge.
LEMMA FreshIsNoiseOrStart ==
  ASSUME NEW body, Len(body) \in Nat, NEW n \in 1 .. Len(body), Fresh(body, n)
  PROVE  IF body[n].noise THEN Roles(body)[n] = Idle ELSE Roles(body)[n].is = "start"
<1> DEFINE R == Roles(body)
<1>1. R[n] = RoleAfter(body, n, R[n - 1])
  BY RolesFollow
<1>2. R[n].is \in {"nothing", "start"}
  BY DEF Fresh
<1> HIDE DEF R
<1>3. R[n] = IF body[n].noise THEN Idle ELSE Role("start", body[n].docs, body[n].file, 0)
  BY <1>1, <1>2 DEF RoleAfter, Role
<1>4. Role("start", body[n].docs, body[n].file, 0).is = "start"
  BY DEF Role
<1>. QED
  BY <1>3, <1>4 DEF R

LEMMA JoinedIsContinued ==
  ASSUME NEW body, NEW k \in Nat, NEW before, ~ body[k].cont
  PROVE  RoleAfter(body, k + 1, before).is # "joined"
<1>1. ~ (before.is \in {"start", "joined"} /\ body[k + 1 - 1].cont)
  <2>1. k + 1 - 1 = k
    OBVIOUS
  <2>. QED
    BY <2>1
<1> DEFINE i == k + 1
           ends   == Role("end", before.docs, before.file, before.ended + 1)
           inside == Role("body", before.docs, before.file, before.ended)
           starts == Role("start", body[i].docs, body[i].file, 0)
<1>2. RoleAfter(body, i, before) = IF Pending(before)
                                   THEN IF body[i].ends = Awaited(before).tag THEN ends ELSE inside
                                   ELSE IF body[i].noise THEN Idle ELSE starts
  BY <1>1 DEF RoleAfter
<1>3. ends.is = "end" /\ inside.is = "body" /\ starts.is = "start" /\ Idle.is = "nothing"
  BY DEF Role, Idle
<1> HIDE DEF ends, inside, starts
<1>. QED
  BY <1>2, <1>3

\* What classify_script finds of a command, and where it goes on. (A file that would
\* begin below the last line is empty, and let through.)
LEMMA ACommandByItsRoles ==
  ASSUME NEW body, Len(body) \in Nat, Scripted(body),
         NEW n \in 1 .. Len(body), Roles(body)[n].is = "start"
  PROVE  LET last  == LastOf(body, n, Len(body))
             next  == NextOf(body, n, Len(body))
             found == Found(body, n, last, Span(n, Len(body), TRUE), Verdicts(body))
         IN  /\ \A level : level # "allow" => (level \in found <=> level \in LevelsOf(body, n))
             /\ \A m \in n + 1 .. next - 1 : m <= Len(body) => Roles(body)[m].is # "start"
             /\ next \in n + 1 .. Len(body) + 2 /\ Fresh(body, next)
<1> DEFINE R    == Roles(body)
           L    == Len(body)
           v    == Verdicts(body)
           last == LastOf(body, n, L)
           docs == Opens(body, n, last)
           stop == Stops(body, docs, last, L)
           next == NextOf(body, n, L)
<1>1. last \in n .. L /\ n \in Nat
  BY WhereACommandEnds
<1>2. last < L => ~ body[last].cont
  BY LinesOfACommand
<1>3. \A i \in n .. last : IsOfCommand(body, n, i)
  BY RolesOfACommand
<1>4. \A i \in n + 1 .. last : R[i].is = "joined"
  BY <1>1, <1>3 DEF IsOfCommand
<1>5. next \in n + 1 .. L + 2
  BY <1>1, NextIsFurther
<1>6. next = stop[Len(docs)] + 1
  BY DEF NextOf
<1> HIDE DEF next, last
<1>7. CommandEnds(body, last, docs)
  <2>1. docs \in Seq(Heredocs)
    BY <1>1, OpensAreHeredocs
  <2>2. IsOfCommand(body, n, last)
    BY <1>1, <1>3
  <2>3. /\ R[last].docs = Docs(body, n)[last] /\ R[last].ended = 0
        /\ R[last].file <=> \E j \in n .. last : body[j].file
    BY <2>2 DEF IsOfCommand
  <2>4. IF R[last].file THEN R[last].docs = docs ELSE docs = <<>>
    BY <2>3, Zenon DEF Opens
  <2> HIDE DEF docs
  <2>. QED
    BY <1>1, <1>2, <2>1, <2>3, <2>4 DEF CommandEnds
<1> HIDE DEF docs
<1>8. docs \in Seq(Heredocs) /\ Len(docs) \in Nat /\ DOMAIN docs = 1 .. Len(docs)
  BY <1>7 DEF CommandEnds
<1>9. /\ stop[0] = last
      /\ \A k \in 0 .. Len(docs) : stop[k] \in last .. L + 1
      /\ \A k \in 1 .. Len(docs) : /\ stop[k] > stop[k - 1] \/ stop[k - 1] = L + 1
                                   /\ stop[k] >= stop[k - 1] /\ stop[k] > last
  <2>1. last \in Nat /\ L \in Nat /\ last <= L
    BY <1>1
  <2>2. EndInOrder(stop, body, docs, last, L)
    BY <1>8, <2>1, StopsFollow
  <2> HIDE DEF stop
  <2>. QED
    BY <2>2 DEF EndInOrder
<1>10. /\ \A k \in 0 .. Len(docs) : stop[k] <= L => EndsWith(body, docs, stop[k], k)
       /\ \A k \in 1 .. Len(docs) : stop[k - 1] <= L =>
            \A i \in stop[k - 1] + 1 .. stop[k] - 1 : R[i].is = "body"
  BY <1>7, FilesOfACommand
<1>11. \A i \in last + 1 .. stop[Len(docs)] : i <= L => R[i].is \in {"body", "end"}
  <2>1. Len(docs) \in 0 .. Len(docs)
    BY <1>8
  <2>. QED
    BY <1>7, <2>1, LinesOfTheFiles
<1>12. \A s : s \in Above(body, last) <=> s <= L /\ \E k \in 1 .. Len(docs) : s = stop[k - 1]
  BY <1>7, FilesAreAbove
<1> HIDE DEF stop
<1>13. LastAs("joined", body, n) = last
  <2>1. last < L => R[last + 1].is # "joined"
    <3> SUFFICES ASSUME last < L
                 PROVE  R[last + 1].is # "joined"
      OBVIOUS
    <3>1. last \in Nat /\ last + 1 \in 1 .. L /\ last + 1 - 1 = last /\ ~ body[last].cont
      BY <1>1, <1>2
    <3>2. R[last + 1] = RoleAfter(body, last + 1, R[last])
      BY <3>1, RolesFollow
    <3> HIDE DEF R
    <3>. QED
      BY <3>1, <3>2, JoinedIsContinued
  <2>2. n \in 0 .. L /\ last \in n .. L
    BY <1>1
  <2>. QED
    BY <1>4, <2>1, <2>2, LastAsIs
<1>14. ASSUME NEW k \in 1 .. Len(docs), stop[k - 1] <= L
       PROVE  /\ LastAs("body", body, stop[k - 1]) = stop[k] - 1
              /\ Awaited(R[stop[k - 1]]) = docs[k]
  <2> DEFINE s == stop[k - 1]
             m == stop[k] - 1
  <2>1. /\ k - 1 \in 0 .. Len(docs) /\ k \in 0 .. Len(docs) /\ k - 1 < Len(docs) /\ k - 1 + 1 = k
        /\ k > 0 /\ L \in Nat
    BY <1>8
  <2>2. s \in 1 .. L /\ s \in 0 .. L /\ m \in s .. L /\ m + 1 = stop[k] /\ stop[k] \in Int
    <3> DEFINE t == stop[k]
    <3>1. s \in last .. L + 1 /\ t \in last .. L + 1
      BY <1>9, <2>1
    <3>2. s <= L /\ (t > s \/ s = L + 1)
      BY <1>9, <1>14
    <3> HIDE DEF s, t, L
    <3>3. s \in 1 .. L /\ s \in 0 .. L /\ t - 1 \in s .. L /\ t - 1 + 1 = t /\ t \in Int
      BY <1>1, <2>1, <3>1, <3>2
    <3>. QED
      BY <3>3 DEF t
  <2>3. EndsWith(body, docs, s, k - 1)
    BY <1>10, <1>14, <2>1
  <2>4. Awaited(R[s]) = docs[k]
    BY <1>8, <2>1, <2>2, <2>3, NextFile
  <2>5. \A i \in s + 1 .. m : R[i].is = "body"
    BY <1>10, <1>14
  <2>6. m < L => R[m + 1].is # "body"
    <3>1. m < L => stop[k] <= L
      BY <2>1, <2>2
    <3>2. stop[k] <= L => EndsWith(body, docs, stop[k], k)
      BY <1>10, <2>1
    <3>3. stop[k] <= L => R[stop[k]].is = "end"
      BY <2>1, <3>2 DEF EndsWith
    <3>. QED
      BY <2>2, <3>1, <3>3
  <2> HIDE DEF s, m
  <2>7. LastAs("body", body, s) = m
    BY <2>2, <2>5, <2>6, LastAsIs
  <2>. QED
    BY <2>4, <2>7 DEF s, m
<1>15. ASSUME NEW level, level # "allow"
       PROVE  level \in Found(body, n, last, Span(n, L, TRUE), v) <=> level \in LevelsOf(body, n)
  <2> DEFINE c        == Classify(Text(body, n, last), FALSE, TRUE, FALSE)
             mine(k)  == FileLevel(body, stop[k - 1] + 1, stop[k] - 1, docs[k].kind, v)
             its(s)   == FileLevel(body, s + 1, LastAs("body", body, s), Awaited(R[s]).kind, v)
  <2>1. Span(n, L, TRUE).executed = TRUE /\ Span(n, L, TRUE).end = L
    BY DEF Span
  <2>2. Found(body, n, last, Span(n, L, TRUE), v) = {c} \cup {mine(k) : k \in DOMAIN docs}
    BY <2>1, Zenon DEF Found, docs, stop
  <2>3. LevelsOf(body, n) = {c} \cup {its(s) : s \in Above(body, last)}
    BY <1>13, Zenon DEF LevelsOf
  <2>4. ASSUME NEW k \in 1 .. Len(docs), stop[k - 1] <= L
        PROVE  mine(k) = its(stop[k - 1]) /\ stop[k - 1] \in Above(body, last)
    BY <1>12, <1>14, <2>4, Zenon
  <2>5. ASSUME NEW k \in 1 .. Len(docs), ~ (stop[k - 1] <= L)
        PROVE  mine(k) = "allow"
    <3>1. k - 1 \in 0 .. Len(docs) /\ k \in 0 .. Len(docs) /\ L \in Nat
      BY <1>8
    <3>2. stop[k - 1] + 1 = L + 2 /\ stop[k] - 1 = L
      <4> DEFINE s == stop[k - 1]
                 t == stop[k]
      <4>1. s \in last .. L + 1 /\ t \in last .. L + 1 /\ t >= s /\ ~ (s <= L)
        BY <1>9, <2>5, <3>1
      <4> HIDE DEF s, t, L
      <4>2. s + 1 = L + 2 /\ t - 1 = L
        BY <1>1, <3>1, <4>1
      <4>. QED
        BY <4>2 DEF s, t
    <3>3. FileLevel(body, L + 2, L, docs[k].kind, v) = "allow"
      BY EmptyFileIsAllowed
    <3> HIDE DEF v, L
    <3>. QED
      BY <3>2, <3>3
  <2>6. \A s \in Above(body, last) : \E k \in 1 .. Len(docs) : s = stop[k - 1] /\ stop[k - 1] <= L
    BY <1>12
  <2>7. DOMAIN docs = 1 .. Len(docs)
    BY <1>8
  <2> HIDE DEF mine, its, c, L, v
  <2>8. level \in {mine(k) : k \in 1 .. Len(docs)} <=> level \in {its(s) : s \in Above(body, last)}
    <3>1. ASSUME NEW k \in 1 .. Len(docs), level = mine(k)
          PROVE  \E s \in Above(body, last) : level = its(s)
      BY <1>15, <2>4, <2>5, <3>1
    <3>2. ASSUME NEW s \in Above(body, last), level = its(s)
          PROVE  \E k \in 1 .. Len(docs) : level = mine(k)
      BY <2>4, <2>6, <3>2
    <3>. QED
      BY <3>1, <3>2
  <2>. QED
    BY <2>2, <2>3, <2>7, <2>8, Zenon
<1>16. ASSUME NEW m \in n + 1 .. next - 1, m <= L
       PROVE  R[m].is # "start"
  <2>1. Len(docs) \in 0 .. Len(docs) /\ L \in Nat
    BY <1>8
  <2>2. stop[Len(docs)] \in last .. L + 1
    BY <1>9, <2>1
  <2>3. m \in n + 1 .. last \/ m \in last + 1 .. stop[Len(docs)]
    BY <1>1, <1>6, <2>1, <2>2
  <2>4. R[m].is \in {"joined", "body", "end"}
    BY <1>4, <1>11, <1>16, <2>3
  <2>. QED
    BY <2>4
<1>17. Fresh(body, next)
  <2> SUFFICES ASSUME next <= L
               PROVE  R[next].is \in {"nothing", "start"}
    <3>1. next \in Nat /\ L \in Nat
      BY <1>1, <1>5
    <3>2. next <= L \/ next > L
      BY <3>1
    <3>. QED
      BY <3>2 DEF Fresh
  <2> DEFINE e == stop[Len(docs)]
  <2>1. Len(docs) \in 0 .. Len(docs) /\ L \in Nat
    BY <1>8
  <2>2. e \in 1 .. L /\ e < L /\ e + 1 = next
    BY <1>1, <1>6, <1>9, <2>1
  <2>3. EndsWith(body, docs, e, Len(docs))
    BY <1>10, <2>1, <2>2
  <2> HIDE DEF e
  <2>4. R[e + 1].is \in {"nothing", "start"}
    BY <1>8, <2>1, <2>2, <2>3, NextFile
  <2>. QED
    BY <2>2, <2>4
<1>. QED
  BY <1>5, <1>15, <1>16, <1>17 DEF last, next

\* The commands that start at line n or below with such a verdict, and the strictest one.
AtFrom(body, n, level) ==
  {m \in {k \in DOMAIN body : Roles(body)[k].is = "start"} : m >= n /\ level \in LevelsOf(body, m)}

StrictestOf(blocks, confirms) ==
  IF blocks # {} THEN [level |-> "block", line |-> Min(blocks)]
  ELSE IF confirms # {} THEN [level |-> "confirm", line |-> Min(confirms)]
  ELSE Clean

Strictest(body, n) == StrictestOf(AtFrom(body, n, "block"), AtFrom(body, n, "confirm"))

\* A verdict that comes first decides among those that are as strict.
LEMMA KeptIsStrictest ==
  ASSUME NEW n \in Nat, NEW found, NEW blocks \in SUBSET Nat, NEW confirms \in SUBSET Nat,
         \A m \in blocks \cup confirms : n < m
  PROVE  Kept(found, n, StrictestOf(blocks, confirms)) =
           StrictestOf((IF "block" \in found THEN {n} ELSE {}) \cup blocks,
                       (IF "confirm" \in found THEN {n} ELSE {}) \cup confirms)
<1> DEFINE b == (IF "block" \in found THEN {n} ELSE {}) \cup blocks
           c == (IF "confirm" \in found THEN {n} ELSE {}) \cup confirms
           rest == StrictestOf(blocks, confirms)
<1>1. "block" \in found => b # {} /\ Min(b) = n
  <2> SUFFICES ASSUME "block" \in found
               PROVE  b # {} /\ Min(b) = n
    OBVIOUS
  <2>1. b \in SUBSET Nat /\ n \in b /\ \A m \in b : n <= m
    OBVIOUS
  <2> HIDE DEF b
  <2>. QED
    BY <2>1, MinIs
<1>2. "confirm" \in found => c # {} /\ Min(c) = n
  <2> SUFFICES ASSUME "confirm" \in found
               PROVE  c # {} /\ Min(c) = n
    OBVIOUS
  <2>1. c \in SUBSET Nat /\ n \in c /\ \A m \in c : n <= m
    OBVIOUS
  <2> HIDE DEF c
  <2>. QED
    BY <2>1, MinIs
<1>3. "block" \notin found => b = blocks
  OBVIOUS
<1>4. "confirm" \notin found => c = confirms
  OBVIOUS
<1>5. rest.level = "block" <=> blocks # {}
  BY DEF StrictestOf, Clean
<1> SUFFICES Kept(found, n, rest) = StrictestOf(b, c)
  OBVIOUS
<1> HIDE DEF b, c
<1>6. CASE "block" \in found
  BY <1>1, <1>6 DEF Kept, StrictestOf
<1>7. CASE "block" \notin found /\ "confirm" \in found
  BY <1>2, <1>3, <1>5, <1>7 DEF Kept, StrictestOf
<1>8. CASE "block" \notin found /\ "confirm" \notin found
  BY <1>3, <1>4, <1>8 DEF Kept
<1>. QED
  BY <1>6, <1>7, <1>8

\* To allow makes no difference to it.
LEMMA KeptIsOfTheRest ==
  ASSUME NEW n, NEW rest, NEW a, NEW b, \A level : level # "allow" => (level \in a <=> level \in b)
  PROVE  Kept(a, n, rest) = Kept(b, n, rest)
<1>1. ("block" \in a <=> "block" \in b) /\ ("confirm" \in a <=> "confirm" \in b)
  BY Zenon
<1>. QED
  BY <1>1, Zenon DEF Kept

\* Where n starts a command and the next one starts at next, n joins those from there.
LEMMA AtFromStart ==
  ASSUME NEW body, Len(body) \in Nat, DOMAIN body = 1 .. Len(body), NEW n \in 1 .. Len(body),
         Roles(body)[n].is = "start", NEW next \in n + 1 .. Len(body) + 2,
         \A m \in n + 1 .. next - 1 : m <= Len(body) => Roles(body)[m].is # "start", NEW level
  PROVE  AtFrom(body, n, level) =
           (IF level \in LevelsOf(body, n) THEN {n} ELSE {}) \cup AtFrom(body, next, level)
<1>1. ASSUME NEW m \in DOMAIN body, Roles(body)[m].is = "start"
      PROVE  m >= n <=> m = n \/ m >= next
  <2>1. m \in n + 1 .. next - 1 => FALSE
    BY <1>1
  <2>. QED
    BY <1>1, <2>1
<1>. QED
  BY <1>1 DEF AtFrom

LEMMA AtFromNothing ==
  ASSUME NEW body, Len(body) \in Nat, DOMAIN body = 1 .. Len(body), NEW n \in 1 .. Len(body),
         Roles(body)[n].is # "start", NEW level
  PROVE  AtFrom(body, n, level) = AtFrom(body, n + 1, level)
<1>1. ASSUME NEW m \in DOMAIN body, Roles(body)[m].is = "start"
      PROVE  m >= n <=> m >= n + 1
  BY <1>1
<1>. QED
  BY <1>1 DEF AtFrom

LEMMA SpanFrom ==
  ASSUME NEW body, NEW span \in Spans(body), NEW i
  PROVE  [span EXCEPT !.from = i] = Span(i, span.end, span.executed)
<1>1. span = Span(span.from, span.end, span.executed)
  BY DEF Spans, Span
<1>. QED
  BY <1>1 DEF Span

\* From a fresh line on, the verdict is the strictest there is.
LEMMA StrictestFromFresh ==
  ASSUME NEW body, Len(body) \in Nat, Scripted(body), DOMAIN body = 1 .. Len(body),
         NEW n \in 1 .. Len(body) + 2, Fresh(body, n),
         \A m \in n + 1 .. Len(body) + 2 :
           Fresh(body, m) => Verdicts(body)[Span(m, Len(body), TRUE)] = Strictest(body, m)
  PROVE  Verdicts(body)[Span(n, Len(body), TRUE)] = Strictest(body, n)
<1> DEFINE L    == Len(body)
           v    == Verdicts(body)
           span == Span(n, L, TRUE)
           last == LastOf(body, n, L)
           next == NextOf(body, n, L)
<1>1. span \in Spans(body) /\ span.from = n /\ span.end = L
  BY DEF Span, Spans
<1>2. \A i : [span EXCEPT !.from = i] = Span(i, L, TRUE)
  <2>1. span.executed = TRUE
    BY DEF Span
  <2> HIDE DEF span
  <2>. QED
    BY <1>1, <2>1, SpanFrom
<1>3. v[span] = Walk(body, span, v)
  BY <1>1, VerdictsAreWalked
<1> HIDE DEF span
<1>4. v[span] = IF n > L THEN Clean
                ELSE IF body[n].noise THEN v[Span(n + 1, L, TRUE)]
                ELSE Kept(Found(body, n, last, span, v), n, v[Span(next, L, TRUE)])
  BY <1>1, <1>2, <1>3, Zenon DEF Walk, NextOf
<1> HIDE DEF v
<1>5. CASE n > L
  <2>1. \A l : AtFrom(body, n, l) = {}
    BY <1>5 DEF AtFrom
  <2>. QED
    BY <1>4, <1>5, <2>1 DEF Strictest, StrictestOf, v, span
<1>6. CASE n <= L /\ body[n].noise
  <2>1. n \in 1 .. L /\ n + 1 \in n + 1 .. L + 2
    BY <1>6
  <2>2. Roles(body)[n] = Idle /\ Roles(body)[n].is # "start"
    <3>1. Roles(body)[n] = Idle
      BY <1>6, <2>1, FreshIsNoiseOrStart
    <3>. QED
      BY <3>1 DEF Idle, Role
  <2>3. n + 1 \in 1 .. L + 2 /\ n + 1 - 1 = n
    BY <1>6
  <2>4. Fresh(body, n + 1)
    BY <2>2, <2>3, FreshAfter
  <2>5. v[Span(n + 1, L, TRUE)] = Strictest(body, n + 1)
    BY <2>1, <2>4 DEF v
  <2>6. \A l : AtFrom(body, n, l) = AtFrom(body, n + 1, l)
    BY <2>1, <2>2, AtFromNothing
  <2>7. Strictest(body, n) = Strictest(body, n + 1)
    <3>1. /\ AtFrom(body, n, "block") = AtFrom(body, n + 1, "block")
          /\ AtFrom(body, n, "confirm") = AtFrom(body, n + 1, "confirm")
      BY <2>6
    <3>. QED
      BY <3>1, Zenon DEF Strictest
  <2>8. v[span] = v[Span(n + 1, L, TRUE)]
    <3>1. ~ (n > L)
      BY <1>6
    <3>. QED
      BY <1>4, <1>6, <3>1, Zenon
  <2>. QED
    BY <2>5, <2>7, <2>8 DEF v, span
<1>7. CASE n <= L /\ ~ body[n].noise
  <2>1. n \in 1 .. L
    BY <1>7
  <2>2. Roles(body)[n].is = "start"
    BY <1>7, <2>1, FreshIsNoiseOrStart
  <2> DEFINE found == Found(body, n, last, span, v)
  <2>3. /\ \A level : level # "allow" => (level \in found <=> level \in LevelsOf(body, n))
        /\ \A m \in n + 1 .. next - 1 : m <= L => Roles(body)[m].is # "start"
        /\ next \in n + 1 .. L + 2 /\ Fresh(body, next)
    BY <2>1, <2>2, ACommandByItsRoles DEF v, span
  <2> HIDE DEF next, last
  <2>4. v[Span(next, L, TRUE)] = Strictest(body, next)
    BY <2>3 DEF v
  <2>5. v[span] = Kept(LevelsOf(body, n), n, Strictest(body, next))
    <3>1. v[span] = Kept(found, n, Strictest(body, next))
      <4>1. ~ (n > L)
        BY <1>7
      <4>. QED
        BY <1>4, <1>7, <2>4, <4>1, Zenon
    <3> HIDE DEF found
    <3>2. Kept(found, n, Strictest(body, next)) = Kept(LevelsOf(body, n), n, Strictest(body, next))
      BY <2>3, KeptIsOfTheRest
    <3>. QED
      BY <3>1, <3>2
  <2>6. \A l : AtFrom(body, n, l) = (IF l \in LevelsOf(body, n) THEN {n} ELSE {}) \cup AtFrom(body, next, l)
    BY <2>1, <2>2, <2>3, AtFromStart
  <2>7. \A l : AtFrom(body, next, l) \in SUBSET Nat /\ \A m \in AtFrom(body, next, l) : n < m
    BY <2>3 DEF AtFrom
  <2>8. Kept(LevelsOf(body, n), n, Strictest(body, next)) = Strictest(body, n)
    <3> DEFINE blocks   == AtFrom(body, next, "block")
               confirms == AtFrom(body, next, "confirm")
    <3>1. /\ n \in Nat /\ blocks \in SUBSET Nat /\ confirms \in SUBSET Nat
          /\ \A m \in blocks \cup confirms : n < m
      BY <2>7
    <3> HIDE DEF blocks, confirms
    <3>2. Kept(LevelsOf(body, n), n, StrictestOf(blocks, confirms)) =
            StrictestOf((IF "block" \in LevelsOf(body, n) THEN {n} ELSE {}) \cup blocks,
                        (IF "confirm" \in LevelsOf(body, n) THEN {n} ELSE {}) \cup confirms)
      BY <3>1, KeptIsStrictest
    <3>. QED
      BY <2>6, <3>2, Zenon DEF Strictest, blocks, confirms
  <2>. QED
    BY <2>5, <2>8 DEF v, span
<1>8. n > L \/ n <= L
  OBVIOUS
<1>. QED
  BY <1>5, <1>6, <1>7, <1>8, Zenon

\* The verdict on a script is the strictest there is.
LEMMA ScriptIsStrictest ==
  ASSUME NEW body, Len(body) \in Nat, Scripted(body), DOMAIN body = 1 .. Len(body)
  PROVE  Script(body) = Strictest(body, 1)
<1> DEFINE L       == Len(body)
           Good(n) == Fresh(body, n) => Verdicts(body)[Span(n, L, TRUE)] = Strictest(body, n)
           Bad     == {k \in 0 .. L + 1 : ~ Good(L + 2 - k)}
<1>1. ASSUME NEW n \in 1 .. L + 2, \A m \in n + 1 .. L + 2 : Good(m)
      PROVE  Good(n)
  BY <1>1, StrictestFromFresh
<1> HIDE DEF Good
<1>2. Bad = {}
  <2> SUFFICES ASSUME Bad # {}
               PROVE  FALSE
    OBVIOUS
  <2>1. PICK k \in Bad : \A y \in Bad : k <= y
    <3>1. Bad \in SUBSET Nat
      OBVIOUS
    <3> HIDE DEF Bad
    <3>. QED
      BY <3>1, LeastExists
  <2> DEFINE n == L + 2 - k
  <2>2. ASSUME NEW m \in n + 1 .. L + 2
        PROVE  Good(m)
    <3>1. L + 2 - m \in 0 .. L + 1 /\ L + 2 - m < k /\ L + 2 - (L + 2 - m) = m
      BY <2>1
    <3>2. L + 2 - m \notin Bad
      BY <2>1, <3>1
    <3>. QED
      BY <3>1, <3>2
  <2>3. n \in 1 .. L + 2
    BY <2>1
  <2>4. Good(n)
    BY <1>1, <2>2, <2>3
  <2>. QED
    BY <2>1, <2>4
<1>3. Good(1)
  <2>1. L + 1 \in 0 .. L + 1 /\ L + 2 - (L + 1) = 1
    OBVIOUS
  <2>. QED
    BY <1>2, <2>1
<1>. QED
  BY <1>3, FirstLineIsFresh DEF Good, Script
-----------------------------------------------------------------------------
(***************************************************************************)
(* A command judged as a script, as a call, and by itself.                 *)
(***************************************************************************)

Levels == {"allow", "confirm", "block"}

LEMMA FirstOfIsLevel ==
  ASSUME NEW s, DOMAIN s \in SUBSET Nat, \A i \in DOMAIN s : s[i] \in Levels
  PROVE  FirstOf(s) \in Levels
<1> DEFINE hits == {i \in DOMAIN s : s[i] # "allow"}
<1>1. CASE hits = {}
  BY <1>1 DEF FirstOf, Levels
<1>2. CASE hits # {}
  <2>1. hits \in SUBSET Nat
    OBVIOUS
  <2>2. Min(hits) \in DOMAIN s
    <3> HIDE DEF hits
    <3>1. Min(hits) \in hits
      BY <1>2, <2>1, MinIsLeast
    <3>. QED
      BY <3>1 DEF hits
  <2>3. FirstOf(s) = s[Min(hits)]
    BY <1>2 DEF FirstOf
  <2>. QED
    BY <2>2, <2>3
<1>. QED
  BY <1>1, <1>2

LEMMA DeletesAndMovesAreLevels ==
  ASSUME NEW args, DOMAIN args \in SUBSET Nat
  PROVE  JudgeRm(args) \in Levels /\ JudgeMove(args) \in Levels
<1> DEFINE rms == [i \in DOMAIN args |->
             CASE args[i] \in Critical -> IF "-r" \in ToSet(args) \/ args[i] = "/" THEN "block" ELSE "confirm"
               [] args[i] \in Data     -> "confirm"
               [] OTHER                -> "allow"]
           source(i) == \E j \in DOMAIN args : j > i /\ args[j] \notin Flags
           moves == [i \in DOMAIN args |->
             CASE args[i] \in Protected              -> "block"
               [] source(i) /\ args[i] \in Critical  -> "block"
               [] source(i) /\ args[i] \in Data      -> "confirm"
               [] OTHER                              -> "allow"]
<1>1. DOMAIN rms \in SUBSET Nat /\ DOMAIN moves \in SUBSET Nat
  OBVIOUS
<1>2. \A i \in DOMAIN rms : rms[i] \in Levels
  BY DEF Levels
<1>3. \A i \in DOMAIN moves : moves[i] \in Levels
  <2> HIDE DEF source
  <2>. QED
    BY DEF Levels
<1>4. JudgeRm(args) = FirstOf(rms)
  BY Zenon DEF JudgeRm
<1>5. JudgeMove(args) = FirstOf(moves)
  BY Zenon DEF JudgeMove
<1> HIDE DEF rms, moves
<1>. QED
  BY <1>1, <1>2, <1>3, <1>4, <1>5, FirstOfIsLevel

LEMMA ProgramIsLevel ==
  ASSUME NEW program, NEW args, DOMAIN args \in SUBSET Nat, NEW x, NEW b
  PROVE  JudgeProgram(program, args, x, b) \in Levels
<1> DEFINE plain == [i \in DOMAIN args |-> args[i].w]
<1>1. DOMAIN plain \in SUBSET Nat
  OBVIOUS
<1> HIDE DEF plain
<1>2. JudgeRm(plain) \in Levels /\ JudgeMove(plain) \in Levels
  BY <1>1, DeletesAndMovesAreLevels
<1>. QED
  BY <1>2 DEF JudgeProgram, plain, Levels

\* What comes behind the program, past the wrappers.
LEMMA ArgumentsAreNumbered ==
  ASSUME NEW W, NEW words \in Seq(W), Stripped(words) # <<>>
  PROVE  DOMAIN Tail(Stripped(words)) \in SUBSET Nat
<1> DEFINE own == {i \in DOMAIN words : words[i].w \notin Wrappers}
<1>1. own # {} /\ Stripped(words) = SubSeq(words, Min(own), Len(words))
  BY DEF Stripped
<1>2. Min(own) \in own
  <2>1. own \in SUBSET Nat
    OBVIOUS
  <2> HIDE DEF own
  <2>. QED
    BY <1>1, <2>1, MinIsLeast
<1>3. Min(own) \in 1 .. Len(words)
  BY <1>2
<1> HIDE DEF own
<1>4. Stripped(words) \in Seq(W)
  BY <1>1, <1>3, RestIsSeq
<1>5. Tail(Stripped(words)) \in Seq(W)
  BY <1>4, RestIsSeq
<1>6. DOMAIN Tail(Stripped(words)) = 1 .. Len(Tail(Stripped(words))) /\ Len(Tail(Stripped(words))) \in Nat
  BY <1>5, SeqHasLength
<1>. QED
  BY <1>6

\* The verdict on a text comes from its patterns, its quotes or its commands.
LEMMA TextIsLevel ==
  ASSUME NEW W, NEW t \in TextsOf(W), NEW levels,
         DOMAIN levels = DOMAIN t.segs, \A i \in DOMAIN t.segs : levels[i] \in Levels
  PROVE  /\ FirstOf(levels) \in Levels
         /\ t.rules # {} => RuleLevels[Min(t.rules)] \in Levels
<1>1. t.rules \in SUBSET (1 .. 2) /\ t.segs \in Seq([words : Seq(W), bg : BOOLEAN])
  BY DEF TextsOf
<1>2. DOMAIN t.segs \in SUBSET Nat
  <2>1. DOMAIN t.segs = 1 .. Len(t.segs) /\ Len(t.segs) \in Nat
    BY <1>1, SeqHasLength, Zenon
  <2>. QED
    BY <2>1
<1>3. FirstOf(levels) \in Levels
  BY <1>2, FirstOfIsLevel
<1>4. ASSUME t.rules # {}
      PROVE  RuleLevels[Min(t.rules)] \in Levels
  <2>1. Min(t.rules) \in 1 .. 2
    <3>1. t.rules \in SUBSET Nat
      BY <1>1
    <3>2. Min(t.rules) \in t.rules
      BY <1>4, <3>1, MinIsLeast
    <3>. QED
      BY <1>1, <3>2
  <2>. QED
    BY <2>1 DEF RuleLevels, Levels
<1>. QED
  BY <1>3, <1>4

\* A text that quotes nothing gets one of the three verdicts, and so does one that quotes such.
LEMMA PlainIsLevel ==
  ASSUME NEW t \in PlainTexts, NEW x, NEW b
  PROVE  First(t, x, b) \in Levels
<1> DEFINE levels == [i \in DOMAIN t.segs |-> JudgeFirst(t.segs[i], x, b \/ t.segs[i].bg)]
<1>1. ASSUME NEW i \in DOMAIN t.segs, NEW c
      PROVE  JudgeFirst(t.segs[i], x, c) \in Levels
  <2> DEFINE words == t.segs[i].words
  <2>1. words \in Seq([w : STRING, in : {<<>>}])
    BY PartsOfText DEF PlainTexts
  <2>2. Stripped(words) # <<>> => Payload(Tail(Stripped(words))) = <<>>
    BY <2>1, PayloadIsQuoted
  <2>3. Stripped(words) # <<>> => DOMAIN Tail(Stripped(words)) \in SUBSET Nat
    <3> DEFINE W == [w : STRING, in : {<<>>}]
    <3> HIDE DEF W, words
    <3>1. words \in Seq(W)
      BY <2>1 DEF W
    <3>. QED
      BY <3>1, ArgumentsAreNumbered
  <2>4. Stripped(words) # <<>> =>
          JudgeProgram(Stripped(words)[1].w, Tail(Stripped(words)), x, c) \in Levels
    BY <2>3, ProgramIsLevel
  <2>. QED
    BY <2>2, <2>4 DEF JudgeFirst, Judge, Levels
<1>2. \A i \in DOMAIN t.segs : levels[i] \in Levels
  BY <1>1, Zenon
<1>3. /\ FirstOf(levels) \in Levels
      /\ t.rules # {} => RuleLevels[Min(t.rules)] \in Levels
  <2>1. DOMAIN levels = DOMAIN t.segs
    OBVIOUS
  <2> HIDE DEF levels
  <2>. QED
    BY <1>2, <2>1, TextIsLevel DEF PlainTexts
<1>4. "block" \in Levels /\ "allow" \in Levels
  BY DEF Levels
<1>. QED
  BY <1>3, <1>4, Zenon DEF First, Decide

LEMMA ShallowIsLevel ==
  ASSUME NEW t \in ShallowTexts, NEW q, NEW x, NEW b
  PROVE  Classify(t, q, x, b) \in Levels
<1> DEFINE levels == [i \in DOMAIN t.segs |-> JudgeOuter(t.segs[i], x, b \/ t.segs[i].bg)]
<1>1. ASSUME NEW i \in DOMAIN t.segs, NEW c
      PROVE  JudgeOuter(t.segs[i], x, c) \in Levels
  <2> DEFINE words == t.segs[i].words
             inner == Payload(Tail(Stripped(words)))
  <2>1. words \in Seq([w : STRING, in : Seq(PlainTexts)])
    BY PartsOfText DEF ShallowTexts
  <2> HIDE DEF words
  <2>2. ASSUME Stripped(words) # <<>>
        PROVE  inner \in Seq(PlainTexts)
    <3> DEFINE In == Seq(PlainTexts)
    <3>1. <<>> \in In /\ words \in Seq([w : STRING, in : In])
      BY <2>1
    <3> HIDE DEF In
    <3>2. inner \in In
      BY <2>2, <3>1, PayloadIsQuoted
    <3>. QED
      BY <3>2 DEF In
  <2>3. Stripped(words) # <<>> => DOMAIN Tail(Stripped(words)) \in SUBSET Nat
    <3> DEFINE W == [w : STRING, in : Seq(PlainTexts)]
    <3> HIDE DEF W
    <3>1. words \in Seq(W)
      BY <2>1 DEF W
    <3>. QED
      BY <3>1, ArgumentsAreNumbered
  <2>4. Stripped(words) # <<>> =>
          JudgeProgram(Stripped(words)[1].w, Tail(Stripped(words)), x, c) \in Levels
    BY <2>3, ProgramIsLevel
  <2> HIDE DEF inner
  <2>5. Stripped(words) # <<>> /\ inner # <<>> => inner[1] \in PlainTexts
    BY <2>2
  <2>6. Stripped(words) # <<>> /\ inner # <<>> => First(inner[1], x, c) \in Levels
    BY <2>5, PlainIsLevel
  <2>. QED
    BY <2>4, <2>6 DEF JudgeOuter, Judge, Given, Levels, inner, words
<1>2. \A i \in DOMAIN t.segs : levels[i] \in Levels
  BY <1>1, Zenon
<1>3. /\ FirstOf(levels) \in Levels
      /\ t.rules # {} => RuleLevels[Min(t.rules)] \in Levels
  <2>1. DOMAIN levels = DOMAIN t.segs
    OBVIOUS
  <2> HIDE DEF levels
  <2>. QED
    BY <1>2, <2>1, TextIsLevel DEF ShallowTexts
<1>4. "block" \in Levels /\ "allow" \in Levels
  BY DEF Levels
<1>. QED
  BY <1>3, <1>4, Zenon DEF Classify, Decide

\* Where no quote is open it makes no difference whether that is asked.
LEMMA QuotesDoNotMatter ==
  ASSUME NEW t, ~ t.open, NEW x, NEW b
  PROVE  Classify(t, FALSE, x, b) = Classify(t, TRUE, x, b)
BY Zenon DEF Classify, Decide

\* As a script of one line a command gets the verdict it gets by itself.
LEMMA OneLineIsItsText ==
  ASSUME NEW t \in ShallowTexts
  PROVE  Script(OneLine(t)).level = Classify(t, FALSE, TRUE, FALSE)
<1> DEFINE body == OneLine(t)
           c    == Classify(t, FALSE, TRUE, FALSE)
<1>1. /\ Len(body) = 1 /\ DOMAIN body = 1 .. Len(body) /\ body[1].text = t
      /\ body[1].noise = FALSE /\ body[1].docs = <<>> /\ body[1].file = FALSE
  BY DEF OneLine
<1>2. c \in Levels
  BY ShallowIsLevel
<1> HIDE DEF body, c
<1>0. Scripted(body)
  <2>1. \A i \in 1 .. Len(body) : body[i].docs = <<>>
    BY <1>1
  <2>2. <<>> \in Seq(Heredocs)
    OBVIOUS
  <2>. QED
    BY <2>1, <2>2, Zenon DEF Scripted
<1>3. Roles(body)[1] = Role("start", <<>>, FALSE, 0)
  <2>1. Roles(body)[1] = RoleAfter(body, 1, Idle)
    <3>1. Len(body) \in Nat /\ 1 \in 1 .. Len(body) /\ 1 - 1 = 0
      BY <1>1
    <3>. QED
      BY <3>1, RolesFollow
  <2>2. Idle.is = "nothing" /\ Idle.file = FALSE
    BY DEF Idle, Role
  <2>. QED
    BY <1>1, <2>1, <2>2 DEF RoleAfter, Pending
<1>4. LastAs("joined", body, 1) = 1
  <2>1. Len(body) \in Nat /\ 1 \in 0 .. Len(body) /\ 1 \in 1 .. Len(body) /\ ~ (1 < Len(body))
    BY <1>1
  <2>2. \A i \in 1 + 1 .. 1 : Roles(body)[i].is = "joined"
    OBVIOUS
  <2>. QED
    BY <2>1, <2>2, LastAsIs
<1>5. Text(body, 1, 1) = t
  <2> DEFINE Is(f) == f = [i \in 1 .. 1 |-> IF i = 1 THEN body[1].text ELSE Joined(f[i - 1], body[i].text)]
             g     == CHOOSE f : Is(f)
  <2>1. Is([i \in 1 .. 1 |-> body[1].text])
    OBVIOUS
  <2>2. Is(g)
    BY <2>1
  <2>3. Text(body, 1, 1) = g[1]
    BY DEF Text
  <2> HIDE DEF g
  <2>4. g[1] = body[1].text
    BY <2>2
  <2>. QED
    BY <1>1, <2>3, <2>4
<1>6. LevelsOf(body, 1) = {c}
  <2>1. Above(body, 1) = {}
    <3>1. ~ Pending(Roles(body)[1])
      BY <1>3 DEF Pending, Role
    <3>2. 1 .. Len(body) = {1}
      BY <1>1
    <3>. QED
      BY <3>1, <3>2, Zenon DEF Above
  <2>2. LevelsOf(body, 1) =
          {c} \cup {FileLevel(body, s + 1, LastAs("body", body, s), Awaited(Roles(body)[s]).kind, Verdicts(body)) :
                      s \in Above(body, 1)}
    BY <1>4, <1>5, Zenon DEF LevelsOf, c
  <2>. QED
    BY <2>1, <2>2, Zenon
<1>7. \A l : AtFrom(body, 1, l) = IF l = c THEN {1} ELSE {}
  <2>1. DOMAIN body = {1} /\ Roles(body)[1].is = "start"
    BY <1>1, <1>3 DEF Role
  <2>. QED
    BY <1>6, <2>1 DEF AtFrom
<1>8. Min({1}) = 1
  BY MinIs
<1>9. Script(body) = Strictest(body, 1)
  BY <1>0, <1>1, ScriptIsStrictest
<1>10. Strictest(body, 1).level = c
  BY <1>2, <1>7, <1>8 DEF Strictest, StrictestOf, Clean, Levels
<1>. QED
  BY <1>9, <1>10 DEF body, c
-----------------------------------------------------------------------------
(***************************************************************************)
(* A command and the call of a python script that does the same.           *)
(***************************************************************************)

\* A script of one call is that call.
LEMMA OneCall ==
  ASSUME NEW f, NEW arg
  PROVE  Python(Calls(f, arg)) = JudgeCall([f |-> f, arg |-> arg])
<1> DEFINE script == Calls(f, arg)
           level  == JudgeCall([f |-> f, arg |-> arg])
           levels == [i \in DOMAIN script.calls |-> JudgeCall(script.calls[i])]
<1>1. script.parses = TRUE /\ DOMAIN script.calls = 1 .. 1 /\ script.calls[1] = [f |-> f, arg |-> arg]
  BY DEF Calls
<1> HIDE DEF script
<1>3. levels = [i \in 1 .. 1 |-> JudgeCall(script.calls[i])]
  BY <1>1, Zenon
<1>4. levels = <<level>>
  BY <1>1, <1>3
<1> HIDE DEF level, levels
<1>5. "block" \in ToSet(<<level>>) <=> level = "block"
  BY DEF ToSet
<1>6. FirstOf(<<level>>) = level
  BY FirstOfOne
<1>7. Python(script) = IF ~ script.parses \/ "block" \in ToSet(levels) THEN "block" ELSE FirstOf(levels)
  BY DEF Python, levels
<1>. QED
  BY <1>1, <1>4, <1>5, <1>6, <1>7 DEF script, level

\* The words of a command that quote nothing, of a program that is no shell.
Says(program, words) ==
  /\ program \in {"rm", "mv"} /\ Len(words) \in Nat /\ DOMAIN words = 1 .. Len(words)
  /\ 1 <= Len(words) /\ SubSeq(words, 1, Len(words)) = words
  /\ words[1].w = program /\ \A i \in DOMAIN words : words[i].in = <<>>

\* It is judged as that program.
LEMMA PlainIsItsProgram ==
  ASSUME NEW words, NEW program, Says(program, words)
  PROVE  Command(Alone(words, FALSE)) = JudgeProgram(program, Tail(words), TRUE, FALSE)
<1>0. /\ program \in {"rm", "mv"} /\ Len(words) \in Nat /\ DOMAIN words = 1 .. Len(words)
      /\ 1 <= Len(words) /\ SubSeq(words, 1, Len(words)) = words
      /\ words[1].w = program /\ \A i \in DOMAIN words : words[i].in = <<>>
  BY DEF Says
<1> DEFINE text == Alone(words, FALSE)
<1>1. text.segs[1].words = words /\ text.rules = {}
  <2>1. {v \in ToSet(words) : v.in # <<>>} = {}
    BY <1>0 DEF ToSet
  <2>2. text.rules = UNION {w.in[1].rules : w \in {v \in ToSet(words) : v.in # <<>>}}
    BY DEF Alone
  <2>. QED
    BY <2>1, <2>2 DEF Alone
<1>2. words # <<>>
  BY <1>0
<1>3. StandsAlone(text, words, FALSE, FALSE)
  BY <1>2, AloneStandsAlone
<1> HIDE DEF text
<1>4. Command(text) = RulesOr(text, JudgeOuter(text.segs[1], TRUE, FALSE))
  BY <1>3, AloneIsItsSegment, Zenon DEF Command
<1>5. RulesOr(text, JudgeOuter(text.segs[1], TRUE, FALSE)) = JudgeOuter(text.segs[1], TRUE, FALSE)
  BY <1>1, Zenon DEF RulesOr
<1>6. Stripped(words) = words
  <2>1. 1 \in 1 .. Len(words) /\ words[1].w \notin Wrappers /\ \A i \in 1 .. 1 - 1 : words[i].w \in Wrappers
    BY <1>0 DEF Wrappers
  <2>. QED
    BY <1>0, <2>1, StripsWrappers
<1>7. program \notin Shells \cup ScriptWrappers
  BY <1>0 DEF Shells, ScriptWrappers
<1>8. JudgeOuter(text.segs[1], TRUE, FALSE) = JudgeProgram(program, Tail(words), TRUE, FALSE)
  BY <1>0, <1>1, <1>2, <1>6, <1>7 DEF JudgeOuter, Judge
<1>. QED
  BY <1>4, <1>5, <1>8 DEF text

\* What rm and mv are judged by.
LEMMA RmAndMv ==
  ASSUME NEW args
  PROVE  /\ JudgeProgram("rm", args, TRUE, FALSE) = JudgeRm([i \in DOMAIN args |-> args[i].w])
         /\ JudgeProgram("mv", args, TRUE, FALSE) = JudgeMove([i \in DOMAIN args |-> args[i].w])
<1> DEFINE plain == [i \in DOMAIN args |-> args[i].w]
<1> HIDE DEF plain
<1>0. /\ "rm" \notin Interactive /\ "rm" \notin ScriptWrappers /\ "rm" \notin Repls /\ "rm" # "passwd"
      /\ "mv" \notin Interactive /\ "mv" \notin ScriptWrappers /\ "mv" \notin Repls /\ "mv" # "passwd"
      /\ "rm" # "mv" /\ "rm" # "mysql" /\ "mv" # "mysql" /\ "rm" \notin Servers /\ "mv" \notin Servers
  BY DEF Interactive, ScriptWrappers, Repls, Servers
<1>1. JudgeProgram("rm", args, TRUE, FALSE) = JudgeRm(plain)
  BY <1>0, Zenon DEF JudgeProgram, plain
<1>2. JudgeProgram("mv", args, TRUE, FALSE) = JudgeMove(plain)
  BY <1>0, Zenon DEF JudgeProgram, plain
<1>. QED
  BY <1>1, <1>2 DEF plain

\* The same of one argument and of two, as the words they are.
LEMMA OfOneArgument ==
  ASSUME NEW program \in {"rm", "mv"}, NEW p
  PROVE  Command(Alone(Plain(<<program, p>>), FALSE)) = JudgeProgram(program, <<Word(p)>>, TRUE, FALSE)
<1> DEFINE words == Plain(<<program, p>>)
<1>1. words = <<Word(program), Word(p)>>
  <2>1. \A a, b : Plain(<<a, b>>) = <<Word(a), Word(b)>>
    BY DEF Plain
  <2>. QED
    BY <2>1
<1>2. \A a, b : /\ Len(<<a, b>>) = 2 /\ DOMAIN <<a, b>> = 1 .. 2 /\ Tail(<<a, b>>) = <<b>>
                /\ <<a, b>>[1] = a /\ <<a, b>>[2] = b /\ SubSeq(<<a, b>>, 1, 2) = <<a, b>>
  <2> TAKE a, b
  <2>1. SubSeq(<<a, b>>, 1, 2) = [i \in 1 .. 2 |-> <<a, b>>[i]]
    OBVIOUS
  <2>2. <<a, b>> = [i \in 1 .. 2 |-> <<a, b>>[i]]
    OBVIOUS
  <2>3. Tail(<<a, b>>) = <<b>>
    OBVIOUS
  <2>. QED
    BY <2>1, <2>2, <2>3
<1>3. \A w : Word(w).w = w /\ Word(w).in = <<>>
  BY DEF Word
<1> HIDE DEF words
<1>4. /\ Len(words) = 2 /\ DOMAIN words = 1 .. 2 /\ Tail(words) = <<Word(p)>>
      /\ words[1] = Word(program) /\ words[2] = Word(p) /\ SubSeq(words, 1, 2) = words
  BY <1>1, <1>2, Zenon
<1>5. \A i \in DOMAIN words : words[i].in = <<>>
  BY <1>3, <1>4
<1>6. Says(program, words)
  BY <1>3, <1>4, <1>5 DEF Says
<1>7. Command(Alone(words, FALSE)) = JudgeProgram(program, Tail(words), TRUE, FALSE)
  BY <1>6, PlainIsItsProgram, Zenon
<1>. QED
  BY <1>4, <1>7 DEF words

LEMMA OfTwoArguments ==
  ASSUME NEW program \in {"rm", "mv"}, NEW p, NEW q
  PROVE  Command(Alone(Plain(<<program, p, q>>), FALSE)) =
           JudgeProgram(program, <<Word(p), Word(q)>>, TRUE, FALSE)
<1> DEFINE words == Plain(<<program, p, q>>)
<1>1. words = <<Word(program), Word(p), Word(q)>>
  <2>1. \A a, b, c : Plain(<<a, b, c>>) = <<Word(a), Word(b), Word(c)>>
    BY DEF Plain
  <2>. QED
    BY <2>1
<1>2. \A w : Word(w).w = w /\ Word(w).in = <<>>
  BY DEF Word
<1> HIDE DEF words
<1>3. /\ Len(words) = 3 /\ DOMAIN words = 1 .. 3 /\ Tail(words) = <<Word(p), Word(q)>>
      /\ words[1] = Word(program) /\ words[2] = Word(p) /\ words[3] = Word(q)
      /\ SubSeq(words, 1, 3) = words
  <2> DEFINE a == Word(program)
             b == Word(p)
             c == Word(q)
  <2> HIDE DEF a, b, c
  <2>1. words = <<a, b, c>>
    BY <1>1 DEF a, b, c
  <2>2. /\ Len(words) = 3 /\ DOMAIN words = 1 .. 3 /\ Tail(words) = <<b, c>>
        /\ words[1] = a /\ words[2] = b /\ words[3] = c /\ SubSeq(words, 1, 3) = words
    BY <2>1, Triple
  <2>. QED
    BY <2>2 DEF a, b, c
<1>4. \A i \in DOMAIN words : words[i].in = <<>>
  BY <1>2, <1>3
<1>5. Says(program, words)
  BY <1>2, <1>3, <1>4 DEF Says
<1>6. Command(Alone(words, FALSE)) = JudgeProgram(program, Tail(words), TRUE, FALSE)
  BY <1>5, PlainIsItsProgram, Zenon
<1>. QED
  BY <1>3, <1>6 DEF words

\* A delete and a move get one verdict, in a shell and in python.
LEMMA DeletedAndMovedAlike ==
  ASSUME NEW p, NEW q
  PROVE  /\ Python(Calls("os.remove", <<p>>)) = Command(Alone(Plain(<<"rm", p>>), FALSE))
         /\ Python(Calls("shutil.rmtree", <<p>>)) = Command(Alone(Plain(<<"rm", "-r", p>>), FALSE))
         /\ Python(Calls("shutil.move", <<p, q>>)) = Command(Alone(Plain(<<"mv", p, q>>), FALSE))
<1>1. \A a : [i \in DOMAIN <<Word(a)>> |-> <<Word(a)>>[i].w] = <<a>>
  BY DEF Word
<1>2. \A a, b : [i \in DOMAIN <<Word(a), Word(b)>> |-> <<Word(a), Word(b)>>[i].w] = <<a, b>>
  BY DEF Word
<1>3. Command(Alone(Plain(<<"rm", p>>), FALSE)) = JudgeRm(<<p>>)
  BY <1>1, OfOneArgument, RmAndMv, Zenon
<1>4. Command(Alone(Plain(<<"rm", "-r", p>>), FALSE)) = JudgeRm(<<"-r", p>>)
  <2> DEFINE args == <<Word("-r"), Word(p)>>
  <2>1. Command(Alone(Plain(<<"rm", "-r", p>>), FALSE)) = JudgeProgram("rm", args, TRUE, FALSE)
    BY OfTwoArguments
  <2>2. [i \in DOMAIN args |-> args[i].w] = <<"-r", p>>
    BY <1>2
  <2> HIDE DEF args
  <2>3. JudgeProgram("rm", args, TRUE, FALSE) = JudgeRm([i \in DOMAIN args |-> args[i].w])
    BY RmAndMv, Zenon
  <2>. QED
    BY <2>1, <2>2, <2>3, Zenon
<1>5. Command(Alone(Plain(<<"mv", p, q>>), FALSE)) = JudgeMove(<<p, q>>)
  <2> DEFINE args == <<Word(p), Word(q)>>
  <2>1. Command(Alone(Plain(<<"mv", p, q>>), FALSE)) = JudgeProgram("mv", args, TRUE, FALSE)
    BY OfTwoArguments
  <2>2. [i \in DOMAIN args |-> args[i].w] = <<p, q>>
    BY <1>2
  <2> HIDE DEF args
  <2>3. JudgeProgram("mv", args, TRUE, FALSE) = JudgeMove([i \in DOMAIN args |-> args[i].w])
    BY RmAndMv, Zenon
  <2>. QED
    BY <2>1, <2>2, <2>3, Zenon
<1>6. JudgeCall([f |-> "os.remove", arg |-> <<p>>]) = JudgeRm(<<p>>)
  BY DEF JudgeCall, PyRefused
<1>7. JudgeCall([f |-> "shutil.rmtree", arg |-> <<p>>]) = JudgeRm(<<"-r", p>>)
  <2>1. \A a, b : <<a>> \o <<b>> = <<a, b>>
    <3> TAKE a, b
    <3>1. <<a>> \o <<b>> = [i \in 1 .. 2 |-> IF i <= 1 THEN <<a>>[i] ELSE <<b>>[i - 1]]
      OBVIOUS
    <3>2. <<a, b>> = [i \in 1 .. 2 |-> IF i <= 1 THEN <<a>>[i] ELSE <<b>>[i - 1]]
      OBVIOUS
    <3>. QED
      BY <3>1, <3>2
  <2>2. JudgeCall([f |-> "shutil.rmtree", arg |-> <<p>>]) = JudgeRm(<<"-r">> \o <<p>>)
    BY DEF JudgeCall, PyRefused
  <2>. QED
    BY <2>1, <2>2
<1>8. JudgeCall([f |-> "shutil.move", arg |-> <<p, q>>]) = JudgeMove(<<p, q>>)
  <2>1. ~ (Len(<<p, q>>) < 2)
    OBVIOUS
  <2>. QED
    BY <2>1 DEF JudgeCall, PyRefused
<1>. QED
  BY <1>3, <1>4, <1>5, <1>6, <1>7, <1>8, OneCall

\* What os.system is given is judged as a line of a script.
LEMMA CalledAlike ==
  ASSUME NEW t, t # Empty
  PROVE  Python(Calls("os.system", <<t>>)) = Classify(t, FALSE, TRUE, FALSE)
<1>1. <<t>> \notin {<<>>, <<Empty>>} /\ <<t>>[1] = t
  OBVIOUS
<1>2. JudgeCall([f |-> "os.system", arg |-> <<t>>]) = Classify(t, FALSE, TRUE, FALSE)
  BY <1>1 DEF JudgeCall, PyRefused
<1>. QED
  BY <1>2, OneCall

\* Opened to be written at an absolute path a file gets the verdict that a step which writes it gets.
LEMMA WrittenAlike ==
  ASSUME NEW p, p \notin Relative
  PROVE  Python(Calls("open", <<p>>)) =
           JudgeStep([action |-> "write_file", path |-> p, body |-> <<>>, kind |-> "conf"])
<1> DEFINE step == [action |-> "write_file", path |-> p, body |-> <<>>, kind |-> "conf"]
<1>1. JudgeCall([f |-> "open", arg |-> <<p>>]) = JudgePath(p)
  <2>1. <<p>> # <<>> /\ <<p>>[1] = p
    OBVIOUS
  <2>. QED
    BY <2>1 DEF JudgeCall, JudgeWritten, PyRefused
<1>2. FileContent(<<>>, "conf") = "allow"
  BY DEF FileContent, FileLevel
<1>3. JudgeStep(step) = IF JudgePath(p) # "allow" THEN JudgePath(p) ELSE FileContent(<<>>, "conf")
  BY DEF JudgeStep
<1>. QED
  BY <1>1, <1>2, <1>3, OneCall

\* What is asked of one command, whatever it is: it is judged the same however it
\* is written down, and so is what is deleted, moved and written.
LEMMA CommandIsJudgedTheSame ==
  ASSUME NEW t \in ShallowTexts, t # Empty
  PROVE  /\ \A w \in Wrapped(t, FALSE) : Command(w) = Command(t)
         /\ \A w \in Wrapped(t, TRUE) : Command(w) = Command(Backgrounded(t))
         /\ ~ t.open => /\ Script(OneLine(t)).level = Command(t)
                        /\ Python(Calls("os.system", <<t>>)) = Command(t)
<1>1. ~ t.open => Classify(t, FALSE, TRUE, FALSE) = Command(t)
  BY QuotesDoNotMatter DEF Command
<1>2. Script(OneLine(t)).level = Classify(t, FALSE, TRUE, FALSE)
  BY OneLineIsItsText
<1>3. Python(Calls("os.system", <<t>>)) = Classify(t, FALSE, TRUE, FALSE)
  BY CalledAlike
<1>. QED
  BY <1>1, <1>2, <1>3, WrappedIsJudgedTheSame
-----------------------------------------------------------------------------
(***************************************************************************)
(* The specification.                                                      *)
(***************************************************************************)

\* What is asked is a command or a script, and the answer is the verdict on it.
Answered ==
  /\ \/ asked.kind = "run" /\ asked.text \in Texts
     \/ asked.kind = "script" /\ asked.body \in Bodies
  /\ verdict.level # "none" =>
       verdict = IF asked.kind = "run" THEN [level |-> Command(asked.text), line |-> 0]
                 ELSE Script(asked.body)

LEMMA AlwaysAnswered == Spec => []Answered
<1>1. Init => Answered
  BY DEF Init, Asking, Answered
<1>2. Answered /\ [Next]_vars => Answered'
  <2> SUFFICES ASSUME Answered, [Next]_vars
               PROVE  Answered'
    OBVIOUS
  <2>1. CASE Answer
    BY <2>1, Zenon DEF Answer, Answered
  <2>2. CASE UNCHANGED vars
    BY <2>2, Zenon DEF vars, Answered
  <2>. QED
    BY <2>1, <2>2 DEF Next
<1>. QED
  BY <1>1, <1>2, PTL DEF Spec

\* From the first line on are all the commands there are.
LEMMA StrictestOfAll ==
  ASSUME NEW body, Len(body) \in Nat, DOMAIN body = 1 .. Len(body), NEW level
  PROVE  AtFrom(body, 1, level) =
           {n \in {m \in DOMAIN body : Roles(body)[m].is = "start"} : level \in LevelsOf(body, n)}
BY DEF AtFrom

\* Of all the commands in a script and the files they write the strictest verdict
\* decides, and the line it names is the first that deserves it, however the
\* commands run on, nest their files and leave lines out: classify_script goes
\* through the lines once, and this is what it comes to.
THEOREM VerdictIsStrictest == Spec => []StrictestDecides
<1>1. Answered => StrictestDecides
  <2> SUFFICES ASSUME Answered, asked.kind = "script", verdict.level # "none"
               PROVE  verdict = Strictest(asked.body, 1)
    <3> DEFINE body   == asked.body
               starts == {n \in DOMAIN body : Roles(body)[n].is = "start"}
               at(l)  == {n \in starts : l \in LevelsOf(body, n)}
    <3>1. ASSUME Answered, asked.kind = "script"
          PROVE  \A l : AtFrom(body, 1, l) = at(l)
      <4>1. body \in Seq(Lines)
        BY <3>1, AskedAssumption DEF Answered
      <4>2. Len(body) \in Nat /\ DOMAIN body = 1 .. Len(body)
        BY <4>1, SeqHasLength, Zenon
      <4>. QED
        BY <4>2, StrictestOfAll
    <3>2. Answered /\ asked.kind = "script" =>
            /\ AtFrom(body, 1, "block") = at("block")
            /\ AtFrom(body, 1, "confirm") = at("confirm")
      BY <3>1
    <3>. QED
      BY <3>2, Zenon DEF StrictestDecides, Strictest, StrictestOf
  <2>1. asked.body \in Seq(Lines)
    BY AskedAssumption DEF Answered
  <2>2. Len(asked.body) \in Nat /\ DOMAIN asked.body = 1 .. Len(asked.body)
    BY <2>1, SeqHasLength, Zenon
  <2>3. verdict = Script(asked.body)
    BY DEF Answered
  <2>4. Scripted(asked.body)
    <3> DEFINE body == asked.body
    <3>1. \A i \in 1 .. Len(body) : body[i] \in Lines
      <4>1. body \in Seq(Lines)
        BY <2>1
      <4> HIDE DEF body
      <4>. QED
        BY <2>2, <4>1, RestIsSeq
    <3>2. \A line \in Lines : line.docs \in Seq(Heredocs)
      BY DEF Lines
    <3> HIDE DEF body
    <3>3. Scripted(body)
      BY <3>1, <3>2 DEF Scripted
    <3>. QED
      BY <3>3 DEF body
  <2>. QED
    BY <2>2, <2>3, <2>4, ScriptIsStrictest
<1>. QED
  BY <1>1, AlwaysAnswered, PTL

\* The verdict is on what is done and not on how it is written down: whatever a
\* command is, short of nothing at all, it is judged the same on its own, given to a
\* shell or to su, in the background too, as a script and as a call of a python
\* script; and so are a delete and a move of every path and a write to every
\* absolute one. This is classify looking into what a shell is handed, three shells
\* deep.
THEOREM VerdictIsOnWhatIsDone == Spec => []JudgedTheSame
<1>1. Answered => JudgedTheSame
  <2> SUFFICES ASSUME Answered, asked.kind = "run", asked.text # Empty, verdict.level # "none"
               PROVE  JudgedTheSame
    BY Zenon DEF JudgedTheSame
  <2>1. asked.text \in ShallowTexts
    BY AskedAssumption DEF Answered
  <2>2. verdict.level = Command(asked.text)
    BY DEF Answered
  <2>3. /\ \A w \in Wrapped(asked.text, FALSE) : Command(w) = verdict.level
        /\ \A w \in Wrapped(asked.text, TRUE) : Command(w) = Command(Backgrounded(asked.text))
        /\ ~ asked.text.open => /\ Script(OneLine(asked.text)).level = verdict.level
                                /\ Python(Calls("os.system", <<asked.text>>)) = verdict.level
    BY <2>1, <2>2, CommandIsJudgedTheSame
  <2>4. \A p, q \in Paths :
          /\ Python(Calls("os.remove", <<p>>)) = Command(Alone(Plain(<<"rm", p>>), FALSE))
          /\ Python(Calls("shutil.rmtree", <<p>>)) = Command(Alone(Plain(<<"rm", "-r", p>>), FALSE))
          /\ Python(Calls("shutil.move", <<p, q>>)) = Command(Alone(Plain(<<"mv", p, q>>), FALSE))
          /\ p \notin Relative =>
               Python(Calls("open", <<p>>)) =
                 JudgeStep([action |-> "write_file", path |-> p, body |-> <<>>, kind |-> "conf"])
    BY DeletedAndMovedAlike, WrittenAlike
  <2>. QED
    BY <2>3, <2>4, Zenon DEF JudgedTheSame
<1>. QED
  BY <1>1, AlwaysAnswered, PTL
=============================================================================
