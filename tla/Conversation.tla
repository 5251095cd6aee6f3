------------------------------ MODULE Conversation ------------------------------
(* The messages that a run sends with every request, and what is cut out of     *)
(* them so that they keep fitting the model's context window: DBAAgent._observe, *)
(* _compact, _stub and _relieve, with the limits that Limits.for_window derives  *)
(* from the window.                                                              *)
(*                                                                               *)
(* A message is its length in characters; what it says is left out.              *)
EXTENDS Integers, Sequences, FiniteSets

CONSTANTS
  Windows,      \* what the gateway may say of the window; 0 when it says nothing
  KeepFull,     \* keep_full_observations
  SystemChars,  \* the system prompt
  ReplySizes,   \* replies of the model
  Results,      \* what steps print: pairs of stdout and stderr
  NoteSizes,    \* observations that are not results: complaints, failed checks
  MaxTurns      \* bound on the replies of a run

ASSUME ConversationAssumption ==
  /\ Windows \subseteq Nat
  /\ KeepFull \in Nat \ {0}
  /\ SystemChars \in Nat
  /\ ReplySizes \subseteq Nat
  /\ Results \subseteq Nat \X Nat
  /\ NoteSizes \subseteq Nat
  /\ MaxTurns \in Nat

VARIABLES
  window,     \* limits.context_window
  messages,   \* self.messages
  pc          \* "ask": a request is about to be sent; "observe": a reply came
vars == <<window, messages, pc>>

---------------------------------------------------------------------------------
(* The arithmetic of the window.                                                 *)

AtMost(a, b)  == IF a < b THEN a ELSE b
AtLeast(a, b) == IF a > b THEN a ELSE b

\* int(len / 2.5) + 1
Tokens(chars) == (2 * chars) \div 5 + 1

\* A window too small to plan against counts as none.
WindowOf(said) == IF said < 8192 THEN 0 ELSE said

MaxReply  == AtLeast(1024, AtMost(16384, window \div 8))
History   == IF window = 0 THEN 0 ELSE AtLeast(0, window - MaxReply - 4096) \div 2
OutputCap == IF window = 0 THEN 3000
             ELSE AtMost(8000, AtLeast(1200, (5 * window) \div 100))
Ceiling   == (85 * (window - MaxReply)) \div 100

---------------------------------------------------------------------------------
(* Trimming.                                                                     *)

StubChars == 400
MarkChars == 29        \* "... [earlier output trimmed]"

Message(role, chars) == [role |-> role, chars |-> chars, cut |-> FALSE]

Stub(m) == IF m.chars <= StubChars \/ m.cut
           THEN m
           ELSE [m EXCEPT !.chars = StubChars + MarkChars, !.cut = TRUE]

Stubbed(ms, is) == [i \in DOMAIN ms |-> IF i \in is THEN Stub(ms[i]) ELSE ms[i]]

Of(role, ms)  == {i \in DOMAIN ms : ms[i].role = role}
Price(is, ms, i) == IF i \in is THEN Tokens(ms[i].chars) ELSE 0
Cost(is, ms)  ==
  LET spent[i \in 0 .. Len(ms)] == IF i = 0 THEN 0 ELSE spent[i - 1] + Price(is, ms, i)
  IN spent[Len(ms)]
Total(ms)     == Cost(DOMAIN ms, ms)
Newest(n, is) == {i \in is : Cardinality({j \in is : j > i}) < n}

\* Not the code: each result is weighed on its own, and a short old one is kept
\* behind a long one that was cut.
StaleByItself(ms) ==
  LET results == Of("observation", ms)
      f[i \in 0..Len(ms)] ==
        IF i = 0 THEN [spent |-> 0, stale |-> {}]
        ELSE LET at   == Len(ms) + 1 - i
                 cost == Tokens(ms[at].chars)
             IN IF at \notin results THEN f[i - 1]
                ELSE IF f[i - 1].spent + cost <= History \/ at \in Newest(1, results)
                     THEN [f[i - 1] EXCEPT !.spent = @ + cost]
                     ELSE [f[i - 1] EXCEPT !.stale = @ \union {at}]
  IN IF History > 0 THEN f[Len(ms)].stale ELSE results \ Newest(KeepFull, results)


\* Newest first, results stay whole until they fill the budget; the first that
\* does not fit goes, and all that are older go with it. The newest is exempt.
Stale(ms) ==
  LET results == Of("observation", ms)
      after(i) == {j \in results : j >= i}
      fits(i)  == i \in Newest(1, results) \/ Cost(after(i), ms) <= History
  IN IF History > 0
     THEN {i \in results : \E j \in after(i) : ~fits(j)}
     ELSE results \ Newest(KeepFull, results)

\* Not the code: only the last turn is spared.
SparedOne(ms) == Newest(1, Of("assistant", ms))


\* Past the ceiling, the model's own turns go as well, oldest first, until the
\* prompt fits; the last two are spared.
Spared(ms) == Newest(2, Of("assistant", ms))

Relieve(ms) ==
  LET turns   == Of("assistant", ms) \ Spared(ms)
      fits(i) == Total(Stubbed(ms, {j \in turns : j < i})) <= Ceiling
  IN IF window = 0 THEN ms
     ELSE Stubbed(ms, {j \in turns : \A i \in turns : i <= j => ~fits(i)})

\* Not the code: with no result to trim there is nothing to do.
CompactIfStale(ms) == IF Stale(ms) = {} THEN ms ELSE Relieve(Stubbed(ms, Stale(ms)))

Compact(ms) == Relieve(Stubbed(ms, Stale(ms)))

---------------------------------------------------------------------------------
(* The conversation.                                                             *)

\* The head and the tail of a stream that is longer than a result may be.
Capped(chars) ==
  IF chars <= OutputCap THEN chars
  ELSE OutputCap \div 3 + (2 * OutputCap) \div 3 + 31

HeaderChars == 60
ResultChars(r) == HeaderChars + Capped(r[1]) + Capped(r[2])

Init ==
  /\ \E said \in Windows : window = WindowOf(said)
  /\ messages = <<Message("system", SystemChars), Message("user", 29)>>
  /\ pc = "ask"

Turns == Cardinality(Of("assistant", messages))

\* A reply arrives and is kept, whatever it holds.
Reply ==
  /\ pc = "ask"
  /\ Turns < MaxTurns
  /\ \E n \in ReplySizes : messages' = Append(messages, Message("assistant", n))
  /\ pc' = "observe"
  /\ UNCHANGED window

Observe(chars) ==
  /\ pc = "observe"
  /\ messages' = Compact(Append(messages, Message("observation", chars)))
  /\ pc' = "ask"
  /\ UNCHANGED window

\* A step ran and is shown to the model.
ShowResult == \E r \in Results : Observe(ResultChars(r))

\* An unreadable or cut off reply, a blocked or declined step, a claim handed back.
Complain == \E n \in NoteSizes : Observe(n)

\* The step ends the run.
Finish == pc = "observe" /\ pc' = "finished" /\ UNCHANGED <<window, messages>>

\* The gateway answers no request any more, or a cap is reached.
GiveUp == pc = "ask" /\ pc' = "finished" /\ UNCHANGED <<window, messages>>

Next == Reply \/ ShowResult \/ Complain \/ Finish \/ GiveUp

Spec == Init /\ [][Next]_vars

---------------------------------------------------------------------------------
(* Properties.                                                                   *)

LastTwoTurns == Newest(2, Of("assistant", messages))

Whole(is) == \A i \in is : ~messages[i].cut

\* When the model is asked, it is shown in full what the next step answers to: the
\* newest observation, whatever it costs, and the last two of its own turns,
\* however close the window is.
WhatComesLastIsWhole ==
  /\ Whole(Newest(1, Of("observation", messages)))
  /\ Whole(LastTwoTurns)

\* History is forgotten from its far end: nothing that was cut has anything older
\* of its kind that is still whole, but for what is too short to be cut.
CutOldestFirst ==
  \A role \in {"observation", "assistant"} :
    \A i, j \in Of(role, messages) :
      i < j /\ messages[j].cut => messages[i].cut \/ messages[i].chars <= StubChars

\* A request fits: the results shown whole, the newest aside, fill no more than their
\* half of the window, and the prompt is under the ceiling unless each of the
\* model's turns that may be cut has been. What is added after the trimming, or
\* counted before it, would send a prompt that the gateway refuses.
PromptFits ==
  pc = "ask" /\ window > 0 =>
    LET results == Of("observation", messages)
        whole   == {i \in results : ~messages[i].cut /\ messages[i].chars > StubChars}
        older   == Of("assistant", messages) \ LastTwoTurns
    IN /\ whole \subseteq Newest(1, results) \/ Cost(whole, messages) <= History
       /\ \/ Total(messages) <= Ceiling
          \/ \A i \in older : messages[i].cut \/ messages[i].chars <= StubChars

\* "Cut one message down to its opening lines": a message that is trimmed takes less
\* room than it did. (It does not hold of a message of 401 to 428 characters.)
CutIsShorter ==
  [][\A i \in DOMAIN messages :
       messages'[i].cut => messages'[i].chars <= messages[i].chars]_vars

=================================================================================
