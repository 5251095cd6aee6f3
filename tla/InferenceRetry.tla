---------------------------- MODULE InferenceRetry ----------------------------
(***************************************************************************)
(* One request to the gateway: InferenceClient._create of                  *)
(* do_dba/inference/client.py with _rate_limit_pause, _wanted_pause,       *)
(* _diagnose_bad_request and _apply_fix.                                   *)
(*                                                                         *)
(* The gateway may refuse a parameter, ask for a wait, have unloaded the   *)
(* model, or answer with something that is not a reply.  Each is retried,  *)
(* from an allowance of its own, inside one loop with a bound of its own.  *)
(*                                                                         *)
(* What is abstracted: a complaint is the set of parameter names it        *)
(* mentions; time is counted in whole units of an arbitrary length; the    *)
(* SDK's own quick retries happen inside one request.                      *)
(***************************************************************************)
EXTENDS Naturals, Sequences, FiniteSets

CONSTANTS
  Budget,      \* rate_limit_budget, per request
  MinPause,    \* _MIN_RATE_LIMIT_PAUSE
  Backoff,     \* _RATE_LIMIT_BACKOFF
  RetryAfters, \* what a Retry-After header may ask for
  Complaints,  \* the sets of parameters the text of one 400 may mention
  MaxGarbled   \* _MAX_GARBLED_RETRIES

Extras     == {"usage", "reasoning"}
TopLevel   == {"temperature", "top_p", "stream_options"}
Adjustable == {"max_tokens"} \cup Extras \cup TopLevel

ASSUME RetryAssumption ==
  /\ Budget \in Nat
  /\ MinPause \in Nat \ {0}
  /\ Backoff \in Seq(Nat)
  /\ Backoff # <<>>
  /\ RetryAfters \subseteq Nat
  /\ Complaints \subseteq SUBSET Adjustable
  /\ MaxGarbled \in Nat

VARIABLES
  sent,    \* the parameters the request was first sent with
  params,  \* those it is sent with now
  named,   \* those some complaint has mentioned
  fixed,   \* already_fixed
  waits,   \* how many rate limits were waited out
  waited,  \* and for how long
  garbled, \* unreadable replies asked about again
  tries,   \* turns of the loop taken
  wanted,  \* the wait that did not fit, once the request was given up over it
  outcome  \* "sending", then how the request ended

requestVars == <<sent, params, named, fixed, waits, waited, garbled, tries, wanted, outcome>>

-----------------------------------------------------------------------------
\* The order a complaint is read in; "max_tokens" stands for a mention of its new name.
Rank ==
  [max_tokens |-> 1, usage |-> 2, reasoning |-> 3,
   temperature |-> 4, top_p |-> 5, stream_options |-> 6]

\* The bound of the loop: as many 429s as the budget could pay for and one that it
\* cannot, one turn for each parameter to drop, three more, and the unreadable replies.
RateLimitAttempts == Budget \div MinPause + 1

\* Not the code: a bound that leaves the waits out.
TurnsWithoutWaits == 3 + 2 + 3 + MaxGarbled

MostTurns == 3 + 2 + 3 + RateLimitAttempts + MaxGarbled

\* What the next wait would be: what a header asks for or the schedule, never below the floor.
Scheduled(waitsSoFar) ==
  Backoff[IF waitsSoFar < Len(Backoff) THEN waitsSoFar + 1 ELSE Len(Backoff)]

Pauses(waitsSoFar) ==
  {IF asked >= MinPause THEN asked ELSE MinPause :
     asked \in RetryAfters \cup {Scheduled(waitsSoFar)}}

\* Not the code: the time already waited is left out of what remains.
FitsBudgetAlone(pause) == pause <= Budget

FitsBudget(pause) == waited < Budget /\ pause <= Budget - waited

\* Not the code: the extensions travel in one body, and go with it.
FixingTheBody(p) == IF p \in Extras THEN params \ Extras ELSE params \ {p}

Fixing(p) == params \ {p}

\* What a complaint leaves to try: the parameters it names that are still in the request.
Adjustments(mentioned) == (mentioned \cap params) \ fixed

End(how) ==
  /\ outcome' = how
  /\ UNCHANGED <<params, fixed, waits, waited, garbled>>

-----------------------------------------------------------------------------
RequestInit ==
  /\ sent \in SUBSET Adjustable
  /\ params = sent
  /\ named = {}
  /\ fixed = {}
  /\ waits = 0
  /\ waited = 0
  /\ garbled = 0
  /\ tries = 0
  /\ wanted = 0
  /\ outcome = "sending"

\* One more turn of the loop: the request goes out.
Send ==
  /\ outcome = "sending"
  /\ tries < MostTurns
  /\ tries' = tries + 1
  /\ UNCHANGED sent

Replied ==
  /\ Send
  /\ End("replied")
  /\ UNCHANGED <<named, wanted>>

\* A credential refused, silence past the read timeout, no connection, or a status
\* nothing can be done about.
Fails ==
  /\ Send
  /\ End("failed")
  /\ UNCHANGED <<named, wanted>>

WaitOut(pause) ==
  /\ Send
  /\ FitsBudget(pause)
  /\ waits' = waits + 1
  /\ waited' = waited + pause
  /\ UNCHANGED <<params, named, fixed, garbled, wanted, outcome>>

GiveUpWaiting(pause) ==
  /\ Send
  /\ ~FitsBudget(pause)
  /\ wanted' = pause
  /\ End("rate_limited")
  /\ UNCHANGED named

\* Asked again unchanged, once: the server has to load the model.
Reload ==
  /\ Send
  /\ "unloaded" \notin fixed
  /\ fixed' = fixed \cup {"unloaded"}
  /\ UNCHANGED <<params, named, waits, waited, garbled, wanted, outcome>>

\* A complaint naming some parameters: the first of those still in the request is
\* dropped, or renamed; where there is none, the complaint stands.  A second "unloaded"
\* is such a complaint.
Adjust(mentioned, p) ==
  /\ Send
  /\ p \in Adjustments(mentioned)
  /\ \A o \in Adjustments(mentioned) : Rank[p] <= Rank[o]
  /\ named' = named \cup mentioned
  /\ fixed' = fixed \cup {p}
  /\ params' = Fixing(p)
  /\ UNCHANGED <<waits, waited, garbled, wanted, outcome>>

Refused(mentioned) ==
  /\ Send
  /\ Adjustments(mentioned) = {}
  /\ named' = named \cup mentioned
  /\ End("refused")
  /\ UNCHANGED wanted

\* Not the code: unreadable replies are asked about until the loop's bound.
AskAgainAlways ==
  /\ Send
  /\ garbled' = garbled + 1
  /\ UNCHANGED <<params, named, fixed, waits, waited, wanted, outcome>>

AskAgain ==
  /\ Send
  /\ garbled < MaxGarbled
  /\ garbled' = garbled + 1
  /\ UNCHANGED <<params, named, fixed, waits, waited, wanted, outcome>>

GiveUpReading ==
  /\ Send
  /\ garbled >= MaxGarbled
  /\ End("garbled")
  /\ UNCHANGED <<named, wanted>>

\* The request is over.
Over ==
  /\ outcome # "sending"
  /\ UNCHANGED requestVars

\* The loop's own end, "Gave up after repeatedly adjusting request parameters", is not
\* here: LoopNeverRunsOut says a request still being sent has a turn left.
RequestNext ==
  \/ Replied
  \/ Fails
  \/ \E pause \in Pauses(waits) : WaitOut(pause)
  \/ \E pause \in Pauses(waits) : GiveUpWaiting(pause)
  \/ Reload
  \/ \E mentioned \in Complaints, p \in Adjustable : Adjust(mentioned, p)
  \/ \E mentioned \in Complaints : Refused(mentioned)
  \/ AskAgain
  \/ GiveUpReading
  \/ Over

RequestSpec == RequestInit /\ [][RequestNext]_requestVars

-----------------------------------------------------------------------------
(***************************************************************************)
(* Properties.                                                             *)
(***************************************************************************)
Outcomes == {"sending", "replied", "failed", "rate_limited", "refused", "garbled"}

\* Every variable keeps its type.
TypeOK ==
  /\ sent \subseteq Adjustable
  /\ params \subseteq sent
  /\ named \subseteq Adjustable
  /\ fixed \subseteq Adjustable \cup {"unloaded"}
  /\ waits \in Nat
  /\ waited \in Nat
  /\ garbled \in 0 .. MaxGarbled
  /\ tries \in 0 .. MostTurns
  /\ wanted \in Nat
  /\ outcome \in Outcomes

\* The loop's bound is never what ends a request: with every allowance spent, what is
\* left droppable or not, there is still a turn to ask in. (The range of _create's loop
\* against what its clauses may consume between them.)
LoopNeverRunsOut == outcome = "sending" => tries < MostTurns

\* The budget is the only bound on the waiting: it is never overdrawn, and a request is
\* given up over a rate limit only when the next wait would overdraw it.
\* (_rate_limit_pause.)
BudgetDecides ==
  /\ waited <= Budget
  /\ outcome = "rate_limited" => waited + wanted > Budget

\* A request loses a parameter only to a complaint that named it: the other extension
\* stays. (_diagnose_bad_request and _apply_fix.)
OnlyRefusedDropped == sent \ params \subseteq named
=============================================================================
