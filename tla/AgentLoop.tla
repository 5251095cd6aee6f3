------------------------------ MODULE AgentLoop ------------------------------
(***************************************************************************)
(* The agent loop of do-dba: DBAAgent.run in do_dba/agent.py with the      *)
(* helpers it calls (_next_step, _ask, _judge, _execute, _verify, _finish) *)
(* and the approval prompt of do_dba/cli.py.                               *)
(*                                                                         *)
(* A model behind a gateway proposes one step per reply.  The loop judges  *)
(* it, asks the operator where the guard says so, runs it on one server,   *)
(* and believes "done" only after re-running the checks itself.            *)
(*                                                                         *)
(* What is abstracted:                                                     *)
(*  - A command, a script body and a file write are one kind of "work":    *)
(*    the loop treats the three alike once _judge has given the verdict,   *)
(*    and Verdict is that classification.                                  *)
(*  - The text of messages, and their trimming, are left out.              *)
(*  - The checks of one verification are made in any order; the loop looks *)
(*    at their results only when all of them are in.                       *)
(*  - Money is counted in whole units of an arbitrary size.                *)
(***************************************************************************)
EXTENDS Naturals, Sequences, FiniteSets

CONSTANTS
  Hosts,              \* the servers of the fleet
  AllHosts,           \* the scope of a VERIFY line that names no server
  Commands,           \* what may be run, as work or as a check
  Verdict,            \* the guard: [Commands -> {"allow", "confirm", "block"}]
  Standing,           \* the harness's own checks (DEFAULT_VERIFICATIONS)
  VerifySets,         \* the sets of VERIFY lines a done step may carry
  MaxSteps,           \* Limits.max_steps
  MaxProtocolRetries, \* Limits.max_protocol_retries
  MaxDoneRejections,  \* Limits.max_done_rejections
  MaxFailures,        \* Limits.max_consecutive_failures
  MaxRejections,      \* the literal 3 of the blocked branch
  MaxCost,            \* Limits.max_cost, where a cap is set
  ReplyCosts,         \* what one reply may cost
  MaxReplyCost,       \* the dearest of them
  Options             \* the settings a run may be started with

Check == [scope : Hosts \cup {AllHosts}, command : Commands]

Option == [dry      : BOOLEAN,               \* --dry-run
           stepwise : BOOLEAN,               \* --mode step
           keep     : BOOLEAN,               \* persist is given
           capped   : BOOLEAN,               \* --max-cost is given
           answers  : {{TRUE}, {FALSE}, BOOLEAN}] \* a switch, no terminal, a person

ASSUME FleetAssumption ==
  /\ Hosts # {}
  /\ AllHosts \notin Hosts
  /\ Verdict \in [Commands -> {"allow", "confirm", "block"}]
  /\ Standing \subseteq Commands
  /\ VerifySets \subseteq SUBSET Check

\* A fleet is listed in a file, and a step carries the VERIFY lines one reply has.
ASSUME PlanAssumption ==
  /\ IsFiniteSet(Hosts)
  /\ IsFiniteSet(Standing)
  /\ \A checks \in VerifySets : IsFiniteSet(checks)

ASSUME LimitAssumption ==
  /\ MaxSteps \in Nat \ {0}          \* cli: max(1, args.max_steps)
  /\ MaxProtocolRetries \in Nat
  /\ MaxDoneRejections \in Nat
  /\ MaxFailures \in Nat \ {0}
  /\ MaxRejections \in Nat \ {0}
  /\ MaxCost \in Nat
  /\ MaxReplyCost \in Nat
  /\ ReplyCosts \subseteq 0 .. MaxReplyCost
  /\ Options \subseteq Option

VARIABLES
  opts,           \* the settings of this run, fixed when it starts
  pc,             \* where the loop is
  index,          \* the number of the step in hand
  attempt,        \* replies already refused while asking for this step
  step,           \* the step the last usable reply carried
  result,         \* how the step that just ran came back
  results,        \* record.verifications: the latest attempt, check by check
  log,            \* record.steps: what became of each step, in order
  granted,        \* the steps the operator said yes to, by number
  ran,            \* the work that reached a server, by step number
  failures,       \* consecutive_failures
  rejections,     \* consecutive_rejections
  doneRejections, \* done_rejections
  executed,       \* the count the outcome reports
  cost,           \* what the run has spent
  costComplete,   \* FALSE once a reply could not be priced
  unsaved,        \* store.unsaved: a credential no server has been told about
  outcome         \* the Outcome returned, or NoOutcome

counters == <<failures, rejections, doneRejections, executed>>
money    == <<cost, costComplete>>
vars == <<opts, pc, index, attempt, step, result, results, log, granted, ran,
          counters, money, unsaved, outcome>>

-----------------------------------------------------------------------------
WorkStep  == [action : {"work"}, host : Hosts, command : Commands]
DoneStep  == [action : {"done"}, verify : VerifySets]
AbortStep == [action : {"abort"}]
NoStep    == [action |-> "none"]
Step      == WorkStep \cup DoneStep \cup AbortStep

Fate == {"blocked", "declined", "dry", "ok", "failed", "closed_pipe",
         "handed_back", "accepted", "aborted"}

StepResult  == {"ok", "failed", "closed_pipe"}
CheckResult == {"passed", "failed", "unusable", "unreachable"}

\* Why a run ended, next to the status it ended with: the summary's first words.
Reason == {"steps", "cost", "gateway", "unusable", "abort", "claim", "blocked",
           "ssh", "thrash"}
Status == {"done", "unverified", "aborted", "exhausted", "failed",
           "api-error", "stuck"}

NoOutcome == [status |-> "running", reason |-> "none", steps |-> 0, executed |-> 0]

\* Not the code: standing checks only where the claim itself looks.
PlanOfTheClaim(checks) ==
  {p \in Hosts \X Commands :
     \E k \in checks :
       (k.command = p[2] \/ p[2] \in Standing) /\ k.scope \in {p[1], AllHosts}}

\* The servers and commands one done step has checked: every standing check on
\* every server, and each VERIFY line where it is scoped, or everywhere.
PlanOf(checks) ==
  {p \in Hosts \X Commands :
     \/ p[2] \in Standing
     \/ \E k \in checks : k.command = p[2] /\ k.scope \in {p[1], AllHosts}}

Pending  == {p \in DOMAIN results : results[p] = "pending"}
\* Not the code: a check that says nothing passes for one that passed.
BrokenIfAnswered == \E p \in DOMAIN results : results[p] \in {"failed", "unreachable"}
Broken   == \E p \in DOMAIN results : results[p] \in {"failed", "unusable", "unreachable"}
Unproven == step.verify = {} /\ ~opts.dry

\* Not the code: a yes to a command is a yes to it from then on.
NeedsApprovalOnce(c) ==
  (Verdict[c] = "confirm" \/ opts.stepwise) /\ ~ \E w \in granted : w[3] = c

\* The flagged steps always ask; --mode step asks about the others too.
NeedsApproval(c) == Verdict[c] = "confirm" \/ opts.stepwise

ThisStep == <<index, step.host, step.command>>

Finish(status, reason, steps, count) ==
  /\ pc' = "finished"
  /\ outcome' = [status |-> status, reason |-> reason, steps |-> steps, executed |-> count]
  /\ UNCHANGED index

NextIndex ==
  /\ pc' = "top"
  /\ index' = index + 1
  /\ UNCHANGED outcome

-----------------------------------------------------------------------------
Init ==
  /\ opts \in Options
  /\ pc = "top"
  /\ index = 1
  /\ attempt = 0
  /\ step = NoStep
  /\ result = "none"
  /\ results = [p \in {} |-> "pending"]
  /\ log = <<>>
  /\ granted = {}
  /\ ran = {}
  /\ failures = 0
  /\ rejections = 0
  /\ doneRejections = 0
  /\ executed = 0
  /\ cost = 0
  /\ costComplete = TRUE
  /\ unsaved = FALSE
  /\ outcome = NoOutcome

(***************************************************************************)
(* The top of the loop.                                                    *)
(***************************************************************************)
StopAtStepLimit ==
  /\ pc = "top"
  /\ index > MaxSteps
  /\ Finish("exhausted", "steps", MaxSteps, executed)
  /\ UNCHANGED <<opts, attempt, step, result, results, log, granted, ran, counters,
                 money, unsaved>>

\* Not the code: a total that is short is not held against the cap.
CapReachedIfPriced == opts.capped /\ costComplete /\ cost >= MaxCost

CapReached == opts.capped /\ cost >= MaxCost

StopAtCostCap ==
  /\ pc = "top"
  /\ index <= MaxSteps
  /\ CapReached
  /\ Finish("exhausted", "cost", index - 1, executed)
  /\ UNCHANGED <<opts, attempt, step, result, results, log, granted, ran, counters,
                 money, unsaved>>

BeginStep ==
  /\ pc = "top"
  /\ index <= MaxSteps
  /\ ~CapReached
  /\ pc' = "ask"
  /\ attempt' = 0
  /\ UNCHANGED <<opts, index, step, result, results, log, granted, ran, counters,
                 money, unsaved, outcome>>

(***************************************************************************)
(* Asking the gateway.  Every reply that arrives is charged, usable or not;*)
(* one nobody can price leaves the total short and says so, and one that   *)
(* came without a usage figure counts for nothing.                         *)
(***************************************************************************)
Charge ==
  \/ \E c \in ReplyCosts : cost' = cost + c /\ UNCHANGED costComplete
  \/ costComplete' = FALSE /\ UNCHANGED cost
  \/ UNCHANGED money

GatewayFails ==
  /\ pc = "ask"
  /\ Finish("api-error", "gateway", index - 1, executed)
  /\ UNCHANGED <<opts, attempt, step, result, results, log, granted, ran, counters,
                 money, unsaved>>

\* Cut off at the output limit, or not readable as a step: asked again.
UnusableReply ==
  /\ pc = "ask"
  /\ Charge
  /\ IF attempt < MaxProtocolRetries
     THEN /\ attempt' = attempt + 1
          /\ UNCHANGED <<pc, index, outcome>>
     ELSE /\ Finish("failed", "unusable", index - 1, executed)
          /\ UNCHANGED attempt
  /\ UNCHANGED <<opts, step, result, results, log, granted, ran, counters, unsaved>>

UsableReply(s) ==
  /\ pc = "ask"
  /\ Charge
  /\ step' = s
  /\ pc' = "judge"
  /\ UNCHANGED <<opts, index, attempt, result, results, log, granted, ran, counters,
                 unsaved, outcome>>

(***************************************************************************)
(* Abort and done.                                                         *)
(***************************************************************************)
Abort ==
  /\ pc = "judge"
  /\ step.action = "abort"
  /\ log' = Append(log, "aborted")
  /\ Finish("aborted", "abort", index, executed)
  /\ UNCHANGED <<opts, attempt, step, result, results, granted, ran, counters,
                 money, unsaved>>

\* A dry run returns before it forgets the last verification, and makes no check.
StartChecks ==
  /\ pc = "judge"
  /\ step.action = "done"
  /\ IF opts.dry
     THEN UNCHANGED results
     ELSE results' = [p \in PlanOf(step.verify) |-> "pending"]
  /\ pc' = "verify"
  /\ UNCHANGED <<opts, index, attempt, step, result, log, granted, ran, counters,
                 money, unsaved, outcome>>

\* Not the code: a check that is not made keeps its place in the plan.
SkipCheckForNow(p) ==
  /\ pc = "verify"
  /\ p \in Pending
  /\ Verdict[p[2]] # "allow"
  /\ UNCHANGED vars

\* A check the guard does not allow is not made, and is not held against the work.
SkipCheck(p) ==
  /\ pc = "verify"
  /\ p \in Pending
  /\ Verdict[p[2]] # "allow"
  /\ results' = [results EXCEPT ![p] = "skipped"]
  /\ UNCHANGED <<opts, pc, index, attempt, step, result, log, granted, ran, counters,
                 money, unsaved, outcome>>

\* Resolving the check's placeholders may bring a credential into being.
MakeCheck(p) ==
  /\ pc = "verify"
  /\ p \in Pending
  /\ Verdict[p[2]] = "allow"
  /\ \E r \in CheckResult : results' = [results EXCEPT ![p] = r]
  /\ unsaved' \in {unsaved, TRUE}
  /\ UNCHANGED <<opts, pc, index, attempt, step, result, log, granted, ran, counters,
                 money, outcome>>

\* Not the code: hand back for as long as the checks fail.
ClaimRefusedForEver == Broken \/ Unproven

ClaimRefused == (Broken \/ Unproven) /\ doneRejections < MaxDoneRejections

\* Not the code: a hand-back that leaves no record of the step.
HandBackUnrecorded ==
  /\ pc = "verify"
  /\ Pending = {}
  /\ ClaimRefused
  /\ doneRejections' = doneRejections + 1
  /\ NextIndex
  /\ UNCHANGED <<opts, attempt, step, result, results, log, granted, ran, failures,
                 rejections, executed, money, unsaved>>

HandBackClaim ==
  /\ pc = "verify"
  /\ Pending = {}
  /\ ClaimRefused
  /\ doneRejections' = doneRejections + 1
  /\ log' = Append(log, "handed_back")
  /\ NextIndex
  /\ UNCHANGED <<opts, attempt, step, result, results, granted, ran, failures,
                 rejections, executed, money, unsaved>>

SettleClaim ==
  /\ pc = "verify"
  /\ Pending = {}
  /\ ~ClaimRefused
  /\ log' = Append(log, "accepted")
  /\ Finish(IF Broken \/ Unproven THEN "unverified" ELSE "done", "claim", index, executed)
  /\ UNCHANGED <<opts, attempt, step, result, results, granted, ran, counters,
                 money, unsaved>>

(***************************************************************************)
(* Work: judged, then asked about, then run.                               *)
(***************************************************************************)
BlockWork ==
  /\ pc = "judge"
  /\ step.action = "work"
  /\ Verdict[step.command] = "block"
  /\ rejections' = rejections + 1
  /\ log' = Append(log, "blocked")
  /\ IF rejections + 1 >= MaxRejections
     THEN Finish("stuck", "blocked", index, executed)
     ELSE NextIndex
  /\ UNCHANGED <<opts, attempt, step, result, results, granted, ran, failures,
                 doneRejections, executed, money, unsaved>>

\* Not the code: a step the operator declined leaves the count of blocked ones alone.
DeclineUncounted ==
  /\ pc = "judge"
  /\ step.action = "work"
  /\ Verdict[step.command] # "block"
  /\ NeedsApproval(step.command)
  /\ FALSE \in opts.answers
  /\ log' = Append(log, "declined")
  /\ NextIndex
  /\ UNCHANGED <<opts, attempt, step, result, results, granted, ran, counters,
                 money, unsaved>>

DeclineWork ==
  /\ pc = "judge"
  /\ step.action = "work"
  /\ Verdict[step.command] # "block"
  /\ NeedsApproval(step.command)
  /\ FALSE \in opts.answers
  /\ rejections' = 0
  /\ log' = Append(log, "declined")
  /\ NextIndex
  /\ UNCHANGED <<opts, attempt, step, result, results, granted, ran, failures,
                 doneRejections, executed, money, unsaved>>

\* Past the guard and, where it was asked for, past the operator.
Permit ==
  /\ pc = "judge"
  /\ step.action = "work"
  /\ Verdict[step.command] # "block"
  /\ NeedsApproval(step.command) => TRUE \in opts.answers
  /\ rejections' = 0
  /\ granted' = IF NeedsApproval(step.command) THEN granted \cup {ThisStep} ELSE granted

RehearseWork ==
  /\ Permit
  /\ opts.dry
  /\ log' = Append(log, "dry")
  /\ NextIndex
  /\ UNCHANGED <<opts, attempt, step, result, results, ran, failures,
                 doneRejections, executed, money, unsaved>>

PermitWork ==
  /\ Permit
  /\ ~opts.dry
  /\ pc' = "execute"
  /\ UNCHANGED <<opts, index, attempt, step, result, results, log, ran, failures,
                 doneRejections, executed, money, unsaved, outcome>>

\* The command ran and its result came back; its placeholders were resolved first.
RunWork ==
  /\ pc = "execute"
  /\ ran' = ran \cup {ThisStep}
  /\ result' \in StepResult
  /\ unsaved' \in {unsaved, TRUE}
  /\ pc' = "settle"
  /\ UNCHANGED <<opts, index, attempt, step, results, log, granted, counters,
                 money, outcome>>

\* The connection went: whether the command took effect first is not known, and
\* the step gets no record.
LoseConnection ==
  /\ pc = "execute"
  /\ ran' \in {ran, ran \cup {ThisStep}}
  /\ unsaved' \in {unsaved, TRUE}
  /\ Finish("failed", "ssh", index, executed)
  /\ UNCHANGED <<opts, attempt, step, result, results, log, granted, counters, money>>

\* A closed pipe neither clears the count of failures nor adds to it.
CountResult ==
  \/ result = "ok" /\ failures' = 0
  \/ result = "closed_pipe" /\ UNCHANGED failures
  \/ result = "failed" /\ failures' = failures + 1

\* Not the code: the thrash limit is looked at before the step is recorded.
SettleAfterLimit ==
  /\ pc = "settle"
  /\ executed' = executed + 1
  /\ unsaved' = (unsaved /\ ~opts.keep)
  /\ CountResult
  /\ IF failures' >= MaxFailures
     THEN Finish("failed", "thrash", index, executed + 1) /\ UNCHANGED log
     ELSE NextIndex /\ log' = Append(log, result)
  /\ UNCHANGED <<opts, attempt, step, result, results, granted, ran, rejections,
                 doneRejections, money>>

\* Not the code: credentials are pushed after a step that worked.
SettleSavingSuccess ==
  /\ pc = "settle"
  /\ executed' = executed + 1
  /\ log' = Append(log, result)
  /\ unsaved' = (unsaved /\ ~(opts.keep /\ result = "ok"))
  /\ CountResult
  /\ IF failures' >= MaxFailures
     THEN Finish("failed", "thrash", index, executed + 1)
     ELSE NextIndex
  /\ UNCHANGED <<opts, attempt, step, result, results, granted, ran, rejections,
                 doneRejections, money>>

SettleWork ==
  /\ pc = "settle"
  /\ executed' = executed + 1
  /\ log' = Append(log, result)
  /\ unsaved' = (unsaved /\ ~opts.keep)
  /\ CountResult
  /\ IF failures' >= MaxFailures
     THEN Finish("failed", "thrash", index, executed + 1)
     ELSE NextIndex
  /\ UNCHANGED <<opts, attempt, step, result, results, granted, ran, rejections,
                 doneRejections, money>>

\* A finished run stays as it ended.
Finished ==
  /\ pc = "finished"
  /\ UNCHANGED vars

Next ==
  \/ StopAtStepLimit
  \/ StopAtCostCap
  \/ BeginStep
  \/ GatewayFails
  \/ UnusableReply
  \/ \E s \in Step : UsableReply(s)
  \/ Abort
  \/ StartChecks
  \/ \E p \in Hosts \X Commands : SkipCheck(p)
  \/ \E p \in Hosts \X Commands : MakeCheck(p)
  \/ HandBackClaim
  \/ SettleClaim
  \/ BlockWork
  \/ DeclineWork
  \/ RehearseWork
  \/ PermitWork
  \/ RunWork
  \/ LoseConnection
  \/ SettleWork
  \/ Finished

\* What the loop waits for without a deadline of its own.  input() waits for the
\* operator; a reply is timed from one read to the next, so a gateway that trickles
\* holds the loop; SFTP calls have no timeout, and _drain looks at its deadline only
\* where the output pauses, so a server can hold a step, a check or a push.
AwaitsOperator ==
  /\ pc = "judge"
  /\ step.action = "work"
  /\ Verdict[step.command] # "block"
  /\ NeedsApproval(step.command)
  /\ opts.answers = BOOLEAN

AwaitsGateway == pc = "ask"

AwaitsServer ==
  \/ pc = "execute"
  \/ pc = "verify" /\ \E p \in Pending : Verdict[p[2]] = "allow"
  \/ pc = "settle" /\ unsaved /\ opts.keep

Awaits == AwaitsOperator \/ AwaitsGateway \/ AwaitsServer

\* Everything else the loop does is computation of its own process, which runs on.
Spec == Init /\ [][Next]_vars /\ WF_vars(Next /\ ~Awaits)

-----------------------------------------------------------------------------
(***************************************************************************)
(* Properties.                                                             *)
(***************************************************************************)
CheckOutcome == CheckResult \cup {"pending", "skipped"}

FlowOK ==
  /\ opts \in Options
  /\ pc \in {"top", "ask", "judge", "verify", "execute", "settle", "finished"}
  /\ index \in 1 .. MaxSteps + 1
  /\ attempt \in 0 .. MaxProtocolRetries
  /\ step \in Step \cup {NoStep}
  /\ result \in StepResult \cup {"none"}

EvidenceOK ==
  /\ DOMAIN results \subseteq Hosts \X Commands
  /\ results \in [DOMAIN results -> CheckOutcome]

WorkOK ==
  /\ granted \subseteq (1 .. MaxSteps) \X Hosts \X Commands
  /\ ran \subseteq (1 .. MaxSteps) \X Hosts \X Commands

CountersOK ==
  /\ failures \in Nat
  /\ rejections \in Nat
  /\ doneRejections \in 0 .. MaxDoneRejections
  /\ executed \in Nat
  /\ cost \in Nat

SwitchesOK ==
  /\ costComplete \in BOOLEAN
  /\ unsaved \in BOOLEAN

OutcomeOK ==
  \/ outcome = NoOutcome
  \/ outcome \in [status : Status, reason : Reason, steps : 0 .. MaxSteps, executed : Nat]

\* Every variable keeps its type and every bounded counter its bound.
TypeOK ==
  /\ FlowOK
  /\ EvidenceOK
  /\ log \in Seq(Fate)
  /\ WorkOK
  /\ CountersOK
  /\ SwitchesOK
  /\ OutcomeOK

\* What reached a server was allowed by the guard or approved for that very step, on
\* that server; --mode step approved every one of them; a dry run reached nothing.
\* (The order of judge, approve and execute in DBAAgent.run.)
RanWithPermission ==
  \A w \in ran :
    /\ ~opts.dry
    /\ Verdict[w[3]] # "block"
    /\ w \in granted \/ (Verdict[w[3]] = "allow" /\ ~opts.stepwise)

\* "done" is reported only when the last done step carried a VERIFY line, every standing
\* check and every VERIFY line was put to every server it applies to, and each was
\* either refused by the guard or came back clean. (_verify and the done branch.)
DoneIsProven ==
  outcome.status = "done" /\ ~opts.dry =>
    /\ step.action = "done"
    /\ step.verify # {}
    /\ DOMAIN results = PlanOf(step.verify)
    /\ \A p \in DOMAIN results :
         results[p] = IF Verdict[p[2]] = "allow" THEN "passed" ELSE "skipped"

\* The entries f of a record with none of the others after them: what a counter
\* that the others reset stands for.
Latest(s, f, others) ==
  {i \in DOMAIN s : s[i] = f /\ \A j \in i .. Len(s) : s[j] \notin others}

BlockedInARow == Latest(log, "blocked", {"declined", "dry", "ok", "failed", "closed_pipe"})
FailedInARow  == Latest(log, "failed", {"ok"})
HandedBack    == {i \in DOMAIN log : log[i] = "handed_back"}

\* The counters stop a run exactly when its history says so, never early and never
\* late: "stuck" on that many blocked steps with no other work between them, "failed" on
\* that many failing results with no success between them, "unverified" after every
\* hand-back has been spent, "exhausted" on a full record or a spent cap.
EndingIsEarned ==
  /\ (outcome.reason = "blocked") <=> Cardinality(BlockedInARow) >= MaxRejections
  /\ (outcome.reason = "thrash") <=> Cardinality(FailedInARow) >= MaxFailures
  /\ Cardinality(HandedBack) <= MaxDoneRejections
  /\ outcome.status = "unverified" => Cardinality(HandedBack) = MaxDoneRejections
  /\ outcome.reason = "steps" => Len(log) = MaxSteps
  /\ outcome.reason = "cost" => CapReached /\ Len(log) < MaxSteps

\* What reached a server is on record as an executed step under its own number, and
\* the other way round; only the step in hand, or the one a lost connection ended the
\* run on, may be missing. (add_step in DBAAgent.run against _execute.)
EffectsOnRecord ==
  /\ \A w \in ran :
       \/ w[1] \in DOMAIN log /\ log[w[1]] \in StepResult
       \/ w[1] = index /\ (pc = "settle" \/ outcome.reason = "ssh")
  /\ \A n \in DOMAIN log : log[n] \in StepResult => \E w \in ran : w[1] = n

Executions == {n \in DOMAIN log : log[n] \in StepResult}

\* The outcome counts what the record holds: one entry per step, in order, with the
\* step a lost connection ended the run on counted and not recorded.
StepsAccounted ==
  /\ pc # "finished" => Len(log) = index - 1
  /\ pc = "finished" =>
       outcome.steps = Len(log) + (IF outcome.reason = "ssh" THEN 1 ELSE 0)
  /\ outcome # NoOutcome => outcome.executed = Cardinality(Executions)

\* --max-cost is looked at between steps: a step begun under the cap may overshoot it
\* by the replies that one step can take, and by no more.
SpendOvershoot ==
  opts.capped =>
    cost = 0 \/ cost < MaxCost + (MaxProtocolRetries + 1) * MaxReplyCost

\* With persist given, a credential waits between steps only when a check brought it
\* into being, and only until the next step that runs. (run's persist call; _verify
\* resolves placeholders and has none.)
CredentialWaitsForAStep ==
  opts.keep /\ unsaved /\ pc \in {"top", "ask", "judge"} =>
    \E i \in HandedBack : \A j \in i .. Len(log) : log[j] \notin StepResult

\* A run ends, or stands still for good in one wait for the operator, the gateway or
\* a server: it never goes round for ever, however what it waits for answers.  (The
\* loop's own bounds: steps, protocol retries, hand-backs, the checks of one claim.)
Termination ==
  <>(pc = "finished") \/ (<>[]Awaits /\ <>[][FALSE]_vars)

Contract == INSTANCE RunContract WITH
  dry      <- opts.dry,
  approved <- granted,
  permit   <- IF pc = "execute" THEN {ThisStep} ELSE {},
  effects  <- ran,
  evidence <- results,
  status   <- outcome.status

\* The loop keeps what a run promises.
KeepsContract == Contract!Spec

-----------------------------------------------------------------------------
(***************************************************************************)
(* What the documentation says of a run and the code does not do.          *)
(***************************************************************************)

\* README.md, "Done is a claim, not a fact": the harness runs the VERIFY lines itself,
\* and a claim nothing was re-run for "would have been taken on trust - the one thing
\* this harness will not do".  A VERIFY line the guard flags is skipped and counts
\* neither way, so a claim whose lines are all flagged is believed.
DoneRanTheClaimsChecks ==
  outcome.status = "done" /\ ~opts.dry =>
    \E k \in step.verify, p \in DOMAIN results :
      k.command = p[2] /\ k.scope \in {p[1], AllHosts} /\ results[p] = "passed"

\* README.md, "What a run leaves behind": report.md holds "every step with the server it
\* ran on, its command, exit code and output".  The step a lost connection ends the run
\* on returns before add_step, whether or not its command took effect.
EveryStepInReport == pc = "finished" => Len(log) = outcome.steps
=============================================================================
