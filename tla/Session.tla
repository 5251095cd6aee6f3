-------------------------------- MODULE Session --------------------------------
(***************************************************************************)
(* One call of dba.py from its arguments to its exit code: main and _run   *)
(* of do_dba/cli.py, with the connecting of Fleet and SSHRunner.           *)
(*                                                                         *)
(* What is abstracted:                                                     *)
(*  - What stops a call before it connects (no key, no models, no task, no *)
(*    model to use) is one action: all of it exits with 2.                 *)
(*  - agent.run is one action, whose outcome is any that AgentLoop has;    *)
(*    Keeper has what is read and saved of credentials on the way.         *)
(*  - A fact of a server is kept if a decision rests on it: its privilege. *)
(***************************************************************************)
EXTENDS Fleet

CONSTANTS
  Specs,     \* what --host may say: a set of sequences of specs
  Arguments, \* [mode, yes, accept, probe, list]: the switches of a call
  User, Port \* --user and --port

\* A --host value in its parts, usable or not.
HostValue ==
  [name : {Unnamed} \cup STRING, host : STRING, user : STRING, port : Nat]

\* The labels differ and do not run out: each server takes one at most, and keeps
\* two from being taken.
ASSUME NodesAssumption ==
  /\ Nodes \in Seq(STRING)
  /\ \A k, m \in DOMAIN Nodes : Nodes[k] = Nodes[m] => k = m
  /\ \A s \in Specs : Len(Nodes) >= 3 * Len(s)

ASSUME CallAssumption ==
  /\ Specs \subseteq Seq(HostValue)
  /\ Arguments \subseteq [mode : {"plan", "step", "auto", "unattended"}, yes : BOOLEAN,
                         accept : BOOLEAN, probe : BOOLEAN, list : BOOLEAN]
  /\ User \in STRING
  /\ Port \in 1 .. 65535

VARIABLES
  specs, args, \* the call
  tty,         \* stdin is a terminal
  pc,          \* the place in main or _run
  fleet,       \* the servers, once accepted
  open,        \* those whose connection is open
  known,       \* <<host, port>> of the keys in known_hosts
  starved,     \* those whose account has no root
  consents,    \* <<question, who answered yes>>
  worked,      \* agent.run was entered
  status,      \* what the record says, "none" before there is a record
  reported,    \* report.md was written
  code         \* what main returned, or Traceback: it did not

vars == <<specs, args, tty, pc, fleet, open, known, starved, consents, worked, status,
          reported, code>>
call == <<specs, args, tty>>

NoCode    == -1
Traceback == 1000

Unattended == args.mode = "unattended"

\* Not the code: --yes as the answer to everything.
SwitchOfYes(question) ==
  CASE question = "key" /\ args.accept -> "accept-host-key"
    [] Unattended                      -> "unattended"
    [] args.yes                        -> "yes"
    [] OTHER                           -> "nobody"

\* answers_everything, host_key_asker and answers_steps: who answers instead of
\* the operator.
Switch(question) ==
  IF question = "key" /\ args.accept THEN "accept-host-key"
  ELSE IF Unattended THEN "unattended"
  ELSE IF question = "plan" /\ args.yes THEN "yes"
  ELSE "nobody"

\* ask_yes_no: a switch, else the operator on a terminal, else no. Ctrl-C at the
\* question is a no as well.
SaysYes(question, about) ==
  LET who == IF Switch(question) # "nobody" THEN Switch(question) ELSE "operator"
  IN  /\ who = "operator" => tty
      /\ consents' = consents \cup {<<question, about, who>>}

MayRefuse(question) == Switch(question) = "nobody"

Init ==
  /\ specs \in Specs
  /\ args \in Arguments
  /\ specs = <<>> => args.list \* --host may be left out only then
  /\ tty \in BOOLEAN
  /\ pc = "prepare"
  /\ fleet = <<>>
  /\ open = {}
  /\ known \in {{}, {<<s[1].host, Port>> : s \in {specs} \ {<<>>}}}
  /\ starved = {}
  /\ consents = {}
  /\ worked = FALSE
  /\ status = "none"
  /\ reported = FALSE
  /\ code = NoCode

Exit(n) ==
  /\ pc' = "over"
  /\ code' = n
  /\ open' = {}

\* A bad argument, no key, no model list, no task, or no model.
PrepareFails ==
  /\ pc = "prepare"
  /\ Exit(2)
  /\ UNCHANGED <<call, fleet, known, starved, consents, worked, status, reported>>

ListModels ==
  /\ pc = "prepare" /\ args.list
  /\ Exit(0)
  /\ UNCHANGED <<call, fleet, known, starved, consents, worked, status, reported>>

Prepare ==
  /\ pc = "prepare" /\ ~ args.list
  /\ pc' = "targets"
  /\ UNCHANGED <<call, fleet, open, known, starved, consents, worked, status, reported, code>>

RefuseFleet ==
  /\ pc = "targets"
  /\ Accepted(specs, User, Port) = <<>>
  /\ Exit(2)
  /\ UNCHANGED <<call, fleet, known, starved, consents, worked, status, reported>>

AcceptFleet ==
  /\ pc = "targets"
  /\ fleet' = Accepted(specs, User, Port)
  /\ fleet' # <<>>
  /\ pc' = "connect"
  /\ UNCHANGED <<call, open, known, starved, consents, worked, status, reported, code>>

Nearest == Cardinality(open) + 1 \* in fleet order
Key(i)  == <<fleet[i].host, fleet[i].port>>

\* _AskPolicy: a key that is not in known_hosts is asked about.
KeyAccepted ==
  IF Key(Nearest) \in known THEN UNCHANGED consents ELSE SaysYes("key", Nearest)

\* SSHRunner.connect. An accepted key is remembered if known_hosts can be written.
Connect ==
  /\ pc = "connect"
  /\ KeyAccepted
  /\ known' \in {known, known \cup {Key(Nearest)}}
  /\ open' = open \cup {Nearest}
  /\ pc' = IF Nearest = Len(fleet) THEN "survey" ELSE "connect"
  /\ UNCHANGED <<call, fleet, starved, worked, status, reported, code>>

\* Not the code: a refused connection that leaves the others open.
ConnectFailsOpen ==
  /\ pc = "connect"
  /\ pc' = "over"
  /\ code' = 2
  /\ UNCHANGED <<call, fleet, open, known, starved, consents, worked, status, reported>>

\* The key is declined, nobody answers, or the login is refused: Fleet.connect
\* closes the connections already open.
ConnectFails ==
  /\ pc = "connect"
  /\ UNCHANGED consents \/ KeyAccepted
  /\ Exit(2)
  /\ UNCHANGED <<call, fleet, known, starved, worked, status, reported>>

\* Ctrl-C before _run: it is no Exception to Fleet.connect and main does not catch
\* it there either, so the process ends with its connections.
InterruptEarly ==
  /\ pc \in {"prepare", "targets", "connect"}
  /\ pc' = "over"
  /\ code' = Traceback
  /\ UNCHANGED <<call, fleet, open, known, starved, consents, worked, status, reported>>

\* gather on every server: an account without root says so; a probe that fails
\* says nothing.
Survey ==
  /\ pc = "survey" /\ ~ args.probe
  /\ starved' \in SUBSET (DOMAIN fleet)
  /\ pc' = IF starved' = {} THEN "record" ELSE "root"
  /\ UNCHANGED <<call, fleet, open, known, consents, worked, status, reported, code>>

SurveyOnly ==
  /\ pc = "survey" /\ args.probe
  /\ starved' \in SUBSET (DOMAIN fleet)
  /\ Exit(0)
  /\ UNCHANGED <<call, fleet, known, consents, worked, status, reported>>

CarryOn ==
  /\ pc = "root"
  /\ SaysYes("root", 0)
  /\ pc' = "record"
  /\ UNCHANGED <<call, fleet, open, known, starved, worked, status, reported, code>>

StopWithoutRoot ==
  /\ pc = "root" /\ MayRefuse("root")
  /\ Exit(2)
  /\ UNCHANGED <<call, fleet, known, starved, consents, worked, status, reported>>

\* The keeper files are read, the run directory is made, the record begun.
BeginRecord ==
  /\ pc = "record"
  /\ status' = "running"
  /\ pc' = IF args.mode = "plan" THEN "plan" ELSE "work"
  /\ UNCHANGED <<call, fleet, open, known, starved, consents, worked, reported, code>>

EndUnrun(word) ==
  /\ status' = word
  /\ pc' = "unrun"
  /\ UNCHANGED <<call, fleet, open, known, starved, consents, worked, reported, code>>

NoPlan      == pc = "plan" /\ EndUnrun("failed")
DeclinePlan == pc = "gate" /\ MayRefuse("plan") /\ EndUnrun("cancelled")

ShowPlan ==
  /\ pc = "plan"
  /\ pc' = "gate"
  /\ UNCHANGED <<call, fleet, open, known, starved, consents, worked, status, reported, code>>

ApprovePlan ==
  /\ pc = "gate"
  /\ SaysYes("plan", 0)
  /\ pc' = "work"
  /\ UNCHANGED <<call, fleet, open, known, starved, worked, status, reported, code>>

\* The endings of AgentLoop.
Work ==
  /\ pc = "work"
  /\ worked' = TRUE
  /\ status' \in {"done", "unverified", "aborted", "failed", "stuck", "exhausted", "api-error"}
  /\ pc' = "save"
  /\ UNCHANGED <<call, fleet, open, known, starved, consents, reported, code>>

\* Ctrl-C in agent.run: the handler pushes, saves and reports all the same.
InterruptWork ==
  /\ pc = "work"
  /\ worked' = TRUE
  /\ status' = "cancelled"
  /\ pc' = "interrupted"
  /\ UNCHANGED <<call, fleet, open, known, starved, consents, reported, code>>

\* The ways a recorded call ends: a plan not carried out, a run, a run cut short.
Ending == {"unrun", "save", "interrupted"}

WriteReport ==
  /\ pc \in Ending /\ ~ reported
  /\ reported' = TRUE
  /\ UNCHANGED <<call, pc, fleet, open, known, starved, consents, worked, status, code>>

\* Not the code: a run that only failures of the harness make unsuccessful.
ReturnUnlessFailed ==
  /\ pc \in Ending /\ reported
  /\ Exit(CASE pc = "save"        -> IF status \in {"failed", "api-error"} THEN 1 ELSE 0
             [] pc = "interrupted" -> 130
             [] pc = "unrun"       -> 1)
  /\ UNCHANGED <<call, fleet, known, starved, consents, worked, status, reported>>

\* The outcome is shown between the report and this.
Return ==
  /\ pc \in Ending /\ reported
  /\ Exit(CASE pc = "save"        -> IF status = "done" THEN 0 ELSE 1
             [] pc = "interrupted" -> 130
             [] pc = "unrun"       -> 1)
  /\ UNCHANGED <<call, fleet, known, starved, consents, worked, status, reported>>

\* Ctrl-C anywhere else in _run but at a question, in its handler and its last
\* lines too, the report written or not: main says so and closes.
Interrupt ==
  /\ pc \in {"survey", "record", "plan"} \cup Ending
  /\ Exit(130)
  /\ UNCHANGED <<call, fleet, known, starved, consents, worked, status, reported>>

\* What nothing catches: the run directory, secrets.json or the report cannot be
\* written, or agent.run meets a transfer over a connection that is gone. main's
\* finally closes.
Raise ==
  /\ pc \in {"record", "work"} \cup Ending /\ ~ reported
  /\ worked' = (worked \/ pc = "work")
  /\ Exit(Traceback)
  /\ UNCHANGED <<call, fleet, known, starved, consents, status, reported>>

Over == pc = "over" /\ UNCHANGED vars

Next ==
  \/ PrepareFails \/ ListModels \/ Prepare \/ RefuseFleet \/ AcceptFleet
  \/ Connect \/ ConnectFails \/ InterruptEarly \/ Survey \/ SurveyOnly \/ CarryOn \/ StopWithoutRoot
  \/ BeginRecord \/ NoPlan \/ ShowPlan \/ DeclinePlan \/ ApprovePlan
  \/ Work \/ InterruptWork \/ WriteReport \/ Return \/ Interrupt \/ Raise \/ Over

Spec == Init /\ [][Next]_vars
-----------------------------------------------------------------------------
\* A run works with every server of its fleet or with none: from the survey on
\* every connection is open, and none is when main returns, nor when a call that
\* has begun its record ends in a traceback.
AllOrNone ==
  /\ pc \in {"survey", "root", "record", "plan", "gate", "work"} \cup Ending => open = DOMAIN fleet
  /\ pc = "over" /\ (code # Traceback \/ status # "none") => open = {}

\* What a switch may answer, as the comment above answers_everything has it.
Entitled(consent) ==
  LET question == consent[1]
      who      == consent[3]
  IN  \/ who = "operator" /\ tty
      \/ who = "unattended" /\ args.mode = "unattended"
      \/ who = "accept-host-key" /\ args.accept /\ question = "key"
      \/ who = "yes" /\ args.yes /\ question = "plan"

Asked(question, about) == \E c \in consents : c[1] = question /\ c[2] = about /\ Entitled(c)

\* The agent is not started before every question that arose was answered yes by
\* somebody entitled to: a host key that was not known, an account without root,
\* and in plan mode the plan. --yes answers neither of the first two.
StartedWithConsent ==
  worked =>
    /\ \A i \in DOMAIN fleet : Key(i) \in known \/ Asked("key", i)
    /\ starved # {} => Asked("root", 0)
    /\ args.mode = "plan" => Asked("plan", 0)

\* The exit code tells what became of the call: 2, nothing was run and nothing
\* recorded; 0, done, or nothing was asked for; 1, a report says why it was not
\* done; 130, interrupted, and a report, if there is one, says how the run or the
\* plan had ended by then, done not excluded; a traceback, there is no report.
CodeTellsEnding ==
  pc = "over" =>
    /\ code = 2 => ~ worked /\ status = "none"
    /\ code = 0 => IF worked THEN status = "done" /\ reported ELSE args.list \/ args.probe
    /\ code = 1 => reported /\ status \notin {"done", "none", "running"}
    /\ code = Traceback => ~ reported
    /\ reported => status \notin {"none", "running"} /\ (worked \/ args.mode = "plan")
    /\ worked => code \in {0, 1, 130, Traceback}

\* The lookup a step's HOST line relies on: a name or a label finds its own
\* server, and an address finds a server of that address or none.
NamesFindTheirServer ==
  \A i \in DOMAIN fleet :
    /\ Find(fleet, << <<fleet[i].name>> >>) = i
    /\ Find(fleet, << Label(fleet[i]), <<"replica">> >>) = i
    /\ LET j == Find(fleet, << <<fleet[i].host>> >>)
       IN  j = 0 \/ fleet[j].host = fleet[i].host

\* Usable values, at endpoints apart, whose given names are apart from one another
\* and from the other addresses.
WellWritten ==
  LET targets == [i \in DOMAIN specs |-> TargetOf(specs[i], User, Port)]
  IN  /\ specs # <<>>
      /\ \A i \in DOMAIN specs : Usable(specs[i])
      /\ \A i, j \in DOMAIN specs : i # j =>
           /\ Endpoint(targets[i]) # Endpoint(targets[j])
           /\ specs[i].name # Unnamed => specs[i].name \notin {specs[j].name, specs[j].host}

\* A fleet is refused for what the operator wrote, never for a label the harness
\* made up.
LabelsDoNotClash == [][pc = "targets" /\ code' = 2 => ~ WellWritten]_vars
=============================================================================
