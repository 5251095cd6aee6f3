# A verification project for do-dba

do-dba puts a language model to work as a database administrator: the model
proposes one step per reply, the harness judges it, runs it over SSH on one of a
few servers, shows the model what came back, and believes "done" only after
re-running the checks itself. This directory models the parts of the harness
whose correctness is a matter of order and of failure, checks the models with
TLC on small instances, and proves what matters most with TLAPS for every value
of the constants. `PROJECT.json` says, definition by definition, which lines of
the source each one stands for.

## The system

| Component | State | Operations | Talks to |
| --- | --- | --- | --- |
| Agent loop, `agent.py` `DBAAgent.run` | step number, four counters, cost, the conversation, the outcome | ask, judge, approve, execute, record, verify, finish | all of the below |
| Approval prompts, `cli.py` | counts of answers | ask on a terminal, or answer from a switch, or refuse without a terminal | the operator |
| Gateway request, `inference/client.py` | parameters, fixes made, time waited, unreadable replies | send, wait, reload, adjust, give up | the gateway |
| Credentials, `secrets.py` with `cli.py` `_run` | name to value, inherited, unsaved; one keeper file per server; `secrets.json` | adopt, resolve, redact, push, save | the servers, the loop |
| Guard, `guard.py` | none | command, script or file to allow, confirm or block | the loop |
| Step parser, `protocol.py` | none | reply to step, or a protocol error | the loop |
| Conversation budget, `agent.py` `_observe`, `_compact`, `_relieve` | messages and stubs | append, stub, shorten | the loop |
| SSH runner, `ssh.py` | a connection | connect, run, stage and run a script, write a file | the servers |
| Fleet, `fleet.py` | labels, addresses, confirmed paths | parse, find, connect, survey | the servers |
| Record and report, `report.py` | steps, checks, usage, status | add, write | the loop |
| Session, `cli.py` `main`, `_run` | what was connected, asked, decided | connect, survey, adopt, plan, run, save | all of the above |
| Facts, providers, catalog, pricing, configuration, terminal | tables | look up, print | the session |

One run is one process with one thread: nothing inside it is concurrent. What
makes it hard is everything around it. The model may send anything; the gateway
may refuse, stall, throttle or answer with rubbish; a connection may drop with a
command under way; a write may fail on one server of several; the operator may
decline, or press Ctrl-C at any moment; the process may die; two runs may share
a server; and what one run leaves on a server is what the next one starts from.

What makes each component correct:

- **Agent loop**: nothing reaches a server that was not allowed or approved for
  that very step; everything that did is on record; "done" is said over a complete
  set of clean checks; each ending is the one its history earned; it ends.
- **Gateway request**: each kind of retry has its own allowance and no other ends
  the request; the waiting never exceeds the budget; only refused parameters go.
- **Credentials**: a name means one value in a run; a value that was minted is
  somewhere it can be looked up; what other runs left is not lost in silence.
- **Guard**: the verdict is on what is done and not on how it is wrapped; a script's
  is the strictest of its commands' and of the files it writes. **Parser**: each line
  of a reply is one thing, no half of a command is dropped in silence, a step goes
  where it says. **Conversation**: what is sent fits the window, and is forgotten
  oldest first. **SSH**: what runs and what a file holds is what was judged, or the
  result said otherwise; a body is kept from other accounts. **Survey**: what the
  model is told of the network is so. **Session**: all connections open or none;
  nothing starts that nobody entitled to agreed to; the exit code tells the ending.

## The modules

| Module | What it is |
| --- | --- |
| `AgentLoop` | the loop, one action per branch or way out |
| `RunContract` | what a run promises, abstractly; `AgentLoop` implements it |
| `InferenceRetry` | one request to the gateway and its retries |
| `Keeper` | the life of a credential across runs |
| `CredentialContract` | what is promised of credentials, abstractly; `Keeper` implements it |
| `ScriptStaging` | scripts and files on their way to a server, round trip by round trip |
| `Fleet` | the servers of a run and the lookup of a name, as operators |
| `Session` | one call from its arguments to its exit code |
| `PeerSurvey` | what the servers can reach each other on |
| `StepParse` | reading one step out of a reply, line by line |
| `Guard` | the verdict on a command, a script or a file, as operators |
| `GuardVerdict` | what `Guard` promises, against definitions that do not follow its loops |
| `Conversation` | the messages a run sends, and what is cut out of them |
| `MC...` | small instances for TLC |
| `..._proofs` | theorems, checked by TLAPS |

**`AgentLoop`.** `pc` is the place in `run`: `top` (the `for`), `ask`
(`_next_step` and `_ask`), `judge`, `verify` (`_verify`), `execute`, `settle`
(after `_execute` returned), `finished`. `failures`, `rejections`,
`doneRejections` and `executed` are the local counters, `log` is `record.steps`
and `results` is `record.verifications`. A command, a script and a file write
are one kind of work, because the loop treats them alike once `_judge` has
given its verdict, and the guard is a constant function to its three verdicts.
`ran` and `granted` are history: what reached a server, and what the operator
said yes to, each under its step number. `LoseConnection` leaves open whether
the command took effect. `Charge` has the three cases of `_ask`: a price, no
price (`cost_complete` becomes false), and no usage at all, which is charged
nothing and leaves `cost_complete` true.

**`RunContract`.** A dozen lines of behaviour: permission is granted for one
numbered piece of work at a time, in order; it takes effect at most once; checks
start over and cover the standing checks on every server; a run ends once, and
as done only on passed or skipped checks. `AgentLoop!Contract` is the refinement
mapping.

**`InferenceRetry`.** One action per `except` clause and outcome of
`InferenceClient._create`. A complaint is the set of parameter names its text
mentions; `Adjust` drops the first of them, in the code's order, that is still in
the request. Times are whole units. The `raise` after the loop has no action:
`LoopNeverRunsOut` shows that it cannot be reached, with two turns to spare.

**`Keeper`.** Runs are processes, and a value is named by the run that minted
it. `phase` is the place in `_run`: `adopt` (`adopt_secrets`), `work` (`agent.run`),
`push` (`persist_secrets` from the loop), `lastpush` (from the interrupt handler or
after the run), `save`. A push visits the servers one at a time (`Send`), each write may
fail, and after the last one the store counts as saved, as in the code. A write that failed
may have left its install running on the server, because giving up on a command after its
deadline ends nothing there: it is then in `left` for good and in `loose` until `Land` puts its
file in place, after whatever else was put there meanwhile, by this run or a later one. `InterruptPush` is Ctrl-C inside `persist_secrets`, which
`write_keeper` does not catch; `Die` is the death of the process, a Ctrl-C
where only `main` catches it, or an exception that nothing catches (an SFTP call over a
connection that is gone raises one that is no `SSHError`), and saves nothing; either may
leave an install running as well. `Concurrent`, `ReadsFail` and `WritesFail` say what the
environment may do, `MaxLeft` how many installs may be left running.

**`CredentialContract`.** A run comes to know values and takes some to its
servers (`Learn`), sends a server all it knows (`Tell`, or `Send` where it does not wait for
the letter to arrive), ends with a record of it (`Close`), or is lost (`Lose`); and a letter
comes in (`Arrive`). What it once knows of a name stays; a value is its own or one found on
a server of its own; a server is written to only by a run that made something up.
`Keeper!Promise` is the refinement mapping: resolving is `Learn`, and so is taking a file in;
a run's phase is seen only as under way, over or lost, and debts and clashes are not seen.

**`ScriptStaging`.** A run is the caller, one step after the other; `pc` is the next
round trip of `run_script` (`mkdir`, `stat`, `open`, `write`, `chmod`, `parse`, `run`) or
`write_file` (`stage`, `seal`, `install`). A process on the server is a record of its own
with its own steps, so it can outlive the wait for it: `CutOff`, `Drop` and `LoseConnection`
leave it `alone`, still reading its file, because closing a channel without a terminal ends
nothing. A connection that goes while a command is waited for is `Drop`: the wait ends with
an exit code of -1 and without `timed_out`, an ordinary result, and only the next step finds
that there is no connection. Where a round trip starts, it is an exception, `LoseConnection`. Files have a body (whose step wrote it) and a mode. `RunScript` has both ways on
from the parse pass: it passed, or it ran into its deadline, which the code takes
for leave to go on. `unread`, `ran` and `latest` are history.

**`Fleet`, `Session`.** `Fleet` has `parse_target`'s checks, `_label_unnamed`, what
`Fleet.__init__` refuses and `find` with its two tiers. `Session` is `main` and `_run`: `pc` is the
place, `open` the connections, `consents` who answered which question. All that stops a
call before it connects is one action, and `agent.run` is one whose outcome is any that
`AgentLoop` has. A recorded call ends in three ways (`Ending`): a plan not carried out, a run,
a run cut short. In each the report is written by one action (`WriteReport`) and the code
returned by another (`Return`), with `show_outcome` between them. Ctrl-C is an action of its own where it differs: until the connections stand nothing
catches it (`Fleet.connect` catches `Exception`, `main` only `SSHError`), so the
process ends with a traceback; in `agent.run` the handler saves and reports; elsewhere,
in the handler and after the report too, `main` exits with 130. `Raise` is what nothing
catches: a directory, `secrets.json` or a report that cannot be written, a transfer over
a connection that is gone. `code` is what `main` returned, or `Traceback`: a shell sees a 1
there as well.

**`PeerSurvey`.** One action per probe in `_probe_peers`'s order. The network is fixed and
hidden; a probe's commands come back with what that network allows, or fail for
reasons of their own (`blind`). `path` is the `PeerPath` in hand, which also says where the
two loops are, and `left` the candidates still to try on it. `private_candidates` is a list
in the code; here it is the set `Candidates` with the order `Place`, a number for each
address: 0 for the one that was confirmed, its first mention otherwise, behind all others if
it shares an interface with the public address. So a server's survey depends on those before it.

**`StepParse`.** One action per branch of `parse`'s loop; a field is kept as the positions of
the lines it was made of, so that properties can say where a value came from. `Refusal`
asks in the order of the code. Markers and tags are cut as `strip_control_tokens` does.

**`Guard`, `GuardVerdict`.** A text is given as its segments, words and the rules that match
in it, in what it quotes too; what is modelled is what the code does with these: the order of
the tables, the first verdict that counts, unwrapping of `sudo`, `bash -c` and `su -c` to a
depth of three, the joining of continued lines, the heredocs of a command that writes to a
file (every one of them, `Docs` and `Stops`), and the calls of a python script, be it a step,
a written file or a heredoc's (`ScriptLevel`, `PythonOf`). A path is one of `classify_file_write`'s kinds
(relative, protected, special, one that gives access), and `Empty` is the empty text, which
each way of giving it treats differently. `classify` calls itself for what a shell is given, which is one operator for
each depth here (`Classify`, `First`, `Second`, `Third`); `classify_script` goes through its
lines and calls itself for a script that a heredoc writes, which is the function `Verdicts`
of the spans of lines there are, each computed from shorter ones by `Walk`.
`GuardVerdict` asks one question and answers it. `RoleAfter` and `Roles` say what each line of a
script is by a definition of their own, from the line before alone: with the role go the
heredocs of its command and how many have ended, and `LevelsOf` collects from the roles what
a command and its files are judged. `JudgedTheSame` leaves out the empty text, and a
write to a relative path, which `write_file` refuses and a python `open` is allowed.

**`Conversation`.** A message is its length; `Tokens`, `MaxReply`, `History`, `OutputCap` and
`Ceiling` round as the code does. `Observe` is the append together with all of `_compact`.

## What is checked

| Run | Instance | Shows |
| --- | --- | --- |
| `AgentLoop` | 1 server, 4 steps, limits 1 retry, 1 hand-back, 2 failures, 3 blocks | `EndingIsEarned`, `EffectsOnRecord`, `StepsAccounted`, `CredentialWaitsForAStep`, `Termination`, `TypeOK` |
| `AgentLoopModes` | 2 servers, every mode, a cap | `RanWithPermission`, `DoneIsProven`, `SpendOvershoot`, and that the loop implements `RunContract` |
| `InferenceRetry` | a budget of two minimum pauses and a half | `LoopNeverRunsOut`, `BudgetDecides`, `OnlyRefusedDropped`, `TypeOK` |
| `Keeper` | a run on one server, a run on two, one after the other, two names, failing writes, one install that lands late | `LinesStay`, `PushedOrTold`, `SavedAtTheEnd`, `TypeOK`, and that the credentials implement `CredentialContract` |
| `ScriptStaging` | a run of two steps and a run of one, one after the other; two scripts do not parse | `StrayIsReported`, `NoneOfItRan`, `LastWriteStands`, `KeptPrivate`, `TypeOK` |
| `PeerSurvey` | 3 servers, 2 sets of reports, 12 networks, 2 candidates each, probes that fail | `NoteIsTrue`, `ConfirmedIsTriedFirst`, `PathsAreFair` |
| `Session` | 12 lists of `--host` values, every combination of switches | `AllOrNone`, `StartedWithConsent`, `CodeTellsEnding`, `NamesFindTheirServer`, `LabelsDoNotClash` |
| `StepParse` | every way to go on for up to four lines, out of 14, 11 and 11 kinds of line | `EachLineOnce`, `NothingHalfRun`, `AimedAsNamed` |
| `GuardVerdict` | 34 commands alone and in pairs, given to a shell or not, scripts of up to four lines out of 14 kinds, of five where the first writes two files | `StrictestDecides`, `JudgedTheSame` |
| `Conversation` | four turns in a window of 4096, 8192 and 9000 tokens | `WhatComesLastIsWhole`, `CutOldestFirst`, `PromptFits` |

Two more runs exhibit a disagreement between the documentation and the code:

- `AgentLoopDone`: the README calls a claim nothing was re-run for the one thing
  the harness will not believe; a claim whose every `VERIFY` line the guard flags is
  believed, because a flagged check is skipped and counts neither way.
- `StepParseBelow`: `protocol.py` says that dropping a command's second half in silence is
  the one thing that must not happen; of a command on the lines below its key, what
  follows the first line that looks like any key is dropped, and nothing says so.

Other disagreements have a configuration each, for which TLC prints a counterexample
(`tlc -config <name>.cfg <MC module>`):

| Configuration | Module | Fails | Because |
| --- | --- | --- | --- |
| `AgentLoopReport.cfg` | `MCAgentLoop` | `EveryStepInReport` | README: "every step" is in the report; the step a lost connection ends the run on is counted and not recorded, though it may have taken effect |
| `KeeperOwn.cfg` | `MCKeeper` | `EachServerKeepsItsOwn` | README: each server keeps every credential of the run; one read off the first server and used on the second is not stored there, because only minting marks the store unsaved |
| `KeeperTold.cfg` | `MCKeeper` | `SavedMeansTold` | `_unsaved` is "a value exists that no server has been told about yet"; a push that reached nobody clears it |
| `ScriptStagingShared.cfg` | `MCScriptStaging` | `RanWhatWasJudged` | README: what runs is byte for byte what was judged; scripts are numbered by step, so runs that overlap on a server write the same file |
| `PeerSurveyListed.cfg` | `MCPeerSurvey` | `MeshIsAsListed` | the brief: every server reaches every other "on the private address listed above"; one address is listed, while two servers may each reach a third on a different one |
| `StepParseSecond.cfg` | `MCStepParse` | `OnlyTheFirstStep` | "only the first was used"; of a reply with two steps, fields the first did not have are taken from the second, and a block always replaces |
| `StepParseMarkers.cfg` | `MCStepParse` | `BodiesAsSent` | "markers inside a CONTENT_BEGIN block are left alone"; not when a marker stands before the block as well |
| `ConversationGrows.cfg` | `MCConversation` | `CutIsShorter` | `_stub` "cuts one message down"; one of 401 to 428 characters becomes 429 |

Met while modelling, and not given configurations of their own: "stuck" is described as
three blocked steps in a row, while a claim handed back between two blocked steps
does not reset the count (`EndingIsEarned` states what is counted); a credential
that a check's placeholder brings into being is not "pushed the moment it is
generated" but after the next step that runs, or at the end
(`CredentialWaitsForAStep` states exactly this); in plan mode a gateway failure is
reported as `failed`, not `api-error`; with `Concurrent` or `ReadsFail` set to
`TRUE` in `Keeper.cfg`, `LinesStay` fails, by two runs that overlap on a server and by
a read that timed out on a server that holds credentials; `run_script` describes its mode as
set before the body is written, and it is set after (`KeptPrivate` says what keeps the
body private meanwhile: the directory); a script whose parse pass ran out of time is run
(`NoneOfItRan` says so); a privilege probe that fails counts as root access (`Survey`); a
question raised by an earlier rule or segment of a command line hides a block further on,
so that the operator is asked about a command that alone would be refused, and the path of
a `write_file` that needs a question keeps its contents from being judged; a reader that
never stops delivering output keeps `_drain` from looking at its deadline.

**Bounds, and why they are enough.** In `AgentLoop`, four steps are the least that
let every counter reach its limit after having been reset once, or a hand-back lie
between two blocked steps; three commands give each verdict once; the three sets
of `VERIFY` lines are the three ways to prove a claim (not at all, by a check, by
one the guard refuses). The failure and retry limits are smaller than the code's
(10, 2, 2), which changes when they bind and not what binding does; the proofs are
for any limits. Two servers are used where a check's scope matters. In
`InferenceRetry` the budget is such that a wait fits, fits exactly, or does not, and
complaints name each parameter, none, several and all. In `Keeper`, two names tell a
line that is written from one that is lost with it, and one server shared by two
runs, next to one that is not, gives inheritance, clashes and stale files. One install left
running (`MaxLeft`) can land before, between and after the pushes of its own run and of the
next; a second would be one more excuse of the kind the properties name. `FewUses` follows no
run beyond its first credential on its first server: what is minted later meets the same
files by the same actions. The proofs are without either bound.

In `ScriptStaging`, two steps in one run let a process left over from the first meet the
second, and the run of one lets a later run meet it under the same number; a third number
would share its file with nobody. In `PeerSurvey`, three servers are the least where what
one confirms is tried by another and contradicted by a third; the reports have a bridge
address that all share, an address on the public interface, and two private ones. In
`Session`, the lists hold each way to clash and each way not to; three servers let labels
skip one that is taken. In `StepParse`, four lines after an opening are enough for a key, its
text, what ends it and what follows; the kinds of line are those `parse` tells apart. In
`GuardVerdict`, four lines give a command continued, a heredoc opened, filled and ended, and
five two files written by one command, each with its end. In
`Conversation`, the sizes of replies are one that is never cut, one that a cut would make
longer and one that fills half a window; with four turns two of them can be cut.

**Fairness.** `AgentLoop` has weak fairness of `Next` except in its waits (`Awaits`): the
process goes on running, but nothing in it ends a wait of these for certain. `input()` waits
for the operator. The gateway's timeout runs from one read to the next, so a reply that
trickles in holds the loop. The SFTP calls of `run_script` and `write_file` have no timeout,
and `_drain` looks at its deadline only where the output pauses, so a server can hold a
step, a check or a push. `Termination` therefore says what the loop's own bounds achieve: a
run ends, or stands still for good in one such wait; no answers keep it going round. The
other modules state safety only.

**Deadlock.** It is checked but in `ScriptStaging` and `Conversation`, whose runs simply end;
the others say that they are over with a step that changes nothing.

Each property has a mutant, an operator marked "Not the code" that stands before
the definition it replaces and is a plausible bug there.

## What is proved

Every safety property a passing run checks is a theorem for every value of the constants.
Constants are constrained only by the assumption each module
names (`FleetAssumption`, `PlanAssumption`, `LimitAssumption`, `RetryAssumption`, `KeeperAssumption`,
`StagingAssumption`, `NodesAssumption`, `CallAssumption`, `ConversationAssumption`,
`ParseAssumption`, `SurveyAssumption`, `AskedAssumption`): they say what kind of value a constant is. TLC
evaluates them, and each invariant below was checked by TLC on the run's instance first.

| Property | Theorem | Property | Theorem |
| --- | --- | --- | --- |
| `AgentLoop!TypeOK` | `TypeCorrect` | `ScriptStaging!TypeOK` | `TypeCorrect` |
| `RanWithPermission`, `DoneIsProven` | `Safety`, `DoneProven` | `KeptPrivate` | `KeptPrivateAlways` |
| `SpendOvershoot` | `Overshoot` | `StrayIsReported` | `OnlyJudgedRuns` |
| `EffectsOnRecord` | `OnRecord` | `NoneOfItRan` | `RefusedNeverRuns` |
| `KeepsContract` | `Refinement` | `LastWriteStands` | `LastWriteHolds` |
| `EndingIsEarned`, `StepsAccounted` | `EndingsAgree`, `CountsAgree` | `AllOrNone` | `WholeFleet` |
| `CredentialWaitsForAStep` | `NoLongWait` | `StartedWithConsent` | `AskedFirst` |
| `InferenceRetry!TypeOK` | `RequestTypeCorrect` | `CodeTellsEnding` | `CodeIsTrue` |
| `LoopNeverRunsOut` | `RetryKeepsItsBounds` | `NamesFindTheirServer` | `AddressedAsMeant` |
| `BudgetDecides`, `OnlyRefusedDropped` | `BudgetAlone`, `OnlyNamedGo` | `LabelsDoNotClash` | `RefusedForCause` |
| `Keeper!TypeOK` | `TypeCorrect` | `WhatComesLastIsWhole` | `LastIsWhole` |
| `KeepsPromise` | `PromiseIsKept` | `CutOldestFirst` | `OldestGoesFirst` |
| `LinesStay` | `NothingLostInSilence` | `PromptFits` | `RequestsFit` |
| `PushedOrTold` | `NothingUntold` | `EachLineOnce` | `ReadOnce` |
| `SavedAtTheEnd` | `WrittenDown` | `NothingHalfRun` | `CommandsRunWhole` |
| `NoteIsTrue` | `TheNoteIsTrue` | `AimedAsNamed` | `StepsGoWhereNamed` |
| `ConfirmedIsTriedFirst` | `WhatWorkedIsTriedFirst` | `PathsAreFair` | `JudgedFairly` |
| `StrictestDecides` | `VerdictIsStrictest` | `JudgedTheSame` | `VerdictIsOnWhatIsDone` |

**`AgentLoop_proofs`.** `RanWithPermission` is not inductive: `RunWork` adds what was
permitted an action earlier, so the invariant carries `PermitHeld`, which says that
in `execute` the step in hand has its permission. `DoneIsProven` needs the results to
be of the plan of the step in hand while the loop is in `verify`, and that a skipped
check is one the guard refuses (`ResultsFit`). Refinement needs, beside these, that work runs in
order (`RanInOrder`). `Overshoot` bounds the spend of the step in hand by its
replies so far; `OnRecord` ties the length of the record to the step number. The endings
rest on `CountsFit`: each counter is what the record shows since it was last reset, or one
more while the entry is on its way there; the lemmas before it say what one more entry does
to such a count (`ThoseGrow`, `LatestGrows`).

`EverNearer` is the safety half of `Termination`, for any limits. Every step that changes
anything begins the next step of the run, or moves the step in hand on (`Rank`), or leaves
it where it is with less to repeat (`Remaining`: questions to the gateway, checks to make);
`Bounded` says that none of the three can go on for ever. It needs the checks of one claim to
be finitely many, which `PlanAssumption` says of the lists they come from: the fleet, the
harness's own checks and the `VERIFY` lines of a reply. The commands need not be.

**`Inference_proofs`**, of `InferenceRetry` and `Conversation`. Of a request: every turn taken was
one fix, one wait or one unreadable reply; there are seven fixes, each wait costs the floor
(`WaitsCost`), and so the turns of the loop outlast them all. Of the messages: `_compact` and
`_relieve` are sums and choices over them, so the lemmas say what each may touch: nothing but
observations and replies, never the newest, and of either kind a beginning (`Stale`, `Spared`),
and that cutting a message which is cut already changes nothing. The budgets are rounded
down, and the lemmas bound them by the window they are shares of.

**`Keeper_proofs`.** `TypeCorrect`, `NamesAreStable`, `PromiseIsKept` and `WrittenDown` hold however runs
overlap and whatever fails. `NothingLostInSilence` and `NothingUntold` assume that runs do not
overlap and that files can be read, and no more: writes may fail, any number of
servers may be shared in any way, and runs may be interrupted or die anywhere. Their
invariant says that at most one run is under way; that a run's values are nowhere
before it resolves anything; that the run under way knows every line of the files it
has been through, or reported a clash, or that a late install put it there (`Gathered`, `Late`),
which is what makes overwriting a whole file harmless; that a push under way has reached the
servers behind it (`Pushed`), and that what counts as saved has reached every server
(`Settled`). To have reached a server is more than to be on it: whoever may write there next
knows the value (`Reached`), or somebody was told or an install was left running (`Excused`).
How many are left running does not matter to the proofs.
`WrittenDown` needs that what was taken to a server is in memory (`GivenIsStored`) and that
a run which has ended saved its memory as it then was (`EndedIsSaved`). The refinement needs
that a run under a push keeps credentials and still owes one (`Owing`), a debt `TypeOK` ties to a
value it minted: so a write is a `Tell`, one that failed is unseen or a `Send`, an install
that lands is an `Arrive`, and an interrupted push stays a push. `NamesAreStable` says of `Keeper` itself what
`CredentialContract` has as `Open`: no value changes under a step that has used it.

**`ScriptStaging_proofs`.** `TypeCorrect` and `KeptPrivateAlways` hold however runs overlap;
`OnlyJudgedRuns`, `RefusedNeverRuns` and `LastWriteHolds` assume one run
at a time; of these `StrayIsReported` and `LastWriteStands` are false without it. All rest on `Unanswered` (the step in hand has
no result, and a result once given stays) and `Attended` (a step without a result has on
the server the one process that is waited for, and at most the parse pass that is not
any more; a process that nobody waits for belongs to a step that says so). With these,
what a late process does is charged to a step whose result already is `timeout` or `lost`.
One run at a time adds that the script in hand is the one that was written (`Written`),
and that an install that ended well is the last but for those that were cut off (`Installed`).

**`Session_proofs`.** First `Fleet`: what the harness numbers is free, distinct and found
again. That needs a label left for every server; `NodesAssumption` says that of the
finite list `Nodes` that stands for `node1`, `node2` and so on without end. Then one
invariant, `CallInv`: by the place of the call, which connections stand (`Opened`), which
questions have had a yes from somebody entitled to it (`Consented`), and what is recorded and
reported (`Recorded`), which at the end gives what each code can mean beside a report.

**`StepParse_proofs`.** `ParseInv` has four parts. `ReadInv`: the fields hold lines that have
been read, each at most once, and the bodies lie in `swallowed`, so that a line read next is
in none of them. `CommandInv`: the lines below a command beside its key are its rest, or set
aside as not run. `HostInv`: of the HOST lines read that are part of no body, the first
stands. `Verdict`: what was handed over was judged of these fields. A reply is any
sequence of well-formed lines (`ParseAssumption`), of any length.

**`PeerSurvey_proofs`.** The candidates of a server are the first so many in an order that
changes when one of them is confirmed. `FirstsStay` shows that putting one of the first in
front of all lets nothing fall out, so that the *set* of candidates (`Base`) never
changes while the survey lasts, and what was confirmed is always one of it
(`CandidatesAreBase`, `KnownToAnswer`). `SurveyInv` then says of the path in hand that what was
tried and what is left are all there is to try, none twice, the confirmed one first, and
none of the tried ones answered (`InHand`); of each finished path, that it is settled by an
address that answered or by all of them having been tried (`Settled`); that no pair was left out
(`Covered`); and that the last path that worked says what is confirmed (`FromThere`).

**`GuardVerdict_proofs`.** The state is one answer, so the work is in what the operators compute.
`VerdictIsStrictest` is for scripts of any length, with commands that run on, heredocs in
the scripts that heredocs write, and lines that are left out. That `Verdicts` and `Roles`
satisfy the equations that define them has to be proved first (`VerdictsAreWalked`, by the length
of a span; `RolesFollow`, by the number of a line). `RolesOfACommand` and `RolesOfAFile` then say
that the lines `Walk` takes for one command, and for the file it writes, are the ones whose
roles say so; a line that neither goes on nor lies in a file is `Fresh`, and `Walk` goes
from one fresh line to the next (`FreshAfter`). `StrictestFromFresh` is the induction, from
the end of the script upwards: what is found from a fresh line on is the strictest of
all that starts there or later, which `KeptIsStrictest` adds one command to.

`VerdictIsOnWhatIsDone` is for every text whose words may quote texts that quote nothing further
(`ShallowTexts`): the guard looks three shells deep, `Wrapped` adds two, and so for a text that
nests deeper the property is false of the code. A command in the hands of a shell has
that shell's patterns and one segment, and is judged as the text it quotes one shell
deeper (`JudgedAs`); `ShallowAtAnyDepth` says that the depth makes no difference. That a
script of one line gets the verdict of the line uses `ScriptIsStrictest`, and that every verdict
is one of the three (`ShallowIsLevel`).

Induction over numbers, where a proof needs it, is by the least counterexample
(`LeastExists`, from the well-foundedness of `<` in the library).

Only model-checked: `Termination`, because liveness under fairness is beyond the prover. That the
step `EverNearer` speaks of is taken at all is left to TLC.

## What is not modelled

The text of messages, the guard's patterns, quoting, formatting and pricing are left
out for good: they are data no property here tells apart. Redaction is a property of
strings. Providers, catalog, price tables, model details, configuration and terminal
output are tables and printing, and keep no state that a run changes. Reading a reply's
text and usage out of a response, streamed or not, is data handling of one response;
what the loop sees of it is `Charge` and the reply actions. Of the facts, those that
decide something are in `Session` and `PeerSurvey`. The fake servers and probes are the
tests' own.

Of the guard, which pattern matches which text is given, programs that are judged by the
same rule are one, and python's name bindings and string building are left out. Of a
`--host` name, the pattern it must match is left out, and the empty name stands for those it refuses (`Fleet!Usable`). In
`ScriptStaging` all scripts of a number share one path whatever their suffix, and the names
`write_file` makes up are fresh.
