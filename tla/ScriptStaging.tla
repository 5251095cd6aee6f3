----------------------------- MODULE ScriptStaging -----------------------------
(***************************************************************************)
(* Scripts and files on their way to one server: SSHRunner.run_script and  *)
(* SSHRunner.write_file of do_dba/ssh.py, one action per round trip, with  *)
(* the processes they start there and the files that runs share.           *)
(*                                                                         *)
(* A step is <<run, number>>, and names its body: what the guard judged.   *)
(* A script goes to SCRIPT_DIR under its number; a file is staged in /tmp  *)
(* under a random name, which is taken to be fresh, and installed.         *)
(*                                                                         *)
(* What is abstracted:                                                     *)
(*  - All scripts of a number share one path: the suffix is left out.      *)
(*  - Every write_file is for the same target.                             *)
(*  - Opening a file and writing it are two round trips, its contents one. *)
(*  - A process the harness no longer waits for goes on: closing a channel *)
(*    without a terminal does not end what runs there.                     *)
(***************************************************************************)
EXTENDS Integers

CONSTANTS
  Runs,      \* the runs of the harness on this server, one after the other or not
  Last,      \* [Runs -> the number of its steps]
  Malformed, \* the steps whose script does not parse
  Nothing,   \* no body: an empty file, or none
  Overlap    \* runs may be under way together

Numbers == UNION {1 .. Last[r] : r \in Runs}
Steps   == {s \in Runs \X Numbers : s[2] <= Last[s[1]]}

ASSUME StagingAssumption ==
  /\ Last \in [Runs -> Nat]
  /\ Malformed \subseteq Steps
  /\ Nothing \notin Steps
  /\ Overlap \in BOOLEAN

VARIABLES
  at,      \* [Runs -> the number of the step in hand, 0 before the first]
  pc,      \* [Runs -> the next round trip]
  dir,     \* SCRIPT_DIR: absent, private (0700), or open (any other mode)
  script,  \* [Numbers -> the body and the mode of that file in SCRIPT_DIR]
  tmp,     \* the staging files in /tmp
  target,  \* the body of the file that write_file is for
  procs,   \* the processes on the server
  result,  \* [Steps -> what the step's result says, "none" before it]
  unread,  \* the steps whose parse pass was cut off at its deadline
  ran,     \* <<step, body>>: a process of that step executed that body
  latest   \* the last step whose write was reported done

harness == <<at, pc, result, unread, latest>>
files   == <<dir, script, tmp, target>>
vars    == <<harness, files, procs, ran>>

StepOf(r)    == <<r, at[r]>>
Working(r)   == pc[r] \notin {"next", "cut", "over"}
Waiting      == {"parse", "run", "install"}
ScriptPath(s)  == s[2]
\* Not the code: one name for the run.
StagingOfRun(s) == <<s[1], 0>>

StagingName(s) == s

Init ==
  /\ at = [r \in Runs |-> 0]
  /\ pc = [r \in Runs |-> "next"]
  /\ dir \in {"absent", "private", "open"}
  /\ script = [n \in Numbers |-> [body |-> Nothing, mode |-> "none"]]
  /\ tmp = {}
  /\ target = Nothing
  /\ procs = {}
  /\ result = [s \in Steps |-> "none"]
  /\ unread = {}
  /\ ran = {}
  /\ latest = Nothing

Go(r, place) == pc' = [pc EXCEPT ![r] = place]

\* The step's CommandResult goes back to the loop, which asks for the next.
Return(r, what) ==
  /\ result' = [result EXCEPT ![StepOf(r)] = what]
  /\ Go(r, IF at[r] = Last[r] THEN "over" ELSE "next")
  /\ UNCHANGED at

ProcessOf(r)  == [step |-> StepOf(r), does |-> pc[r], status |-> "running"]
Ended(r, how) == [ProcessOf(r) EXCEPT !.status = how]

\* The channel is closed over a process that still runs.
Abandoned(r) ==
  {IF p = ProcessOf(r) THEN [p EXCEPT !.status = "alone"] ELSE p : p \in procs}

\* The connection goes while a command is waited for: recv_exit_status gives -1 and
\* timed_out is not set, an ordinary result.  After a parse pass it reads as a refusal.
Drop(r) ==
  /\ pc[r] \in Waiting
  /\ result' = [result EXCEPT ![StepOf(r)] = IF pc[r] = "parse" THEN "unparsed" ELSE "dropped"]
  /\ Go(r, IF at[r] = Last[r] THEN "over" ELSE "cut")
  /\ procs' = Abandoned(r)
  /\ UNCHANGED <<at, unread, latest, files, ran>>

\* SSHError or a broken SFTP where a round trip starts, or the end of the harness
\* anywhere: the step has no result of its own, and the loop is over.
LoseConnection(r) ==
  /\ Working(r)
  /\ result' = [result EXCEPT ![StepOf(r)] = "lost"]
  /\ Go(r, "over")
  /\ procs' = Abandoned(r)
  /\ UNCHANGED <<at, unread, latest, files, ran>>

\* The next step.  After a dropped connection it finds none, and is lost.
Begin(r) ==
  /\ pc[r] \in {"next", "cut"} /\ at[r] < Last[r]
  /\ \A q \in Runs \ {r} : Overlap \/ at[q] = 0 \/ pc[q] = "over"
  /\ at' = [at EXCEPT ![r] = @ + 1]
  /\ IF pc[r] = "cut" THEN Go(r, "gone") ELSE \E place \in {"mkdir", "stage"} : Go(r, place)
  /\ UNCHANGED <<result, unread, latest, files, procs, ran>>

\* An operation over SFTP is refused by the server: OSError, caught.
SftpFails(r) ==
  /\ pc[r] \in {"mkdir", "stat", "open", "write", "chmod", "stage", "seal"}
  /\ Return(r, "failed")
  /\ UNCHANGED <<unread, latest, files, procs, ran>>

MakeDir(r) ==
  /\ pc[r] = "mkdir"
  /\ dir' = IF dir = "absent" THEN "private" ELSE dir
  /\ Go(r, "stat")
  /\ UNCHANGED <<at, result, unread, latest, script, tmp, target, procs, ran>>

\* Not the code: any directory will do.
CheckDirMade(r) ==
  /\ pc[r] = "stat"
  /\ Go(r, "open")
  /\ UNCHANGED <<at, result, unread, latest, files, procs, ran>>

CheckDir(r) ==
  /\ pc[r] = "stat" /\ dir = "private"
  /\ Go(r, "open")
  /\ UNCHANGED <<at, result, unread, latest, files, procs, ran>>

RefuseDir(r) ==
  /\ pc[r] = "stat" /\ dir # "private"
  /\ Return(r, "failed")
  /\ UNCHANGED <<unread, latest, files, procs, ran>>

\* open(path, "wb") empties a file that is there, and leaves it its mode.
OpenScript(r) ==
  /\ pc[r] = "open"
  /\ script' = [script EXCEPT ![ScriptPath(StepOf(r))] =
                  [body |-> Nothing, mode |-> IF @.mode = "none" THEN "umask" ELSE @.mode]]
  /\ Go(r, "write")
  /\ UNCHANGED <<at, result, unread, latest, dir, tmp, target, procs, ran>>

WriteScript(r) ==
  /\ pc[r] = "write"
  /\ script' = [script EXCEPT ![ScriptPath(StepOf(r))].body = StepOf(r)]
  /\ Go(r, "chmod")
  /\ UNCHANGED <<at, result, unread, latest, dir, tmp, target, procs, ran>>

\* run: a process is started over there, and waited for.
Launch(r, what, others) ==
  /\ procs' = others \cup {[step |-> StepOf(r), does |-> what, status |-> "running"]}
  /\ Go(r, what)

NarrowScript(r) ==
  /\ pc[r] = "chmod"
  /\ script' = [script EXCEPT ![ScriptPath(StepOf(r))].mode = "own"]
  /\ Launch(r, "parse", procs)
  /\ UNCHANGED <<at, result, unread, latest, dir, tmp, target, ran>>

\* Not the code: only the parse pass's time is looked at.
RunScriptAnyway(r) ==
  /\ pc[r] = "parse"
  /\ \E p \in procs :
       /\ p.step = StepOf(r) /\ p.does = "parse" /\ p.status # "alone"
       /\ Launch(r, "run", procs \ {p})
  /\ UNCHANGED <<at, result, unread, latest, files, ran>>

\* An exit code of 0, or a parse pass that ran out of time: the script is run.
RunScript(r) ==
  /\ pc[r] = "parse"
  /\ \/ /\ Ended(r, "ok") \in procs
        /\ Launch(r, "run", procs \ {Ended(r, "ok")})
        /\ UNCHANGED unread
     \/ /\ ProcessOf(r) \in procs
        /\ Launch(r, "run", Abandoned(r))
        /\ unread' = unread \cup {StepOf(r)}
  /\ UNCHANGED <<at, result, latest, files, ran>>

RefuseScript(r) ==
  /\ pc[r] = "parse" /\ Ended(r, "failed") \in procs
  /\ Return(r, "unparsed")
  /\ procs' = procs \ {Ended(r, "failed")}
  /\ UNCHANGED <<unread, latest, files, ran>>

ScriptEnds(r) ==
  /\ pc[r] = "run"
  /\ \E how \in {"ok", "failed"} :
       /\ Ended(r, how) \in procs
       /\ Return(r, how)
       /\ procs' = procs \ {Ended(r, how)}
  /\ UNCHANGED <<unread, latest, files, ran>>

\* Not the code: the result built from the command's loses its timed_out.
CutOffUnsaid(r) ==
  /\ pc[r] \in {"run", "install"} /\ ProcessOf(r) \in procs
  /\ Return(r, "failed")
  /\ procs' = Abandoned(r)
  /\ UNCHANGED <<unread, latest, files, ran>>

\* The deadline: the channel is closed and the result says timed_out.
CutOff(r) ==
  /\ pc[r] \in {"run", "install"} /\ ProcessOf(r) \in procs
  /\ Return(r, "timeout")
  /\ procs' = Abandoned(r)
  /\ UNCHANGED <<unread, latest, files, ran>>

StageFile(r) ==
  /\ pc[r] = "stage"
  /\ tmp' = {f \in tmp : f.name # StagingName(StepOf(r))} \cup
              {[name |-> StagingName(StepOf(r)), body |-> StepOf(r), sealed |-> FALSE]}
  /\ Go(r, "seal")
  /\ UNCHANGED <<at, result, unread, latest, dir, script, target, procs, ran>>

SealFile(r) ==
  /\ pc[r] = "seal"
  /\ tmp' = {IF f.name = StagingName(StepOf(r)) THEN [f EXCEPT !.sealed = TRUE] ELSE f : f \in tmp}
  /\ Launch(r, "install", procs)
  /\ UNCHANGED <<at, result, unread, latest, dir, script, target, ran>>

\* Not the code: the exit code of the rm alone.
InstallEndsWell(r) ==
  /\ pc[r] = "install"
  /\ \E how \in {"ok", "failed"} :
       /\ Ended(r, how) \in procs
       /\ procs' = procs \ {Ended(r, how)}
  /\ Return(r, "ok")
  /\ latest' = StepOf(r)
  /\ UNCHANGED <<unread, files, ran>>

InstallEnds(r) ==
  /\ pc[r] = "install"
  /\ \E how \in {"ok", "failed"} :
       /\ Ended(r, how) \in procs
       /\ Return(r, how)
       /\ procs' = procs \ {Ended(r, how)}
       /\ latest' = IF how = "ok" THEN StepOf(r) ELSE latest
  /\ UNCHANGED <<unread, files, ran>>

(***************************************************************************)
(* The server's side. What a process reads is what is in the file by then. *)
(***************************************************************************)
Exit(p, how) ==
  procs' = (procs \ {p}) \cup (IF p.status = "running" THEN {[p EXCEPT !.status = how]} ELSE {})

ParsePass(p) ==
  /\ p.does = "parse"
  /\ Exit(p, IF script[ScriptPath(p.step)].body \in Malformed THEN "failed" ELSE "ok")
  /\ UNCHANGED <<files, ran>>

\* An interpreter reads its file as it goes: it may read on, again and again.
Execute(p) ==
  /\ p.does = "run"
  /\ script[ScriptPath(p.step)].body # Nothing
  /\ ran' = ran \cup {<<p.step, script[ScriptPath(p.step)].body>>}
  /\ UNCHANGED <<files, procs>>

Leave(p) ==
  /\ p.does = "run"
  /\ \E how \in {"ok", "failed"} : Exit(p, how)
  /\ UNCHANGED <<files, ran>>

\* install -D && rm -f.
Install(p) ==
  /\ p.does = "install"
  /\ \E f \in tmp :
       /\ f.name = StagingName(p.step)
       /\ target' = f.body
       /\ tmp' = tmp \ {f}
  /\ Exit(p, "ok")
  /\ UNCHANGED <<dir, script, ran>>

\* Either of them is refused.
InstallFails(p) ==
  /\ p.does = "install"
  /\ \/ UNCHANGED target
     \/ \E f \in tmp : f.name = StagingName(p.step) /\ target' = f.body
  /\ Exit(p, "failed")
  /\ UNCHANGED <<dir, script, tmp, ran>>

FarEnd ==
  \E p \in procs :
    /\ p.status \in {"running", "alone"}
    /\ ParsePass(p) \/ Execute(p) \/ Leave(p) \/ Install(p) \/ InstallFails(p)
    /\ UNCHANGED harness

Step(r) ==
  \/ Begin(r) \/ Drop(r) \/ LoseConnection(r) \/ SftpFails(r)
  \/ MakeDir(r) \/ CheckDir(r) \/ RefuseDir(r) \/ OpenScript(r) \/ WriteScript(r)
  \/ NarrowScript(r) \/ RunScript(r) \/ RefuseScript(r) \/ ScriptEnds(r) \/ CutOff(r)
  \/ StageFile(r) \/ SealFile(r) \/ InstallEnds(r)

Next == FarEnd \/ \E r \in Runs : Step(r)

Spec == Init /\ [][Next]_vars
-----------------------------------------------------------------------------
Processes ==
  [step: Steps, does: Waiting, status: {"running", "alone", "ok", "failed"}]

TypeOK ==
  /\ at \in [Runs -> Numbers \cup {0}]
  /\ pc \in [Runs -> {"next", "mkdir", "stat", "open", "write", "chmod", "stage", "seal", "cut",
                       "gone", "over"} \cup Waiting]
  /\ dir \in {"absent", "private", "open"}
  /\ script \in [Numbers -> [body: Steps \cup {Nothing}, mode: {"none", "umask", "own"}]]
  /\ tmp \subseteq [name: Steps, body: Steps, sealed: BOOLEAN]
  /\ target \in Steps \cup {Nothing}
  /\ procs \subseteq Processes
  /\ result \in [Steps -> {"none", "ok", "failed", "unparsed", "timeout", "dropped", "lost"}]
  /\ unread \subseteq Steps
  /\ ran \subseteq Steps \X Steps
  /\ latest \in Steps \cup {Nothing}

\* With one run at a time, a process of a step executes the body of another only
\* when the result of its own step carried no exit status: cut off at its deadline,
\* lost, or an exit code of -1 over a dropped connection.  run_script leaves such a
\* process running, and a later run writes over the file it is reading.  A step that
\* was reported with an exit status never executes what was not judged for it.
StrayIsReported ==
  \A e \in ran : e[2] # e[1] => result[e[1]] \in {"timeout", "dropped", "lost"}

\* "None of it ran": a step refused by its parse pass, or by a connection that went
\* during it, executes nothing, then or later; and a script that does not parse is
\* executed by its own step only when the parse pass was cut off, which run_script
\* takes for leave to go on.
NoneOfItRan ==
  \A e \in ran :
    /\ result[e[1]] # "unparsed"
    /\ e[2] = e[1] /\ e[1] \in Malformed => e[1] \in unread

\* With one run at a time, write_file's target holds the last write that was
\* reported done, or one that was not: a late install may undo a later write,
\* and then its own result said that it had been cut off, dropped or lost.
LastWriteStands ==
  target \notin {Nothing, latest} => result[target] # "ok"

\* What a file may hold is kept from other accounts: scripts are written to a
\* private directory only, a file whose process was started had its mode
\* narrowed before, and what a write leaves in /tmp was reported.
KeptPrivate ==
  /\ \A n \in Numbers : script[n].body # Nothing => dir = "private"
  /\ \A p \in procs : p.does # "install" => script[ScriptPath(p.step)].mode = "own"
  /\ \A f \in tmp :
       /\ result[f.name] # "ok"
       /\ f.sealed \/ result[f.name] \in {"none", "failed", "lost"}

\* What run_script's docstring says of every script: what runs on the server is
\* byte for byte what was judged.
RanWhatWasJudged == \A e \in ran : e[2] = e[1]
=============================================================================
