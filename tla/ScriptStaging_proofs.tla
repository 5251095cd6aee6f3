------------------------- MODULE ScriptStaging_proofs -------------------------
(***************************************************************************)
(* Proofs about ScriptStaging, for any runs, steps and scripts. What is    *)
(* assumed of runs that overlap is said by each theorem.                   *)
(***************************************************************************)
EXTENDS ScriptStaging, TLAPS

\* A run begins with its first step.
Started == \A r \in Runs : at[r] \in 0 .. Last[r] /\ (at[r] = 0 => pc[r] = "next")

\* With no overlap, of two runs one has not begun or is over.
Alternate ==
  \A q, r \in Runs : q # r => at[q] = 0 \/ pc[q] = "over" \/ at[r] = 0 \/ pc[r] = "over"

\* The step in hand and those after it have no result yet.
InHand(s)  == s = StepOf(s[1]) /\ Working(s[1])
Unanswered ==
  \A s \in Steps : s[2] > at[s[1]] \/ InHand(s) => result[s] = "none"

\* Of a step without a result there is at most the process that is waited for, and
\* the parse pass that is not waited for any more.
Waited(p) ==
  result[p.step] = "none" =>
    /\ InHand(p.step)
    /\ p.does = pc[p.step[1]] \/ (p.does = "parse" /\ pc[p.step[1]] = "run" /\ p.status = "alone")

\* A process that nobody waits for was left by a deadline or by a connection that went.
Left(p) ==
  /\ p.status = "running" => result[p.step] = "none"
  /\ p.status = "alone" /\ p.does # "parse" => result[p.step] \in {"timeout", "dropped", "lost"}

OneOfAKind(p, q) == p.step = q.step /\ p.does = q.does => p = q

Attended == \A p \in procs : Waited(p) /\ Left(p) /\ \A q \in procs : OneOfAKind(p, q)

\* Without overlap: a script that is being run is the one that was written, and it
\* parses or its parse pass was cut off.
Written ==
  \A r \in Runs : pc[r] \in {"chmod", "parse", "run"} => script[at[r]].body = StepOf(r)

Sound ==
  \A p \in procs :
    /\ p.does = "parse" /\ p.status = "ok" => p.step \notin Malformed
    /\ p.does = "run" => p.step \notin Malformed \/ p.step \in unread

\* What was executed was executed by a step in its last round trip, or one that is
\* over and was not refused.
Executed ==
  \A e \in ran :
    /\ result[e[1]] = "none" => InHand(e[1]) /\ pc[e[1][1]] = "run"
    /\ result[e[1]] # "unparsed"

\* A directory that is written to is private.
PrivateDir ==
  /\ \A r \in Runs : pc[r] \in {"open", "write", "chmod", "parse", "run"} => dir = "private"
  /\ \A n \in Numbers : script[n].body # Nothing => dir = "private"

OwnScripts == \A p \in procs : p.does # "install" => script[p.step[2]].mode = "own"

\* A staging file is its step's and of the round trip that the step is in, or was
\* left by a step whose result says so.
Staged(f) ==
  /\ f.body = f.name
  /\ result[f.name] = "none" =>
       InHand(f.name) /\ pc[f.name[1]] \in {"seal", "install"}
                      /\ (pc[f.name[1]] = "install" => f.sealed)
  /\ result[f.name] # "ok"
  /\ f.sealed \/ result[f.name] \in {"none", "failed", "lost"}

Staging ==
  /\ \A f \in tmp : Staged(f)
  /\ \A f, g \in tmp : f.name = g.name => f = g
  /\ \A p \in procs : p.does = "install" /\ p.status = "ok" => \A f \in tmp : f.name # p.step

\* Whose write the target holds.
Target == target # Nothing /\ result[target] = "none" => InHand(target) /\ pc[target[1]] = "install"

\* Without overlap: an install that ended well is the last but for those that were
\* cut off.
Installed ==
  \A p \in procs : p.does = "install" /\ p.status = "ok" /\ result[p.step] = "none" =>
    target = p.step \/ (target # Nothing /\ result[target] \in {"timeout", "dropped", "lost"})

-----------------------------------------------------------------------------
Places ==
  {"next", "mkdir", "stat", "open", "write", "chmod", "stage", "seal", "cut", "gone", "over"}
  \cup Waiting

Results == {"none", "ok", "failed", "unparsed", "timeout", "dropped", "lost"}

\* The step in hand is one of the run's.
LEMMA HandFacts ==
  ASSUME TypeOK, Started, NEW r \in Runs, Working(r)
  PROVE  StepOf(r) \in Steps /\ at[r] \in Numbers /\ at[r] \in 1 .. Last[r]
<1>1. at[r] \in 1 .. Last[r] /\ Last[r] \in Nat
  BY StagingAssumption DEF Started, Working
<1>. QED
  BY <1>1 DEF StepOf, Steps, Numbers

\* Going on to another round trip moves no other run.
LEMMA GoFacts ==
  ASSUME TypeOK, NEW r \in Runs, NEW place \in Places, Go(r, place)
  PROVE  /\ pc' \in [Runs -> Places]
         /\ pc'[r] = place
         /\ \A q \in Runs \ {r} : pc'[q] = pc[q]
BY DEF TypeOK, Go, Places

\* A result is the step's in hand, and the run is between two steps or over.
LEMMA ReturnFacts ==
  ASSUME TypeOK, Started, NEW r \in Runs, Working(r), NEW what \in Results, Return(r, what)
  PROVE  /\ at' = at
         /\ pc' \in [Runs -> Places]
         /\ pc'[r] \in {"next", "cut", "over"}
         /\ \A q \in Runs \ {r} : pc'[q] = pc[q]
         /\ result' \in [Steps -> Results]
         /\ result'[StepOf(r)] = what
         /\ \A s \in Steps \ {StepOf(r)} : result'[s] = result[s]
<1>1. StepOf(r) \in Steps
  BY HandFacts
<1>2. at' = at /\ pc' \in [Runs -> Places] /\ pc'[r] \in {"next", "cut", "over"}
      /\ \A q \in Runs \ {r} : pc'[q] = pc[q]
  BY DEF TypeOK, Return, Go, Places
<1>3. result \in [Steps -> Results]
  BY DEF TypeOK, Results
<1>4. result' = [result EXCEPT ![StepOf(r)] = what]
  BY DEF Return
<1>. QED
  BY <1>1, <1>2, <1>3, <1>4

\* The processes a run starts and leaves are its step's.
LEMMA ProcessFacts ==
  ASSUME TypeOK, Started, NEW r \in Runs, Working(r), pc[r] \in Waiting
  PROVE  /\ ProcessOf(r) \in Processes
         /\ \A how \in {"ok", "failed"} : Ended(r, how) \in Processes
         /\ Abandoned(r) \subseteq Processes
<1>1. StepOf(r) \in Steps
  BY HandFacts
<1>2. ProcessOf(r) \in Processes
  BY <1>1 DEF ProcessOf, Processes
<1>3. \A how \in {"ok", "failed"} : Ended(r, how) \in Processes
  BY <1>2 DEF Ended, Processes
<1>4. Abandoned(r) \subseteq Processes
  BY DEF Abandoned, Processes, TypeOK
<1>. QED
  BY <1>2, <1>3, <1>4

\* What a process does over there by itself.
Does(p) ==
  /\ p.status \in {"running", "alone"}
  /\ ParsePass(p) \/ Execute(p) \/ Leave(p) \/ Install(p) \/ InstallFails(p)
  /\ UNCHANGED harness

\* A step is a run's, or that of a process, or nothing happens.
LEMMA SomeActor ==
  ASSUME [Next]_vars
  PROVE  UNCHANGED vars \/ (\E r \in Runs : Step(r)) \/ (\E p \in procs : Does(p))
BY DEF Next, FarEnd, Does

\* A process that ends is gone, or waits for its run to look at it.
LEMMA ExitFacts ==
  ASSUME procs \subseteq Processes, NEW p \in procs, NEW how \in {"ok", "failed"}, Exit(p, how)
  PROVE  /\ procs' \subseteq Processes
         /\ \A q \in procs' :
              \/ q \in procs /\ q # p
              \/ /\ p.status = "running"
                 /\ q.step = p.step /\ q.does = p.does /\ q.status = how
<1>1. [p EXCEPT !.status = how] \in Processes
  BY DEF Processes
<1>2. /\ [p EXCEPT !.status = how].step = p.step
      /\ [p EXCEPT !.status = how].does = p.does
      /\ [p EXCEPT !.status = how].status = how
  BY DEF Processes
<1>. QED
  BY <1>1, <1>2 DEF Exit

\* Every step of a run keeps the types.
LEMMA StepTyped ==
  ASSUME TypeOK, Started, NEW r \in Runs, Step(r)
  PROVE  TypeOK' /\ Started'
<1>. USE DEF TypeOK
<1>1. CASE Begin(r)
  <2>1. PICK place \in {"mkdir", "stage", "gone"} : Go(r, place)
    BY <1>1 DEF Begin
  <2>2. at[r] + 1 \in 1 .. Last[r] /\ at[r] + 1 \in Numbers
    <3>. HIDE DEF TypeOK
    <3>1. Last[r] \in Nat /\ at[r] \in 0 .. Last[r] /\ at[r] < Last[r]
      BY <1>1, StagingAssumption DEF Begin, Started
    <3>2. at[r] + 1 \in 1 .. Last[r]
      BY <3>1
    <3>. QED
      BY <3>2 DEF Numbers
  <2>3. place \in Places
    BY DEF Places
  <2>4. pc' \in [Runs -> Places] /\ pc'[r] = place /\ \A q \in Runs \ {r} : pc'[q] = pc[q]
    BY <2>1, <2>3, GoFacts
  <2>5. at' = [at EXCEPT ![r] = at[r] + 1]
    BY <1>1 DEF Begin
  <2>6. Started'
    BY <2>2, <2>4, <2>5, StagingAssumption DEF Started
  <2>7. at' \in [Runs -> Numbers \cup {0}]
    BY <2>2, <2>5
  <2>. QED
    BY <1>1, <2>4, <2>6, <2>7 DEF Begin, files, Places
<1>2. Working(r) => StepOf(r) \in Steps /\ at[r] \in Numbers
  BY HandFacts
<1>3. ASSUME Working(r), NEW what \in Results, Return(r, what), procs' \subseteq Processes,
             UNCHANGED <<unread, files, ran>>, latest' \in {latest, StepOf(r)}
      PROVE  TypeOK' /\ Started'
  <2>1. at' = at /\ pc' \in [Runs -> Places] /\ result' \in [Steps -> Results]
        /\ \A q \in Runs : pc'[q] = pc[q] \/ q = r
    BY <1>3, ReturnFacts
  <2>2. Started'
    BY <1>3, <2>1 DEF Started, Working
  <2>. QED
    BY <1>2, <1>3, <2>1, <2>2 DEF files, Places, Results
<1>4. CASE SftpFails(r)
  BY <1>3, <1>4 DEF SftpFails, Results, Working
<1>5. CASE RefuseDir(r)
  BY <1>3, <1>5 DEF RefuseDir, Results, Working
<1>6. CASE RefuseScript(r)
  BY <1>3, <1>6 DEF RefuseScript, Results, Working
<1>7. CASE ScriptEnds(r)
  BY <1>3, <1>7 DEF ScriptEnds, Results, Working
<1>8. CASE CutOff(r)
  <2>1. Abandoned(r) \subseteq Processes
    BY <1>8, ProcessFacts DEF CutOff, Working, Waiting
  <2>. QED
    BY <1>3, <1>8, <2>1 DEF CutOff, Results, Working
<1>9. CASE InstallEnds(r)
  BY <1>3, <1>9 DEF InstallEnds, Results, Working
<1>10. CASE Drop(r) \/ LoseConnection(r)
  <2>1. /\ Working(r) /\ procs' = Abandoned(r) /\ UNCHANGED <<at, unread, latest, files, ran>>
        /\ \E place \in Places : Go(r, place)
        /\ \E what \in Results : result' = [result EXCEPT ![StepOf(r)] = what]
    BY <1>10 DEF Drop, LoseConnection, Working, Waiting, Places, Results
  <2>2. pc' \in [Runs -> Places] /\ \A q \in Runs : pc'[q] = pc[q] \/ q = r
    BY <2>1, GoFacts
  <2>3. Abandoned(r) \subseteq Processes
    BY DEF Abandoned, Processes
  <2>4. Started'
    BY <2>1, <2>2 DEF Started, Working
  <2>. QED
    BY <1>2, <2>1, <2>2, <2>3, <2>4 DEF files, Places, Results
<1>11. ASSUME Working(r), NEW place \in Places, Go(r, place), procs' \subseteq Processes,
              unread' \subseteq Steps, UNCHANGED <<at, result, latest, target, ran>>,
              dir' \in {"absent", "private", "open"},
              script' \in [Numbers -> [body: Steps \cup {Nothing}, mode: {"none", "umask", "own"}]],
              tmp' \subseteq [name: Steps, body: Steps, sealed: BOOLEAN]
       PROVE  TypeOK' /\ Started'
  <2>1. pc' \in [Runs -> Places] /\ \A q \in Runs : pc'[q] = pc[q] \/ q = r
    BY <1>11, GoFacts
  <2>2. Started'
    BY <1>11, <2>1 DEF Started, Working
  <2>. QED
    BY <1>11, <2>1, <2>2 DEF Places
<1>12. CASE MakeDir(r)
  BY <1>11, <1>12 DEF MakeDir, Working, Places
<1>13. CASE CheckDir(r)
  BY <1>11, <1>13 DEF CheckDir, Working, Places, files
<1>14. CASE OpenScript(r)
  <2>1. /\ Working(r) /\ Go(r, "write") /\ "write" \in Places
        /\ UNCHANGED <<at, result, unread, latest, dir, tmp, target, procs, ran>>
    BY <1>14 DEF OpenScript, Working, Places
  <2>2. script' \in [Numbers -> [body: Steps \cup {Nothing}, mode: {"none", "umask", "own"}]]
    BY <1>2, <1>14, <2>1 DEF OpenScript, ScriptPath
  <2>. QED
    BY <1>11, <2>1, <2>2
<1>15. CASE WriteScript(r)
  <2>1. /\ Working(r) /\ Go(r, "chmod") /\ "chmod" \in Places
        /\ UNCHANGED <<at, result, unread, latest, dir, tmp, target, procs, ran>>
    BY <1>15 DEF WriteScript, Working, Places
  <2>2. script' \in [Numbers -> [body: Steps \cup {Nothing}, mode: {"none", "umask", "own"}]]
    BY <1>2, <1>15, <2>1 DEF WriteScript, ScriptPath
  <2>. QED
    BY <1>11, <2>1, <2>2
<1>16. CASE NarrowScript(r)
  <2>1. /\ Working(r) /\ Go(r, "parse") /\ "parse" \in Places
        /\ UNCHANGED <<at, result, unread, latest, dir, tmp, target, ran>>
    BY <1>16 DEF NarrowScript, Launch, Working, Places, Waiting
  <2>2. script' \in [Numbers -> [body: Steps \cup {Nothing}, mode: {"none", "umask", "own"}]]
    BY <1>2, <1>16, <2>1 DEF NarrowScript, ScriptPath
  <2>3. procs' \subseteq Processes
    BY <1>2, <1>16, <2>1 DEF NarrowScript, Launch, Processes, Waiting
  <2>. QED
    BY <1>11, <2>1, <2>2, <2>3
<1>17. CASE RunScript(r)
  <2>1. /\ Working(r) /\ Go(r, "run") /\ "run" \in Places
        /\ UNCHANGED <<at, result, latest, files, ran>>
    BY <1>17 DEF RunScript, Launch, Working, Places, Waiting
  <2>2. Abandoned(r) \subseteq Processes
    BY DEF Abandoned, Processes
  <2>3. procs' \subseteq Processes /\ unread' \subseteq Steps
    BY <1>2, <1>17, <2>1, <2>2 DEF RunScript, Launch, Processes, Waiting
  <2>. QED
    BY <1>11, <2>1, <2>3 DEF files
<1>18. CASE StageFile(r)
  <2>1. /\ Working(r) /\ Go(r, "seal") /\ "seal" \in Places
        /\ UNCHANGED <<at, result, unread, latest, dir, script, target, procs, ran>>
    BY <1>18 DEF StageFile, Working, Places
  <2>2. [name |-> StepOf(r), body |-> StepOf(r), sealed |-> FALSE]
          \in [name: Steps, body: Steps, sealed: BOOLEAN]
    BY <1>2, <2>1
  <2>3. tmp' \subseteq [name: Steps, body: Steps, sealed: BOOLEAN]
    BY <1>18, <2>2 DEF StageFile, StagingName
  <2>. QED
    BY <1>11, <2>1, <2>3
<1>19. CASE SealFile(r)
  <2>1. /\ Working(r) /\ Go(r, "install") /\ "install" \in Places
        /\ UNCHANGED <<at, result, unread, latest, dir, script, target, ran>>
    BY <1>19 DEF SealFile, Launch, Working, Places, Waiting
  <2>2. tmp' \subseteq [name: Steps, body: Steps, sealed: BOOLEAN]
    BY <1>19 DEF SealFile
  <2>3. procs' \subseteq Processes
    BY <1>2, <1>19, <2>1 DEF SealFile, Launch, Processes, Waiting
  <2>. QED
    BY <1>11, <2>1, <2>2, <2>3
<1>. QED
  BY <1>1, <1>4, <1>5, <1>6, <1>7, <1>8, <1>9, <1>10, <1>12, <1>13, <1>14, <1>15, <1>16, <1>17,
     <1>18, <1>19 DEF Step

\* So does every step of a process.
LEMMA DoesTyped ==
  ASSUME TypeOK, Started, NEW p \in procs, Does(p)
  PROVE  TypeOK' /\ Started'
<1>. USE DEF TypeOK
<1>1. Started'
  BY DEF Does, harness, Started
<1>2. p \in Processes /\ ScriptPath(p.step) \in Numbers
  BY DEF Processes, Steps, ScriptPath, Numbers
<1>3. CASE Execute(p)
  BY <1>1, <1>2, <1>3 DEF Does, harness, files, Execute, Processes
<1>4. procs' \subseteq Processes \/ Execute(p)
  BY ExitFacts DEF Does, ParsePass, Leave, Install, InstallFails
<1>5. /\ target' \in Steps \cup {Nothing}
      /\ tmp' \subseteq tmp
      /\ UNCHANGED <<dir, script>>
  BY DEF Does, ParsePass, Execute, Leave, Install, InstallFails, files
<1>6. CASE ~ Execute(p)
  BY <1>1, <1>4, <1>5, <1>6 DEF Does, harness, ParsePass, Leave, Install, InstallFails, files
<1>. QED
  BY <1>3, <1>6

LEMMA InitTyped ==
  ASSUME Init
  PROVE  TypeOK /\ Started
BY StagingAssumption DEF Init, TypeOK, Started, Waiting

\* Every variable keeps its type, and no run is ahead of its first or behind its last
\* step, however the runs overlap and whatever fails.
THEOREM TypeCorrect == Spec => [](TypeOK /\ Started)
<1>1. Init => TypeOK /\ Started
  BY InitTyped
<1>2. TypeOK /\ Started /\ [Next]_vars => TypeOK' /\ Started'
  <2>. SUFFICES ASSUME TypeOK, Started, [Next]_vars PROVE TypeOK' /\ Started'
    OBVIOUS
  <2>1. CASE UNCHANGED vars
    BY <2>1 DEF vars, harness, files, TypeOK, Started
  <2>. QED
    BY <2>1, SomeActor, StepTyped, DoesTyped
<1>. QED
  BY <1>1, <1>2, PTL DEF Spec
-----------------------------------------------------------------------------
(***************************************************************************)
(* What the steps of a run do to its place, its results and its processes. *)
(***************************************************************************)
LEMMA StepFacts ==
  ASSUME NEW s \in Steps
  PROVE  s[1] \in Runs /\ s[2] \in Numbers /\ s[2] \in Int /\ s = <<s[1], s[2]>>
BY StagingAssumption DEF Steps, Numbers

\* A round trip that nothing is waited for after.
Moves(r) ==
  /\ \/ MakeDir(r) /\ pc'[r] = "stat"
     \/ CheckDir(r) /\ pc'[r] = "open"
     \/ OpenScript(r) /\ pc'[r] = "write"
     \/ WriteScript(r) /\ pc'[r] = "chmod"
     \/ StageFile(r) /\ pc'[r] = "seal"
  /\ Working(r) /\ pc[r] \notin Waiting /\ pc'[r] \notin Waiting /\ pc'[r] \notin {"next", "cut", "over"}
  /\ UNCHANGED <<at, result, procs>>

\* One that starts the process that is waited for next.
Launches(r) ==
  /\ (NarrowScript(r) /\ pc'[r] = "parse") \/ (SealFile(r) /\ pc'[r] = "install")
  /\ Working(r) /\ pc[r] \notin Waiting
  /\ procs' = procs \cup {[step |-> StepOf(r), does |-> pc'[r], status |-> "running"]}
  /\ UNCHANGED <<at, result>>

\* The end of the step: without a process, or with the end of the one waited for, or
\* with one left behind.
Fails(r) ==
  pc[r] \notin Waiting /\ result'[StepOf(r)] = "failed" /\ UNCHANGED <<procs, latest>>
Ends(r)  ==
  /\ pc[r] \in Waiting
  /\ \E how \in {"ok", "failed"} :
       /\ Ended(r, how) \in procs /\ procs' = procs \ {Ended(r, how)}
       /\ result'[StepOf(r)] = IF pc[r] = "parse" THEN "unparsed" ELSE how
       /\ latest' = IF pc[r] = "install" /\ how = "ok" THEN StepOf(r) ELSE latest
Drops(r) ==
  /\ procs' = Abandoned(r) /\ UNCHANGED latest
  /\ IF pc[r] = "parse"
     THEN result'[StepOf(r)] \in {"unparsed", "lost"}
     ELSE result'[StepOf(r)] \in {"timeout", "dropped", "lost"}
  /\ result'[StepOf(r)] # "lost" => pc[r] \in Waiting
Answers(r) ==
  /\ Working(r) /\ pc'[r] \in {"next", "cut", "over"} /\ UNCHANGED <<at, unread, files>>
  /\ \A s \in Steps \ {StepOf(r)} : result'[s] = result[s]
  /\ Fails(r) \/ Ends(r) \/ Drops(r)

LEMMA StepShape ==
  ASSUME TypeOK, Started, NEW r \in Runs, Step(r)
  PROVE  /\ \A q \in Runs \ {r} : pc'[q] = pc[q] /\ at'[q] = at[q]
         /\ Begin(r) \/ Moves(r) \/ Launches(r) \/ RunScript(r) \/ Answers(r)
<1>1. CASE Begin(r)
  <2>1. PICK place \in {"mkdir", "stage", "gone"} : Go(r, place)
    BY <1>1 DEF Begin
  <2>2. \A q \in Runs \ {r} : pc'[q] = pc[q]
    BY <2>1, GoFacts DEF Places
  <2>. QED
    BY <1>1, <2>2 DEF Begin, TypeOK
<1>2. ASSUME Working(r), NEW what \in Results, Return(r, what)
      PROVE  /\ \A q \in Runs \ {r} : pc'[q] = pc[q] /\ at'[q] = at[q]
             /\ Working(r) /\ pc'[r] \in {"next", "cut", "over"} /\ UNCHANGED at
             /\ \A s \in Steps \ {StepOf(r)} : result'[s] = result[s]
             /\ result'[StepOf(r)] = what
  BY <1>2, ReturnFacts
<1>3. CASE SftpFails(r) \/ RefuseDir(r)
  <2>1. Working(r) /\ "failed" \in Results /\ Return(r, "failed") /\ pc[r] \notin Waiting
        /\ UNCHANGED <<procs, latest, unread, files>>
    BY <1>3 DEF SftpFails, RefuseDir, Working, Results, Waiting
  <2>. QED
    BY <1>2, <2>1 DEF Answers, Fails
<1>4. CASE RefuseScript(r) \/ ScriptEnds(r) \/ InstallEnds(r)
  <2>1. PICK what \in {"ok", "failed", "unparsed"}, how \in {"ok", "failed"} :
          /\ Working(r) /\ Return(r, what) /\ pc[r] \in Waiting
          /\ Ended(r, how) \in procs /\ procs' = procs \ {Ended(r, how)}
          /\ what = IF pc[r] = "parse" THEN "unparsed" ELSE how
          /\ latest' = IF pc[r] = "install" /\ how = "ok" THEN StepOf(r) ELSE latest
          /\ UNCHANGED <<unread, files>>
    BY <1>4 DEF RefuseScript, ScriptEnds, InstallEnds, Working, Waiting
  <2>2. what \in Results
    BY DEF Results
  <2>. QED
    BY <1>2, <2>1, <2>2 DEF Answers, Ends
<1>5. CASE CutOff(r)
  <2>1. Working(r) /\ "timeout" \in Results /\ Return(r, "timeout") /\ procs' = Abandoned(r)
        /\ UNCHANGED <<latest, unread, files>> /\ pc[r] \in {"run", "install"}
    BY <1>5 DEF CutOff, Working, Results
  <2>. QED
    BY <1>2, <2>1 DEF Answers, Drops, Waiting
<1>6. CASE Drop(r) \/ LoseConnection(r)
  <2>1. PICK place \in {"cut", "over"}, what \in {"unparsed", "dropped", "lost"} :
          /\ Working(r) /\ Go(r, place) /\ result' = [result EXCEPT ![StepOf(r)] = what]
          /\ procs' = Abandoned(r) /\ UNCHANGED <<at, unread, latest, files>>
          /\ what \in (IF pc[r] = "parse" THEN {"unparsed", "lost"} ELSE {"dropped", "lost"})
          /\ what # "lost" => pc[r] \in Waiting
    BY <1>6 DEF Drop, LoseConnection, Working, Waiting
  <2>2. pc'[r] = place /\ \A q \in Runs \ {r} : pc'[q] = pc[q]
    BY <2>1, GoFacts DEF Places
  <2>3. /\ \A s \in Steps \ {StepOf(r)} : result'[s] = result[s]
        /\ result'[StepOf(r)] = what
    <3>1. StepOf(r) \in Steps
      BY <2>1, HandFacts
    <3>2. result \in [Steps -> Results]
      BY DEF TypeOK, Results
    <3>. QED
      BY <2>1, <3>1, <3>2
  <2>4. Drops(r)
    BY <2>1, <2>3 DEF Drops
  <2>. QED
    BY <2>1, <2>2, <2>3, <2>4 DEF Answers
<1>7. ASSUME Working(r), NEW place \in Places, Go(r, place), UNCHANGED at
      PROVE  pc'[r] = place /\ \A q \in Runs \ {r} : pc'[q] = pc[q] /\ at'[q] = at[q]
  BY <1>7, GoFacts
<1>8. CASE MakeDir(r) \/ CheckDir(r) \/ OpenScript(r) \/ WriteScript(r) \/ StageFile(r)
  <2>1. PICK place \in {"stat", "open", "write", "chmod", "seal"} :
          /\ Go(r, place) /\ pc[r] \in {"mkdir", "stat", "open", "write", "stage"}
          /\ UNCHANGED <<at, result, procs>>
          /\ \/ MakeDir(r) /\ place = "stat"
             \/ CheckDir(r) /\ place = "open"
             \/ OpenScript(r) /\ place = "write"
             \/ WriteScript(r) /\ place = "chmod"
             \/ StageFile(r) /\ place = "seal"
    BY <1>8 DEF MakeDir, CheckDir, OpenScript, WriteScript, StageFile
  <2>2. Working(r) /\ place \in Places /\ pc[r] \notin Waiting
    BY <2>1 DEF Working, Places, Waiting
  <2>3. pc'[r] = place /\ \A q \in Runs \ {r} : pc'[q] = pc[q] /\ at'[q] = at[q]
    BY <1>7, <2>1, <2>2
  <2>. QED
    BY <2>1, <2>2, <2>3 DEF Moves, Waiting
<1>9. CASE NarrowScript(r) \/ SealFile(r)
  <2>1. PICK place \in {"parse", "install"} :
          /\ Go(r, place) /\ UNCHANGED <<at, result>>
          /\ (NarrowScript(r) /\ place = "parse") \/ (SealFile(r) /\ place = "install")
          /\ procs' = procs \cup {[step |-> StepOf(r), does |-> place, status |-> "running"]}
    BY <1>9 DEF NarrowScript, SealFile, Launch
  <2>2. Working(r) /\ place \in Places /\ pc[r] \notin Waiting
    BY <2>1 DEF NarrowScript, SealFile, Working, Places, Waiting
  <2>3. pc'[r] = place /\ \A q \in Runs \ {r} : pc'[q] = pc[q] /\ at'[q] = at[q]
    BY <1>7, <2>1, <2>2
  <2>. QED
    BY <2>1, <2>2, <2>3 DEF Launches
<1>10. CASE RunScript(r)
  <2>1. Working(r) /\ Go(r, "run") /\ "run" \in Places /\ UNCHANGED at
    BY <1>10 DEF RunScript, Launch, Working, Places, Waiting
  <2>. QED
    BY <1>7, <1>10, <2>1
<1>. QED
  BY <1>1, <1>3, <1>4, <1>5, <1>6, <1>8, <1>9, <1>10 DEF Step

LEMMA RunScriptFacts ==
  ASSUME TypeOK, NEW r \in Runs, RunScript(r)
  PROVE  /\ Working(r) /\ pc[r] = "parse" /\ pc'[r] = "run"
         /\ UNCHANGED <<at, result, latest, files, ran>>
<1>1. Go(r, "run") /\ "run" \in Places
  BY DEF RunScript, Launch, Places, Waiting
<1>2. pc'[r] = "run"
  BY <1>1, GoFacts
<1>. QED
  BY <1>2 DEF RunScript, Working

LEMMA BeginFacts ==
  ASSUME TypeOK, Started, NEW r \in Runs, Begin(r)
  PROVE  /\ pc[r] \in {"next", "cut"} /\ pc'[r] \in {"mkdir", "stage", "gone"}
         /\ at[r] \in Int /\ at'[r] = at[r] + 1
         /\ UNCHANGED <<result, unread, latest, files, procs, ran>>
<1>1. PICK place \in {"mkdir", "stage", "gone"} : Go(r, place)
  BY DEF Begin
<1>2. pc'[r] = place
  BY <1>1, GoFacts DEF Places
<1>. QED
  BY <1>2, StagingAssumption DEF Begin, TypeOK, Started

\* Results are given once, to the step in hand.
LEMMA StepUnanswered ==
  ASSUME TypeOK, Started, Unanswered, NEW r \in Runs, Step(r)
  PROVE  /\ Unanswered'
         /\ \A s \in Steps : result[s] # "none" => result'[s] = result[s]
<1>1. /\ \A q \in Runs \ {r} : pc'[q] = pc[q] /\ at'[q] = at[q]
      /\ Begin(r) \/ Moves(r) \/ Launches(r) \/ RunScript(r) \/ Answers(r)
  BY StepShape
<1>2. CASE Begin(r)
  <2>1. ASSUME NEW s \in Steps, s[2] > at'[s[1]] \/ InHand(s)' PROVE result[s] = "none"
    <3>1. s[2] > at[s[1]] \/ InHand(s)
      BY <1>1, <1>2, <2>1, BeginFacts, StepFacts DEF InHand, StepOf, Working
    <3>. QED
      BY <3>1 DEF Unanswered
  <2>. QED
    BY <1>2, <2>1, BeginFacts DEF Unanswered
<1>3. CASE Moves(r) \/ Launches(r) \/ RunScript(r)
  <2>1. Working(r) /\ UNCHANGED <<at, result>>
    BY <1>3, RunScriptFacts DEF Moves, Launches, Working
  <2>2. ASSUME NEW s \in Steps, s[2] > at'[s[1]] \/ InHand(s)' PROVE s[2] > at[s[1]] \/ InHand(s)
    BY <1>1, <2>1, <2>2, StepFacts DEF InHand, StepOf, Working
  <2>. QED
    BY <2>1, <2>2 DEF Unanswered
<1>4. CASE Answers(r)
  <2>1. StepOf(r) \in Steps /\ InHand(StepOf(r))
    BY <1>4, HandFacts DEF Answers, InHand, StepOf
  <2>2. at[r] \in Int
    BY StagingAssumption DEF Started
  <2>3. ASSUME NEW s \in Steps, s[2] > at'[s[1]] \/ InHand(s)' PROVE result'[s] = "none"
    <3>1. s # StepOf(r) /\ (s[2] > at[s[1]] \/ InHand(s))
      BY <1>1, <1>4, <2>2, <2>3, StepFacts DEF InHand, StepOf, Working, Answers
    <3>. QED
      BY <1>4, <3>1 DEF Answers, Unanswered
  <2>. QED
    BY <1>4, <2>1, <2>3 DEF Unanswered, Answers
<1>. QED
  BY <1>1, <1>2, <1>3, <1>4

-----------------------------------------------------------------------------
(***************************************************************************)
(* Who waits for what: the processes, and what was executed.               *)
(***************************************************************************)
Basic == TypeOK /\ Started /\ Unanswered /\ Attended

\* The step in hand has the process that is waited for, and a parse pass that is not.
LEMMA InHandFacts ==
  ASSUME Basic, NEW r \in Runs, Working(r)
  PROVE  /\ StepOf(r) \in Steps /\ InHand(StepOf(r)) /\ result[StepOf(r)] = "none"
         /\ \A p \in procs : p.step = StepOf(r) =>
              p.does = pc[r] \/ (p.does = "parse" /\ pc[r] = "run" /\ p.status = "alone")
         /\ \A p \in procs : p.step = StepOf(r) => pc[r] \in Waiting
<1>1. StepOf(r) \in Steps
  BY HandFacts DEF Basic
<1>2. InHand(StepOf(r)) /\ StepOf(r)[1] = r
  BY DEF InHand, StepOf
<1>3. result[StepOf(r)] = "none"
  BY <1>1, <1>2 DEF Basic, Unanswered
<1>4. \A p \in procs : p.step = StepOf(r) =>
        p.does = pc[r] \/ (p.does = "parse" /\ pc[r] = "run" /\ p.status = "alone")
  BY <1>2, <1>3 DEF Basic, Attended, Waited
<1>. QED
  BY <1>1, <1>2, <1>3, <1>4 DEF Basic, TypeOK, Processes, Waiting

\* What a run does to its step changes nothing for the processes of another.
LEMMA OtherFacts ==
  ASSUME Basic, NEW r \in Runs, NEW p \in procs,
         \A q \in Runs \ {r} : pc'[q] = pc[q] /\ at'[q] = at[q],
         p.step # StepOf(r) \/ ~ Working(r), result'[p.step] = result[p.step]
  PROVE  Waited(p)' /\ Left(p)'
<1>1. p.step \in Steps /\ Waited(p) /\ Left(p)
  BY DEF Basic, Attended, TypeOK, Processes
<1>2. p.step[1] \in Runs
  BY <1>1, StepFacts
<1>3. Left(p)'
  BY <1>1 DEF Left
<1>4. result[p.step] = "none" => p.step[1] # r
  BY <1>1 DEF Waited, InHand
<1>. QED
  BY <1>1, <1>2, <1>3, <1>4 DEF Waited, InHand, StepOf, Working

LEMMA AbandonedFacts ==
  ASSUME Basic, NEW r \in Runs, NEW q \in Abandoned(r)
  PROVE  \E p \in procs :
           /\ q.step = p.step /\ q.does = p.does
           /\ (p # ProcessOf(r) /\ q = p) \/ (p = ProcessOf(r) /\ q.status = "alone")
<1>1. PICK p \in procs : q = IF p = ProcessOf(r) THEN [p EXCEPT !.status = "alone"] ELSE p
  BY DEF Abandoned
<1>2. p \in Processes
  BY DEF Basic, TypeOK
<1>. QED
  BY <1>1, <1>2 DEF Processes

LEMMA ProcessFields ==
  ASSUME NEW r \in Runs
  PROVE  /\ ProcessOf(r).step = StepOf(r) /\ ProcessOf(r).does = pc[r] /\ ProcessOf(r).status = "running"
         /\ \A how \in {"ok", "failed"} :
              Ended(r, how).step = StepOf(r) /\ Ended(r, how).does = pc[r] /\ Ended(r, how).status = how
BY DEF ProcessOf, Ended

\* The process waited for is the only one of its step that may be running.
LEMMA RunningFacts ==
  ASSUME Basic, NEW r \in Runs, Working(r), NEW p \in procs, p.step = StepOf(r), p.status = "running"
  PROVE  p = ProcessOf(r)
<1>1. p.does = pc[r]
  BY InHandFacts
<1>2. p \in Processes
  BY DEF Basic, TypeOK
<1>. QED
  BY <1>1, <1>2 DEF Processes, ProcessOf

LEMMA StepAttended ==
  ASSUME Basic, NEW r \in Runs, Step(r)
  PROVE  Attended'
<1>1. /\ \A q \in Runs \ {r} : pc'[q] = pc[q] /\ at'[q] = at[q]
      /\ Begin(r) \/ Moves(r) \/ Launches(r) \/ RunScript(r) \/ Answers(r)
  BY StepShape DEF Basic
<1>2. \A p \in procs : p.step \in Steps
  BY DEF Basic, TypeOK, Processes
<1>3. \A p, q \in procs : OneOfAKind(p, q)
  BY DEF Basic, Attended
<1>4. CASE Begin(r)
  <2>1. ~ Working(r) /\ procs' = procs /\ result' = result
    BY <1>4, BeginFacts DEF Basic, Working
  <2>. QED
    BY <1>1, <1>3, <2>1, OtherFacts DEF Attended, OneOfAKind
<1>5. CASE Moves(r)
  <2>1. \A p \in procs : p.step # StepOf(r)
    BY <1>5, InHandFacts DEF Moves
  <2>. QED
    BY <1>1, <1>3, <1>5, <2>1, OtherFacts DEF Attended, OneOfAKind, Moves
\* The step in hand, with a new process.
<1>6. ASSUME Working(r), pc'[r] \in Waiting, UNCHANGED <<at, result>>,
             NEW n, n = [step |-> StepOf(r), does |-> pc'[r], status |-> "running"]
      PROVE  Waited(n)' /\ Left(n)' /\ n.step = StepOf(r) /\ n.does = pc'[r]
  BY <1>6, InHandFacts DEF Waited, Left, InHand, StepOf, Working, Waiting
<1>7. CASE Launches(r)
  <2>. PICK n : n = [step |-> StepOf(r), does |-> pc'[r], status |-> "running"]
    OBVIOUS
  <2>1. Working(r) /\ pc[r] \notin Waiting /\ pc'[r] \in Waiting
    BY <1>7 DEF Launches, Working, Waiting
  <2>2. \A p \in procs : p.step # StepOf(r)
    BY <2>1, InHandFacts
  <2>3. \A p \in procs : Waited(p)' /\ Left(p)'
    BY <1>1, <1>7, <2>2, OtherFacts DEF Launches
  <2>4. Waited(n)' /\ Left(n)' /\ n.step = StepOf(r)
    BY <1>6, <1>7, <2>1 DEF Launches
  <2>5. procs' = procs \cup {n}
    BY <1>7 DEF Launches
  <2>. QED
    BY <1>3, <2>2, <2>3, <2>4, <2>5 DEF Attended, OneOfAKind
<1>8. CASE RunScript(r)
  <2>. PICK n : n = [step |-> StepOf(r), does |-> "run", status |-> "running"]
    OBVIOUS
  <2>1. Working(r) /\ pc[r] = "parse" /\ pc'[r] = "run" /\ UNCHANGED <<at, result>>
    BY <1>8, RunScriptFacts DEF Basic
  <2>2. pc'[r] \in Waiting
    BY <2>1 DEF Waiting
  <2>3. Waited(n)' /\ Left(n)' /\ n.step = StepOf(r) /\ n.does = "run"
    BY <1>6, <2>1, <2>2
  <2>4. \A p \in procs : p.step = StepOf(r) => p.does = "parse"
    BY <2>1, InHandFacts
  <2>5. \/ Ended(r, "ok") \in procs /\ procs' = (procs \ {Ended(r, "ok")}) \cup {n}
        \/ ProcessOf(r) \in procs /\ procs' = Abandoned(r) \cup {n}
    BY <1>8 DEF RunScript, Launch
  <2>6. CASE Ended(r, "ok") \in procs /\ procs' = (procs \ {Ended(r, "ok")}) \cup {n}
    <3>1. \A p \in procs : p # Ended(r, "ok") => p.step # StepOf(r)
      BY <1>3, <2>1, <2>4, <2>6, ProcessFields DEF OneOfAKind
    <3>2. \A p \in procs : p # Ended(r, "ok") => Waited(p)' /\ Left(p)'
      BY <1>1, <2>1, <3>1, OtherFacts
    <3>. QED
      BY <1>3, <2>3, <2>6, <3>1, <3>2 DEF Attended, OneOfAKind
  <2>7. CASE ProcessOf(r) \in procs /\ procs' = Abandoned(r) \cup {n}
    <3>1. \A p \in procs : p # ProcessOf(r) => p.step # StepOf(r)
      BY <1>3, <2>1, <2>4, <2>7, ProcessFields DEF OneOfAKind
    <3>2. \A p \in procs : p # ProcessOf(r) => Waited(p)' /\ Left(p)'
      BY <1>1, <2>1, <3>1, OtherFacts
    <3>3. \A q \in Abandoned(r) : q.step = StepOf(r) =>
            q.does = "parse" /\ q.status = "alone" /\ Waited(q)' /\ Left(q)'
      <4>. SUFFICES ASSUME NEW q \in Abandoned(r), q.step = StepOf(r)
                    PROVE  q.does = "parse" /\ q.status = "alone" /\ Waited(q)' /\ Left(q)'
        OBVIOUS
      <4>1. q.does = "parse" /\ q.status = "alone"
        BY <2>4, <3>1, AbandonedFacts
      <4>2. InHand(q.step)' /\ q.step[1] = r
        BY <2>1 DEF InHand, StepOf, Working
      <4>. QED
        BY <2>1, <4>1, <4>2 DEF Waited, Left
    <3>4. \A q \in Abandoned(r) : q.step # StepOf(r) => q \in procs /\ q # ProcessOf(r)
      BY AbandonedFacts, ProcessFields
    <3>5. \A q \in procs' : Waited(q)' /\ Left(q)'
      BY <2>3, <2>7, <3>2, <3>3, <3>4
    <3>6. \A p, q \in Abandoned(r) : OneOfAKind(p, q)
      BY <1>3, AbandonedFacts DEF OneOfAKind, Abandoned
    <3>7. \A p, q \in procs' : OneOfAKind(p, q)
      BY <2>3, <2>7, <3>3, <3>6 DEF OneOfAKind
    <3>. QED
      BY <3>5, <3>7 DEF Attended, OneOfAKind
  <2>. QED
    BY <2>5, <2>6, <2>7
<1>9. CASE Answers(r)
  <2>1. Working(r) /\ \A s \in Steps \ {StepOf(r)} : result'[s] = result[s]
    BY <1>9 DEF Answers
  <2>2. \A p \in procs : p.step # StepOf(r) => Waited(p)' /\ Left(p)'
    BY <1>1, <1>2, <2>1, OtherFacts
  <2>3. ASSUME Fails(r) PROVE Attended'
    <3>1. \A p \in procs : p.step # StepOf(r)
      BY <2>1, <2>3, InHandFacts DEF Fails
    <3>. QED
      BY <1>3, <2>2, <2>3, <3>1 DEF Attended, OneOfAKind, Fails
  <2>4. ASSUME Ends(r) PROVE Attended'
    <3>1. PICK how \in {"ok", "failed"} :
            /\ Ended(r, how) \in procs /\ procs' = procs \ {Ended(r, how)}
            /\ result'[StepOf(r)] # "none"
      BY <2>4 DEF Ends
    <3>2. \A p \in procs' : p.step = StepOf(r) => p.does = "parse" /\ p.status = "alone"
      BY <1>3, <2>1, <3>1, InHandFacts, ProcessFields DEF OneOfAKind
    <3>3. \A p \in procs' : p.step = StepOf(r) => Waited(p)' /\ Left(p)'
      BY <3>1, <3>2 DEF Waited, Left
    <3>. QED
      BY <1>3, <2>2, <3>1, <3>3 DEF Attended, OneOfAKind
  <2>5. ASSUME Drops(r) PROVE Attended'
    <3>1. /\ procs' = Abandoned(r) /\ result'[StepOf(r)] # "none"
          /\ pc[r] # "parse" => result'[StepOf(r)] \in {"timeout", "dropped", "lost"}
      BY <2>5 DEF Drops
    <3>2. \A q \in procs' : q.step = StepOf(r) => q.status # "running"
      BY <2>1, <3>1, AbandonedFacts, RunningFacts
    <3>3. \A q \in procs' : q.step = StepOf(r) => Waited(q)' /\ Left(q)'
      <4>. SUFFICES ASSUME NEW q \in procs', q.step = StepOf(r) PROVE Waited(q)' /\ Left(q)'
        OBVIOUS
      <4>1. pc[r] = "parse" => q.does = "parse"
        BY <2>1, <3>1, AbandonedFacts, InHandFacts
      <4>. QED
        BY <3>1, <3>2, <4>1 DEF Waited, Left
    <3>4. \A q \in procs' : q.step # StepOf(r) => q \in procs
      BY <3>1, AbandonedFacts, ProcessFields
    <3>5. \A p, q \in procs' : OneOfAKind(p, q)
      BY <1>3, <3>1, AbandonedFacts DEF OneOfAKind, Abandoned
    <3>. QED
      BY <2>2, <3>3, <3>4, <3>5 DEF Attended, OneOfAKind
  <2>. QED
    BY <1>9, <2>3, <2>4, <2>5 DEF Answers
<1>. QED
  BY <1>1, <1>4, <1>5, <1>7, <1>8, <1>9

\* A process that goes on: what it is doing, and for whom.
LEMMA GoingFacts ==
  ASSUME Basic, NEW p \in procs, p.status \in {"running", "alone"}
  PROVE  /\ p.step \in Steps /\ p.step[1] \in Runs /\ p.step[2] \in Numbers
         /\ p.status = "running" =>
              result[p.step] = "none" /\ InHand(p.step) /\ pc[p.step[1]] = p.does
         /\ p.status = "alone" /\ p.does # "parse" => result[p.step] \in {"timeout", "dropped", "lost"}
<1>1. p.step \in Steps /\ Waited(p) /\ Left(p)
  BY DEF Basic, TypeOK, Processes, Attended
<1>. QED
  BY <1>1, StepFacts DEF Waited, Left

LEMMA DoesAttended ==
  ASSUME Basic, NEW p \in procs, Does(p)
  PROVE  Attended'
<1>1. UNCHANGED <<at, pc, result>> /\ p.status \in {"running", "alone"}
  BY DEF Does, harness
<1>2. CASE procs' = procs
  BY <1>1, <1>2 DEF Basic, Attended, Waited, Left, OneOfAKind, InHand, StepOf, Working
<1>3. ASSUME NEW how \in {"ok", "failed"}, Exit(p, how) PROVE Attended'
  <2>1. \A q \in procs' :
          \/ q \in procs /\ q # p
          \/ /\ p.status = "running"
             /\ q.step = p.step /\ q.does = p.does /\ q.status = how
    BY <1>3, ExitFacts DEF Basic, TypeOK
  <2>2. \A q \in procs : Waited(q)' /\ Left(q)'
    BY <1>1 DEF Basic, Attended, Waited, Left, InHand, StepOf, Working
  <2>3. \A q \in procs' : Waited(q)' /\ Left(q)'
    <3>. SUFFICES ASSUME NEW q \in procs' PROVE Waited(q)' /\ Left(q)'
      OBVIOUS
    <3>1. CASE q \in procs
      BY <2>2, <3>1
    <3>2. CASE p.status = "running" /\ q.step = p.step /\ q.does = p.does /\ q.status = how
      <4>1. InHand(p.step)' /\ pc'[p.step[1]] = p.does
        BY <1>1, <3>2, GoingFacts DEF InHand, StepOf, Working
      <4>. QED
        BY <3>2, <4>1 DEF Waited, Left
    <3>. QED
      BY <2>1, <3>1, <3>2
  <2>4. \A q, t \in procs : OneOfAKind(q, t)
    BY DEF Basic, Attended
  <2>5. \A q, t \in procs' : OneOfAKind(q, t)
    BY <1>3, <2>1, <2>4 DEF OneOfAKind, Exit
  <2>. QED
    BY <2>3, <2>5 DEF Attended, OneOfAKind
<1>. QED
  BY <1>2, <1>3 DEF Does, ParsePass, Execute, Leave, Install, InstallFails

LEMMA BasicKept ==
  ASSUME Basic, [Next]_vars
  PROVE  Basic' /\ \A s \in Steps : result[s] # "none" => result'[s] = result[s]
<1>1. CASE UNCHANGED vars
  BY <1>1 DEF vars, harness, files, Basic, TypeOK, Started, Unanswered, Attended, Waited, Left,
              OneOfAKind, InHand, StepOf, Working
<1>2. ASSUME NEW r \in Runs, Step(r)
      PROVE  Basic' /\ \A s \in Steps : result[s] # "none" => result'[s] = result[s]
  BY <1>2, StepTyped, StepUnanswered, StepAttended DEF Basic
<1>3. ASSUME NEW p \in procs, Does(p)
      PROVE  Basic' /\ \A s \in Steps : result[s] # "none" => result'[s] = result[s]
  <2>1. UNCHANGED <<at, pc, result>>
    BY <1>3 DEF Does, harness
  <2>2. Unanswered'
    BY <2>1 DEF Basic, Unanswered, InHand, StepOf, Working
  <2>. QED
    BY <1>3, <2>1, <2>2, DoesTyped, DoesAttended DEF Basic
<1>. QED
  BY <1>1, <1>2, <1>3, SomeActor

\* No run executes anything or changes the target itself.
LEMMA StepServer ==
  ASSUME NEW r \in Runs, Step(r)
  PROVE  ran' = ran /\ target' = target
BY DEF Step, Begin, Drop, LoseConnection, SftpFails, MakeDir, CheckDir, RefuseDir, OpenScript, WriteScript,
       NarrowScript, RunScript, RefuseScript, ScriptEnds, CutOff, StageFile, SealFile, InstallEnds, files

\* The result of a step does not change but by an answer to it, and then it was in hand.
LEMMA ResultFacts ==
  ASSUME Basic, NEW r \in Runs, Step(r), NEW s \in Steps
  PROVE  \/ result'[s] = result[s]
         \/ s = StepOf(r) /\ Answers(r) /\ result[s] = "none"
<1>1. Begin(r) \/ Moves(r) \/ Launches(r) \/ RunScript(r) \/ Answers(r)
  BY StepShape DEF Basic
<1>2. ~ Answers(r) => result' = result
  BY <1>1, BeginFacts, RunScriptFacts DEF Basic, Moves, Launches
<1>3. Answers(r) => Working(r) /\ \A t \in Steps \ {StepOf(r)} : result'[t] = result[t]
  BY DEF Answers
<1>. QED
  BY <1>2, <1>3, InHandFacts

\* A step that had no result and has none yet is in hand, if it was.
LEMMA PlaceFacts ==
  ASSUME Basic, NEW r \in Runs, Step(r), NEW s \in Steps, InHand(s), result'[s] = "none"
  PROVE  /\ InHand(s)'
         /\ s[1] # r => pc'[s[1]] = pc[s[1]]
         /\ s[1] = r => s = StepOf(r) /\ (Moves(r) \/ Launches(r) \/ RunScript(r))
<1>1. /\ \A q \in Runs \ {r} : pc'[q] = pc[q] /\ at'[q] = at[q]
      /\ Begin(r) \/ Moves(r) \/ Launches(r) \/ RunScript(r) \/ Answers(r)
  BY StepShape DEF Basic
<1>2. s[1] \in Runs
  BY StepFacts
<1>3. CASE s[1] # r
  BY <1>1, <1>2, <1>3 DEF InHand, StepOf, Working
<1>4. CASE s[1] = r
  <2>1. s = StepOf(r) /\ Working(r)
    BY <1>4 DEF InHand
  <2>2. ~ Begin(r)
    BY <2>1, BeginFacts DEF Basic, Working
  <2>3. ~ Answers(r)
    BY <2>1 DEF Answers, Fails, Ends, Drops
  <2>4. UNCHANGED at /\ pc'[r] \notin {"next", "cut", "over"}
    BY <1>1, <2>2, <2>3, RunScriptFacts DEF Basic, Moves, Launches
  <2>. QED
    BY <1>1, <1>4, <2>1, <2>2, <2>3, <2>4 DEF InHand, StepOf, Working
<1>. QED
  BY <1>3, <1>4

LEMMA ExecutedKept ==
  ASSUME Basic, Executed, [Next]_vars
  PROVE  Executed'
<1>1. CASE UNCHANGED vars
  BY <1>1 DEF vars, harness, files, Executed, InHand, StepOf, Working
<1>2. ASSUME NEW r \in Runs, Step(r) PROVE Executed'
  <2>. SUFFICES ASSUME NEW e \in ran
                PROVE  /\ result'[e[1]] = "none" => InHand(e[1])' /\ pc'[e[1][1]] = "run"
                       /\ result'[e[1]] # "unparsed"
    BY <1>2, StepServer DEF Executed
  <2>1. e[1] \in Steps
    BY DEF Basic, TypeOK
  <2>2. /\ result[e[1]] = "none" => InHand(e[1]) /\ pc[e[1][1]] = "run"
        /\ result[e[1]] # "unparsed"
    BY DEF Executed
  <2>3. result'[e[1]] # "unparsed"
    <3>1. CASE result'[e[1]] = result[e[1]]
      BY <2>2, <3>1
    <3>2. CASE e[1] = StepOf(r) /\ Answers(r) /\ result[e[1]] = "none"
      <4>1. pc[r] = "run"
        BY <2>2, <3>2 DEF StepOf
      <4>. QED
        BY <3>2, <4>1 DEF Answers, Fails, Ends, Drops
    <3>. QED
      BY <1>2, <2>1, <3>1, <3>2, ResultFacts
  <2>4. ASSUME result'[e[1]] = "none" PROVE InHand(e[1])' /\ pc'[e[1][1]] = "run"
    <3>1. InHand(e[1]) /\ pc[e[1][1]] = "run"
      BY <1>2, <2>1, <2>2, <2>4, ResultFacts
    <3>2. InHand(e[1])' /\ (e[1][1] # r => pc'[e[1][1]] = pc[e[1][1]])
          /\ (e[1][1] = r => Moves(r) \/ Launches(r) \/ RunScript(r))
      BY <1>2, <2>1, <2>4, <3>1, PlaceFacts
    <3>3. e[1][1] # r
      BY <3>1, <3>2, RunScriptFacts DEF Basic, Moves, Launches, Waiting
    <3>. QED
      BY <3>1, <3>2, <3>3
  <2>. QED
    BY <2>3, <2>4
<1>3. ASSUME NEW p \in procs, Does(p) PROVE Executed'
  <2>1. UNCHANGED <<at, pc, result>> /\ p.status \in {"running", "alone"}
    BY <1>3 DEF Does, harness
  <2>2. CASE ran' = ran
    BY <2>1, <2>2 DEF Executed, InHand, StepOf, Working
  <2>3. CASE Execute(p)
    <3>1. p.does = "run" /\ \A e \in ran' : e \in ran \/ e[1] = p.step
      BY <2>3 DEF Execute
    <3>2. /\ result[p.step] = "none" => InHand(p.step) /\ pc[p.step[1]] = "run"
          /\ result[p.step] # "unparsed"
      BY <2>1, <3>1, GoingFacts
    <3>. QED
      BY <2>1, <3>1, <3>2 DEF Executed, InHand, StepOf, Working
  <2>. QED
    BY <1>3, <2>2, <2>3 DEF Does, ParsePass, Leave, Install, InstallFails
<1>. QED
  BY <1>1, <1>2, <1>3, SomeActor

-----------------------------------------------------------------------------
(***************************************************************************)
(* Privacy of the files: SCRIPT_DIR, the scripts' modes, the staging files.*)
(***************************************************************************)
LEMMA PrivateDirKept ==
  ASSUME Basic, PrivateDir, [Next]_vars
  PROVE  PrivateDir'
<1>1. CASE UNCHANGED vars
  BY <1>1 DEF vars, harness, files, PrivateDir
<1>2. ASSUME NEW p \in procs, Does(p) PROVE PrivateDir'
  <2>1. UNCHANGED <<pc, dir, script>>
    BY <1>2 DEF Does, harness, ParsePass, Execute, Leave, Install, InstallFails, files
  <2>. QED
    BY <2>1 DEF PrivateDir
<1>3. ASSUME NEW r \in Runs, Step(r) PROVE PrivateDir'
  <2>1. dir = "private" => dir' = "private"
    BY <1>3 DEF Step, Begin, Drop, LoseConnection, SftpFails, MakeDir, CheckDir, RefuseDir, OpenScript,
                WriteScript, NarrowScript, RunScript, RefuseScript, ScriptEnds, CutOff, StageFile,
                SealFile, InstallEnds, files
  <2>2. /\ \A q \in Runs \ {r} : pc'[q] = pc[q]
        /\ Begin(r) \/ Moves(r) \/ Launches(r) \/ RunScript(r) \/ Answers(r)
    BY <1>3, StepShape DEF Basic
  <2>3. ASSUME pc'[r] \in {"open", "write", "chmod", "parse", "run"} PROVE dir = "private"
    <3>1. CASE Begin(r)
      BY <2>3, <3>1, BeginFacts DEF Basic
    <3>2. CASE Answers(r)
      BY <2>3, <3>2 DEF Answers
    <3>3. CASE RunScript(r)
      BY <3>3 DEF RunScript, PrivateDir
    <3>4. CASE Launches(r)
      BY <2>3, <3>4 DEF Launches, NarrowScript, PrivateDir
    <3>5. CASE Moves(r)
      BY <2>3, <3>5 DEF Moves, CheckDir, OpenScript, WriteScript, PrivateDir
    <3>. QED
      BY <2>2, <3>1, <3>2, <3>3, <3>4, <3>5
  <2>4. ASSUME NEW n \in Numbers, script'[n].body # Nothing PROVE dir = "private"
    <3>1. CASE WriteScript(r)
      BY <3>1 DEF WriteScript, PrivateDir
    <3>2. CASE ~ WriteScript(r)
      <4>1. script'[n].body = script[n].body \/ OpenScript(r)
        BY <1>3, <3>2 DEF Step, Begin, Drop, LoseConnection, SftpFails, MakeDir, CheckDir, RefuseDir,
             NarrowScript, RunScript, RefuseScript, ScriptEnds, CutOff, StageFile, SealFile,
             InstallEnds, files, Basic, TypeOK
      <4>2. OpenScript(r) => dir = "private"
        BY DEF OpenScript, PrivateDir
      <4>. QED
        BY <2>4, <4>1, <4>2 DEF PrivateDir
    <3>. QED
      BY <3>1, <3>2
  <2>. QED
    BY <2>1, <2>2, <2>3, <2>4 DEF PrivateDir
<1>. QED
  BY <1>1, <1>2, <1>3, SomeActor

LEMMA OwnScriptsKept ==
  ASSUME Basic, OwnScripts, [Next]_vars
  PROVE  OwnScripts'
<1>1. CASE UNCHANGED vars
  BY <1>1 DEF vars, files, OwnScripts
<1>2. ASSUME NEW p \in procs, Does(p) PROVE OwnScripts'
  <2>1. UNCHANGED script
    BY <1>2 DEF Does, ParsePass, Execute, Leave, Install, InstallFails, files
  <2>2. \A q \in procs' : q \in procs \/ (q.step = p.step /\ q.does = p.does)
    BY <1>2, ExitFacts DEF Basic, TypeOK, Does, ParsePass, Execute, Leave, Install, InstallFails
  <2>. QED
    BY <2>1, <2>2 DEF OwnScripts
<1>3. ASSUME NEW r \in Runs, Step(r) PROVE OwnScripts'
  <2>1. \A p \in procs : p.step[2] \in Numbers
    BY StepFacts DEF Basic, TypeOK, Processes
  <2>2. Begin(r) \/ Moves(r) \/ Launches(r) \/ RunScript(r) \/ Answers(r)
    BY <1>3, StepShape DEF Basic
  <2>3. ASSUME NEW n \in Numbers, script[n].mode = "own" PROVE script'[n].mode = "own"
    <3>1. CASE OpenScript(r) \/ WriteScript(r) \/ NarrowScript(r)
      BY <2>3, <3>1 DEF OpenScript, WriteScript, NarrowScript, Basic, TypeOK
    <3>2. CASE ~ (OpenScript(r) \/ WriteScript(r) \/ NarrowScript(r))
      <4>1. script' = script
        BY <2>2, <3>2, BeginFacts, RunScriptFacts
           DEF Basic, Moves, Launches, Answers, MakeDir, CheckDir, StageFile, SealFile, files
      <4>. QED
        BY <2>3, <4>1
    <3>. QED
      BY <3>1, <3>2
  <2>4. ASSUME NEW p \in procs, p.does # "install" PROVE script'[p.step[2]].mode = "own"
    BY <2>1, <2>3, <2>4 DEF OwnScripts
  <2>5. CASE Begin(r) \/ Moves(r)
    BY <2>4, <2>5, BeginFacts DEF OwnScripts, Basic, Moves
  <2>6. CASE Launches(r)
    <3>1. ASSUME NarrowScript(r) PROVE script'[StepOf(r)[2]].mode = "own"
      <4>1. StepOf(r)[2] \in Numbers
        BY <2>6, HandFacts DEF Basic, StepOf, Launches
      <4>. QED
        BY <3>1, <4>1 DEF NarrowScript, ScriptPath, Basic, TypeOK
    <3>2. \A p \in procs' : p \in procs \/ (p.step = StepOf(r) /\ p.does = pc'[r])
      BY <2>6 DEF Launches
    <3>. QED
      BY <2>4, <2>6, <3>1, <3>2 DEF Launches, OwnScripts
  <2>7. CASE RunScript(r)
    <3>1. \E p \in procs : p.step = StepOf(r) /\ p.does = "parse"
      BY <2>7, ProcessFields DEF RunScript
    <3>2. \A q \in procs' : q.step = StepOf(r) \/ (\E p \in procs : q.step = p.step /\ q.does = p.does)
      BY <2>7, AbandonedFacts DEF RunScript, Launch
    <3>. QED
      BY <2>4, <3>1, <3>2 DEF OwnScripts
  <2>8. CASE Answers(r)
    <3>1. \A q \in procs' : \E p \in procs : q.step = p.step /\ q.does = p.does
      BY <2>8, AbandonedFacts DEF Answers, Fails, Ends, Drops
    <3>. QED
      BY <2>4, <3>1 DEF OwnScripts
  <2>. QED
    BY <2>2, <2>5, <2>6, <2>7, <2>8
<1>. QED
  BY <1>1, <1>2, <1>3, SomeActor

\* A staging file whose step's result and place are as they were.
LEMMA StagedFacts ==
  ASSUME Basic, NEW r \in Runs, Step(r), NEW f \in tmp, Staged(f), f.name # StepOf(r) \/ ~ Working(r)
  PROVE  Staged(f)'
<1>1. f.name \in Steps
  BY DEF Basic, TypeOK
<1>2. result'[f.name] = result[f.name]
  BY <1>1, ResultFacts DEF Answers
<1>3. ASSUME result[f.name] = "none"
      PROVE  InHand(f.name)' /\ pc'[f.name[1]] = pc[f.name[1]]
  <2>1. InHand(f.name) /\ f.name[1] # r
    BY <1>3 DEF Staged, InHand
  <2>. QED
    BY <1>1, <1>2, <1>3, <2>1, PlaceFacts
<1>. QED
  BY <1>2, <1>3 DEF Staged

LEMMA StepStaging ==
  ASSUME Basic, Staging, NEW r \in Runs, Step(r)
  PROVE  Staging'
<1>1. Begin(r) \/ Moves(r) \/ Launches(r) \/ RunScript(r) \/ Answers(r)
  BY StepShape DEF Basic
<1>2. \A f \in tmp : Staged(f) /\ f.name \in Steps
  BY DEF Staging, Basic, TypeOK
<1>3. \A f \in tmp : f.name # StepOf(r) \/ ~ Working(r) => Staged(f)'
  BY <1>2, StagedFacts
\* The step in hand has a staging file only to seal and to install it.
<1>4. ASSUME Working(r), NEW f \in tmp, f.name = StepOf(r)
      PROVE  pc[r] \in {"seal", "install"} /\ (pc[r] = "install" => f.sealed)
  <2>1. Staged(f) /\ result[f.name] = "none"
    BY <1>2, <1>4, InHandFacts
  <2>2. f.name[1] = r
    BY <1>4 DEF StepOf
  <2>. QED
    BY <2>1, <2>2 DEF Staged
<1>5. CASE Begin(r)
  BY <1>3, <1>5, BeginFacts DEF Staging, Basic, files, Working
<1>6. CASE Moves(r) /\ ~ StageFile(r)
  <2>1. tmp' = tmp /\ procs' = procs /\ Working(r) /\ pc[r] \notin {"seal", "install"}
    BY <1>6 DEF Moves, MakeDir, CheckDir, OpenScript, WriteScript, files, Waiting
  <2>. QED
    BY <1>3, <1>4, <2>1 DEF Staging
<1>7. CASE Moves(r) /\ StageFile(r)
  <2>. PICK n : n = [name |-> StepOf(r), body |-> StepOf(r), sealed |-> FALSE]
    OBVIOUS
  <2>1. /\ procs' = procs /\ pc[r] = "stage" /\ pc'[r] = "seal" /\ Working(r)
        /\ UNCHANGED <<at, result>>
    BY <1>7 DEF Moves, MakeDir, CheckDir, OpenScript, WriteScript, StageFile
  <2>2. \A f \in tmp : f.name # StepOf(r)
    BY <1>4, <2>1
  <2>3. tmp' = tmp \cup {n}
    BY <1>7, <2>2 DEF StageFile, StagingName
  <2>4. InHand(n.name)' /\ result'[n.name] = "none" /\ n.name[1] = r
    BY <2>1, InHandFacts DEF InHand, StepOf, Working
  <2>5. Staged(n)'
    BY <2>1, <2>4 DEF Staged
  <2>6. \A p \in procs : p.step # StepOf(r)
    BY <2>1, InHandFacts DEF Waiting
  <2>7. n.name = StepOf(r)
    OBVIOUS
  <2>8. \A f \in tmp' : Staged(f)'
    BY <1>3, <2>2, <2>3, <2>5
  <2>9. \A f, g \in tmp' : f.name = g.name => f = g
    BY <2>2, <2>3, <2>7 DEF Staging
  <2>10. \A p \in procs' : p.does = "install" /\ p.status = "ok" => \A f \in tmp' : f.name # p.step
    BY <2>1, <2>3, <2>6, <2>7 DEF Staging
  <2>. QED
    BY <2>8, <2>9, <2>10 DEF Staging
<1>8. CASE Launches(r) /\ NarrowScript(r)
  <2>1. tmp' = tmp /\ Working(r) /\ pc[r] = "chmod"
    BY <1>8 DEF Launches, NarrowScript
  <2>2. \A f \in tmp : Staged(f)'
    BY <1>3, <1>4, <2>1
  <2>3. \A p \in procs' : p \in procs \/ p.status = "running"
    BY <1>8 DEF Launches
  <2>. QED
    BY <2>1, <2>2, <2>3 DEF Staging
<1>9. CASE Launches(r) /\ SealFile(r)
  <2>1. /\ tmp' = {IF f.name = StepOf(r) THEN [f EXCEPT !.sealed = TRUE] ELSE f : f \in tmp}
        /\ Working(r) /\ pc[r] = "seal" /\ pc'[r] = "install" /\ UNCHANGED <<at, result>>
    BY <1>9 DEF Launches, SealFile, NarrowScript, StagingName
  <2>2. \A g \in tmp' : \E f \in tmp :
          /\ g = IF f.name = StepOf(r) THEN [f EXCEPT !.sealed = TRUE] ELSE f
          /\ g.name = f.name /\ g.body = f.body /\ (f.name = StepOf(r) => g.sealed)
    BY <2>1 DEF Basic, TypeOK
  <2>3. InHand(StepOf(r)) /\ result'[StepOf(r)] = "none"
    BY <2>1, InHandFacts
  <2>4. ASSUME NEW g \in tmp' PROVE Staged(g)'
    <3>1. PICK f \in tmp :
            /\ g = IF f.name = StepOf(r) THEN [f EXCEPT !.sealed = TRUE] ELSE f
            /\ g.name = f.name /\ g.body = f.body /\ (f.name = StepOf(r) => g.sealed)
      BY <2>2
    <3>2. CASE f.name = StepOf(r)
      <4>1. InHand(g.name)' /\ g.name[1] = r
        BY <2>1, <3>1, <3>2 DEF InHand, StepOf, Working
      <4>2. g.body = g.name
        BY <1>2, <3>1 DEF Staged
      <4>. QED
        BY <2>1, <2>3, <3>1, <3>2, <4>1, <4>2 DEF Staged
    <3>3. CASE f.name # StepOf(r)
      BY <1>3, <3>1, <3>3
    <3>. QED
      BY <3>2, <3>3
  <2>5. ASSUME NEW a \in tmp', NEW b \in tmp', a.name = b.name PROVE a = b
    <3>1. PICK f \in tmp :
            /\ a.name = f.name
            /\ a = IF f.name = StepOf(r) THEN [f EXCEPT !.sealed = TRUE] ELSE f
      BY <2>2
    <3>2. PICK g \in tmp :
            /\ b.name = g.name
            /\ b = IF g.name = StepOf(r) THEN [g EXCEPT !.sealed = TRUE] ELSE g
      BY <2>2
    <3>3. f = g
      BY <2>5, <3>1, <3>2 DEF Staging
    <3>. QED
      BY <3>1, <3>2, <3>3
  <2>6. \A p \in procs' : p \in procs \/ p.status = "running"
    BY <1>9 DEF Launches
  <2>. QED
    BY <2>2, <2>4, <2>5, <2>6 DEF Staging
<1>10. CASE RunScript(r)
  <2>1. tmp' = tmp /\ Working(r) /\ pc[r] = "parse"
    BY <1>10, RunScriptFacts DEF Basic, files
  <2>2. \A f \in tmp : Staged(f)'
    BY <1>3, <1>4, <2>1
  <2>3. \A q \in procs' : q.status = "ok" => q \in procs
    BY <1>10, AbandonedFacts DEF RunScript, Launch
  <2>. QED
    BY <2>1, <2>2, <2>3 DEF Staging
<1>11. CASE Answers(r)
  <2>1. tmp' = tmp /\ Working(r)
    BY <1>11 DEF Answers, files
  <2>2. ASSUME NEW f \in tmp, f.name = StepOf(r) PROVE Staged(f)'
    <3>1. pc[r] \in {"seal", "install"} /\ (pc[r] = "install" => f.sealed) /\ f.body = f.name
      BY <1>2, <1>4, <2>1, <2>2 DEF Staged
    <3>2. CASE Fails(r)
      BY <2>2, <3>1, <3>2 DEF Fails, Staged
    <3>3. CASE Ends(r)
      <4>1. pc[r] = "install" /\ f.sealed
        BY <3>1, <3>3 DEF Ends, Waiting
      <4>2. PICK how \in {"ok", "failed"} : Ended(r, how) \in procs /\ result'[StepOf(r)] = how
        BY <3>3, <4>1 DEF Ends
      <4>3. how # "ok"
        BY <2>2, <4>1, <4>2, ProcessFields DEF Staging
      <4>. QED
        BY <2>2, <3>1, <4>1, <4>2, <4>3 DEF Staged
    <3>4. CASE Drops(r)
      <4>1. f.sealed \/ result'[StepOf(r)] = "lost"
        BY <3>1, <3>4 DEF Drops, Waiting
      <4>. QED
        BY <2>2, <3>1, <3>4, <4>1 DEF Drops, Staged
    <3>. QED
      BY <1>11, <3>2, <3>3, <3>4 DEF Answers
  <2>3. \A q \in procs' : q.status = "ok" => q \in procs
    BY <1>11, AbandonedFacts DEF Answers, Fails, Ends, Drops
  <2>. QED
    BY <1>3, <2>1, <2>2, <2>3 DEF Staging
<1>. QED
  BY <1>1, <1>5, <1>6, <1>7, <1>8, <1>9, <1>10, <1>11 DEF Launches

LEMMA StagingKept ==
  ASSUME Basic, Staging, [Next]_vars
  PROVE  Staging'
<1>1. CASE UNCHANGED vars
  BY <1>1 DEF vars, harness, files, Staging, Staged, InHand, StepOf, Working
<1>2. ASSUME NEW r \in Runs, Step(r) PROVE Staging'
  BY <1>2, StepStaging
<1>3. ASSUME NEW p \in procs, Does(p) PROVE Staging'
  <2>1. UNCHANGED <<at, pc, result>>
    BY <1>3 DEF Does, harness
  <2>2. \A f \in tmp : Staged(f)'
    BY <2>1 DEF Staging, Staged, InHand, StepOf, Working
  <2>3. tmp' \subseteq tmp
    BY <1>3 DEF Does, ParsePass, Execute, Leave, Install, InstallFails, files
  <2>4. ASSUME NEW q \in procs', q.does = "install", q.status = "ok"
        PROVE  \A f \in tmp' : f.name # q.step
    <3>1. CASE q \in procs
      BY <2>3, <2>4, <3>1 DEF Staging
    <3>2. CASE q \notin procs
      <4>1. q.step = p.step /\ Install(p)
        BY <1>3, <2>4, <3>2, ExitFacts
           DEF Basic, TypeOK, Does, ParsePass, Execute, Leave, Install, InstallFails
      <4>. QED
        BY <4>1 DEF Install, StagingName, Staging
    <3>. QED
      BY <3>1, <3>2
  <2>. QED
    BY <2>2, <2>3, <2>4 DEF Staging
<1>. QED
  BY <1>1, <1>2, <1>3, SomeActor

\* However runs overlap and whatever fails: a script is in a private directory only,
\* a file whose process was started was narrowed before, and a staging file that is
\* still there is one of a write that was not reported done, and sealed but for a
\* write that failed before.
THEOREM KeptPrivateAlways == Spec => []KeptPrivate
<1>. DEFINE Inv == Basic /\ PrivateDir /\ OwnScripts /\ Staging
<1>1. Init => Inv
  <2>. SUFFICES ASSUME Init PROVE Inv
    OBVIOUS
  <2>1. TypeOK /\ Started
    BY InitTyped
  <2>2. Unanswered /\ Attended
    BY DEF Init, Unanswered, Attended
  <2>3. PrivateDir /\ OwnScripts /\ Staging
    BY DEF Init, PrivateDir, OwnScripts, Staging
  <2>. QED
    BY <2>1, <2>2, <2>3 DEF Basic
<1>2. Inv /\ [Next]_vars => Inv'
  BY BasicKept, PrivateDirKept, OwnScriptsKept, StagingKept
<1>3. Inv => KeptPrivate
  BY DEF PrivateDir, OwnScripts, Staging, Staged, KeptPrivate, ScriptPath
<1>. QED
  BY <1>1, <1>2, <1>3, PTL DEF Spec

-----------------------------------------------------------------------------
(***************************************************************************)
(* One run at a time: what is executed, and what the target holds.         *)
(***************************************************************************)
LEMMA AlternateKept ==
  ASSUME ~ Overlap, Basic, Alternate, [Next]_vars
  PROVE  Alternate'
<1>1. CASE UNCHANGED vars
  BY <1>1 DEF vars, harness, Alternate
<1>2. ASSUME NEW p \in procs, Does(p) PROVE Alternate'
  BY <1>2 DEF Does, harness, Alternate
<1>3. ASSUME NEW r \in Runs, Step(r) PROVE Alternate'
  <2>1. /\ \A q \in Runs \ {r} : pc'[q] = pc[q] /\ at'[q] = at[q]
        /\ Begin(r) \/ Moves(r) \/ Launches(r) \/ RunScript(r) \/ Answers(r)
    BY <1>3, StepShape DEF Basic
  <2>2. CASE Begin(r)
    <3>1. \A q \in Runs \ {r} : at[q] = 0 \/ pc[q] = "over"
      BY <2>2 DEF Begin
    <3>. QED
      BY <2>1, <3>1 DEF Alternate
  <2>3. CASE ~ Begin(r)
    <3>1. Working(r) /\ at' = at
      BY <2>1, <2>3, RunScriptFacts DEF Basic, Moves, Launches, Answers
    <3>2. at[r] # 0 /\ pc[r] # "over"
      BY <3>1 DEF Basic, Started, Working
    <3>. QED
      BY <2>1, <3>1, <3>2 DEF Alternate
  <2>. QED
    BY <2>2, <2>3
<1>. QED
  BY <1>1, <1>2, <1>3, SomeActor

\* Of two runs at most one is working.
LEMMA OneWorks ==
  ASSUME TypeOK, Started, Alternate, NEW q \in Runs, NEW r \in Runs, Working(q), Working(r)
  PROVE  q = r
BY DEF Alternate, Started, Working

LEMMA WrittenKept ==
  ASSUME Basic, Alternate, Written, [Next]_vars
  PROVE  Written'
<1>1. CASE UNCHANGED vars
  BY <1>1 DEF vars, harness, files, Written, StepOf
<1>2. ASSUME NEW p \in procs, Does(p) PROVE Written'
  <2>1. UNCHANGED <<at, pc, script>>
    BY <1>2 DEF Does, harness, ParsePass, Execute, Leave, Install, InstallFails, files
  <2>. QED
    BY <2>1 DEF Written, StepOf
<1>3. ASSUME NEW r \in Runs, Step(r) PROVE Written'
  <2>1. /\ \A q \in Runs \ {r} : pc'[q] = pc[q] /\ at'[q] = at[q]
        /\ Begin(r) \/ Moves(r) \/ Launches(r) \/ RunScript(r) \/ Answers(r)
    BY <1>3, StepShape DEF Basic
  <2>2. CASE Begin(r)
    <3>1. script' = script /\ pc'[r] \in {"mkdir", "stage", "gone"}
      BY <2>2, BeginFacts DEF Basic, files
    <3>. QED
      BY <2>1, <3>1 DEF Written, StepOf
  <2>3. CASE Answers(r)
    BY <2>1, <2>3 DEF Answers, files, Written, StepOf
  <2>4. CASE RunScript(r)
    <3>1. UNCHANGED <<at, script>> /\ pc[r] = "parse"
      BY <2>4, RunScriptFacts DEF Basic, files
    <3>. QED
      BY <2>1, <3>1 DEF Written, StepOf
  <2>5. CASE (Moves(r) \/ Launches(r)) /\ ~ WriteScript(r)
    <3>1. Working(r) /\ at' = at /\ at[r] \in Numbers
      BY <2>5, HandFacts DEF Basic, Moves, Launches
    <3>2. \A q \in Runs \ {r} : ~ Working(q)
      BY <3>1, OneWorks DEF Basic
    <3>3. \A q \in Runs \ {r} : pc'[q] \notin {"chmod", "parse", "run"}
      BY <2>1, <3>2 DEF Working
    <3>4. ASSUME pc'[r] \in {"chmod", "parse", "run"} PROVE script'[at[r]].body = StepOf(r)
      <4>1. NarrowScript(r) /\ pc[r] = "chmod"
        BY <2>5, <3>4 DEF Moves, Launches, NarrowScript
      <4>2. script'[at[r]].body = script[at[r]].body
        BY <3>1, <4>1 DEF NarrowScript, ScriptPath, StepOf, Basic, TypeOK
      <4>. QED
        BY <4>1, <4>2 DEF Written
    <3>. QED
      BY <3>1, <3>3, <3>4 DEF Written, StepOf
  <2>6. CASE Moves(r) /\ WriteScript(r)
    <3>1. Working(r) /\ at' = at /\ at[r] \in Numbers
      BY <2>6, HandFacts DEF Basic, Moves
    <3>2. \A q \in Runs \ {r} : ~ Working(q)
      BY <3>1, OneWorks DEF Basic
    <3>3. \A q \in Runs \ {r} : pc'[q] \notin {"chmod", "parse", "run"}
      BY <2>1, <3>2 DEF Working
    <3>4. script'[at[r]].body = StepOf(r)
      BY <2>6, <3>1 DEF WriteScript, ScriptPath, StepOf, Basic, TypeOK
    <3>. QED
      BY <3>1, <3>3, <3>4 DEF Written, StepOf
  <2>7. ~ (Launches(r) /\ WriteScript(r))
    BY DEF Launches, WriteScript, NarrowScript, SealFile
  <2>. QED
    BY <2>1, <2>2, <2>3, <2>4, <2>5, <2>6, <2>7
<1>. QED
  BY <1>1, <1>2, <1>3, SomeActor

LEMMA SoundKept ==
  ASSUME Basic, Written, Sound, [Next]_vars
  PROVE  Sound' /\ unread \subseteq unread'
<1>1. CASE UNCHANGED vars
  BY <1>1 DEF vars, harness, Sound
<1>2. ASSUME NEW p \in procs, Does(p) PROVE Sound' /\ unread \subseteq unread'
  <2>1. unread' = unread /\ p.status \in {"running", "alone"}
    BY <1>2 DEF Does, harness
  <2>2. ASSUME NEW q \in procs'
        PROVE  /\ q.does = "parse" /\ q.status = "ok" => q.step \notin Malformed
               /\ q.does = "run" => q.step \notin Malformed \/ q.step \in unread
    <3>1. CASE q \in procs
      BY <3>1 DEF Sound
    <3>2. CASE q \notin procs
      <4>1. p.status = "running" /\ q.step = p.step /\ q.does = p.does
        BY <1>2, <3>2, ExitFacts DEF Basic, TypeOK, Does, ParsePass, Execute, Leave, Install, InstallFails
      <4>2. CASE p.does = "parse"
        <5>1. ParsePass(p)
          BY <1>2, <4>2 DEF Does, Execute, Leave, Install, InstallFails
        <5>2. InHand(p.step) /\ p.step[1] \in Runs /\ pc[p.step[1]] = "parse"
          BY <2>1, <4>1, <4>2, GoingFacts
        <5>3. script[ScriptPath(p.step)].body = p.step
          <6>1. script[at[p.step[1]]].body = p.step
            BY <5>2 DEF Written, InHand
          <6>2. ScriptPath(p.step) = at[p.step[1]]
            BY <5>2 DEF InHand, StepOf, ScriptPath
          <6>. QED
            BY <6>1, <6>2
        <5>4. q.status = (IF p.step \in Malformed THEN "failed" ELSE "ok")
          <6>1. Exit(p, IF p.step \in Malformed THEN "failed" ELSE "ok")
            BY <5>1, <5>3 DEF ParsePass
          <6>2. (IF p.step \in Malformed THEN "failed" ELSE "ok") \in {"ok", "failed"}
            OBVIOUS
          <6>. QED
            BY <3>2, <6>1, <6>2, ExitFacts DEF Basic, TypeOK
        <5>. QED
          BY <4>1, <4>2, <5>4
      <4>3. CASE p.does # "parse"
        BY <4>1, <4>3 DEF Sound
      <4>. QED
        BY <4>2, <4>3
    <3>. QED
      BY <3>1, <3>2
  <2>. QED
    BY <2>1, <2>2 DEF Sound
<1>3. ASSUME NEW r \in Runs, Step(r) PROVE Sound' /\ unread \subseteq unread'
  <2>1. Begin(r) \/ Moves(r) \/ Launches(r) \/ RunScript(r) \/ Answers(r)
    BY <1>3, StepShape DEF Basic
  <2>2. CASE RunScript(r)
    <3>1. unread \subseteq unread'
      BY <2>2 DEF RunScript
    <3>2. StepOf(r) \notin Malformed \/ StepOf(r) \in unread'
      <4>1. Ended(r, "ok") \in procs => StepOf(r) \notin Malformed
        BY <2>2, ProcessFields DEF RunScript, Sound
      <4>. QED
        BY <2>2, <4>1 DEF RunScript
    <3>3. \A q \in procs' :
            \/ q.step = StepOf(r) /\ q.does = "run"
            \/ \E p \in procs : q.step = p.step /\ q.does = p.does /\ (q.status = "ok" => q = p)
      BY <2>2, AbandonedFacts DEF RunScript, Launch
    <3>. QED
      BY <3>1, <3>2, <3>3 DEF Sound
  <2>3. CASE ~ RunScript(r)
    <3>1. unread' = unread
      BY <2>1, <2>3, BeginFacts DEF Basic, Moves, Launches, Answers, MakeDir, CheckDir, OpenScript,
         WriteScript, StageFile, NarrowScript, SealFile
    <3>2. \A q \in procs' :
            \/ q.does # "run" /\ q.status # "ok"
            \/ \E p \in procs : q.step = p.step /\ q.does = p.does /\ (q.status = "ok" => q = p)
      <4>1. Begin(r) \/ Moves(r) => procs' = procs
        BY BeginFacts DEF Basic, Moves
      <4>2. Launches(r) => \A q \in procs' : q \in procs \/ (q.does # "run" /\ q.status # "ok")
        BY DEF Launches
      <4>3. Answers(r) => \A q \in procs' :
              \E p \in procs : q.step = p.step /\ q.does = p.does /\ (q.status = "ok" => q = p)
        BY AbandonedFacts DEF Answers, Fails, Ends, Drops
      <4>. QED
        BY <2>1, <2>3, <4>1, <4>2, <4>3
    <3>. QED
      BY <3>1, <3>2 DEF Sound
  <2>. QED
    BY <2>2, <2>3
<1>. QED
  BY <1>1, <1>2, <1>3, SomeActor

\* What a process executes while it is waited for is what its step was given.
LEMMA JudgedFacts ==
  ASSUME Basic, Written, NEW p \in procs, p.status = "running", p.does = "run"
  PROVE  script[ScriptPath(p.step)].body = p.step
<1>1. InHand(p.step) /\ p.step[1] \in Runs /\ pc[p.step[1]] = "run"
  BY GoingFacts
<1>2. script[at[p.step[1]]].body = p.step
  BY <1>1 DEF Written, InHand
<1>3. ScriptPath(p.step) = at[p.step[1]]
  BY <1>1 DEF InHand, StepOf, ScriptPath
<1>. QED
  BY <1>2, <1>3

LEMMA StrayKept ==
  ASSUME Basic, Written, StrayIsReported, [Next]_vars
  PROVE  StrayIsReported'
<1>1. \A s \in Steps : result[s] # "none" => result'[s] = result[s]
  BY BasicKept
<1>2. \A e \in ran : e[1] \in Steps
  BY DEF Basic, TypeOK
<1>3. CASE ran' = ran
  BY <1>1, <1>2, <1>3 DEF StrayIsReported
<1>4. ASSUME NEW p \in procs, Does(p), Execute(p) PROVE StrayIsReported'
  <2>1. p.does = "run" /\ p.status \in {"running", "alone"} /\ result' = result
    BY <1>4 DEF Does, Execute, harness
  <2>2. p.status = "alone" => result[p.step] \in {"timeout", "dropped", "lost"}
    BY <2>1, GoingFacts
  <2>3. script[ScriptPath(p.step)].body # p.step => result[p.step] \in {"timeout", "dropped", "lost"}
    BY <2>1, <2>2, JudgedFacts
  <2>. QED
    BY <1>4, <2>1, <2>3 DEF Execute, StrayIsReported
<1>5. ran' = ran \/ \E p \in procs : Does(p) /\ Execute(p)
  <2>1. UNCHANGED vars => ran' = ran
    BY DEF vars
  <2>2. \A p \in procs : Does(p) /\ ~ Execute(p) => ran' = ran
    BY DEF Does, ParsePass, Leave, Install, InstallFails
  <2>. QED
    BY <2>1, <2>2, SomeActor, StepServer
<1>. QED
  BY <1>3, <1>4, <1>5

LEMMA NoneOfItRanKept ==
  ASSUME Basic, Written, Sound, Executed, NoneOfItRan, [Next]_vars
  PROVE  NoneOfItRan'
<1>1. Executed' /\ unread \subseteq unread'
  BY ExecutedKept, SoundKept
<1>2. \A e \in ran' : result'[e[1]] # "unparsed"
  BY <1>1 DEF Executed
<1>3. \A e \in ran' : e \in ran \/ \E p \in procs : e[1] = p.step /\ p.does = "run"
  <2>1. UNCHANGED vars => ran' = ran
    BY DEF vars
  <2>2. \A p \in procs : Does(p) => \A e \in ran' : e \in ran \/ (e[1] = p.step /\ p.does = "run")
    BY DEF Does, ParsePass, Execute, Leave, Install, InstallFails
  <2>. QED
    BY <2>1, <2>2, SomeActor, StepServer
<1>4. \A e \in ran' : e[1] \in Malformed => e[1] \in unread' \/ e \in ran
  BY <1>1, <1>3 DEF Sound
<1>. QED
  BY <1>1, <1>2, <1>4 DEF NoneOfItRan

\* With one run at a time, whatever fails: only a step that was reported without an exit
\* status (cut off, dropped or lost) executes the body of another, and a script that does
\* not parse is executed by no step but one whose parse pass was cut off, and by none that
\* it refused.
THEOREM OnlyJudgedRuns ==
  ASSUME ~ Overlap
  PROVE  Spec => [](StrayIsReported /\ NoneOfItRan)
<1>. DEFINE Inv == /\ Basic /\ Alternate /\ Written /\ Sound /\ Executed
                   /\ StrayIsReported /\ NoneOfItRan
<1>1. Init => Inv
  <2>. SUFFICES ASSUME Init PROVE Inv
    OBVIOUS
  <2>1. Basic
    BY InitTyped DEF Init, Basic, Unanswered, Attended
  <2>2. Alternate /\ Written /\ Sound /\ Executed /\ StrayIsReported /\ NoneOfItRan
    BY DEF Init, Alternate, Written, Sound, Executed, StrayIsReported, NoneOfItRan
  <2>. QED
    BY <2>1, <2>2
<1>2. Inv /\ [Next]_vars => Inv'
  BY BasicKept, AlternateKept, WrittenKept, SoundKept, ExecutedKept, StrayKept, NoneOfItRanKept
<1>3. Inv => StrayIsReported /\ NoneOfItRan
  OBVIOUS
<1>. QED
  BY <1>1, <1>2, <1>3, PTL DEF Spec

\* A script that was refused is executed by no step.
COROLLARY RefusedNeverRuns ==
  ASSUME ~ Overlap
  PROVE  Spec => []NoneOfItRan
BY OnlyJudgedRuns, PTL

\* What an install writes is its own step's, and that step has no answer yet or one
\* that says that it was cut off, dropped or lost.
LEMMA InstallFacts ==
  ASSUME Basic, Staging, NEW p \in procs, Does(p), target' # target
  PROVE  /\ p.does = "install" /\ target' = p.step /\ p.step \in Steps
         /\ \/ result[p.step] \in {"timeout", "dropped", "lost"}
            \/ /\ p.status = "running" /\ result[p.step] = "none"
               /\ InHand(p.step) /\ pc[p.step[1]] = "install" /\ p.step[1] \in Runs
<1>1. p.does = "install" /\ \E f \in tmp : f.name = p.step /\ target' = f.body
  BY DEF Does, ParsePass, Execute, Leave, Install, InstallFails, StagingName, files
<1>2. target' = p.step
  BY <1>1 DEF Staging, Staged
<1>3. p.status \in {"running", "alone"}
  BY DEF Does
<1>. QED
  BY <1>1, <1>2, <1>3, GoingFacts

LEMMA TargetKept ==
  ASSUME Basic, Staging, Target, [Next]_vars
  PROVE  Target'
<1>1. CASE UNCHANGED vars
  BY <1>1 DEF vars, harness, files, Target, InHand, StepOf, Working
<1>2. ASSUME NEW p \in procs, Does(p) PROVE Target'
  <2>1. UNCHANGED <<at, pc, result>>
    BY <1>2 DEF Does, harness
  <2>2. CASE target' = target
    BY <2>1, <2>2 DEF Target, InHand, StepOf, Working
  <2>3. CASE target' # target
    <3>1. target' \in Steps /\
          (result[target'] = "none" => InHand(target') /\ pc[target'[1]] = "install")
      BY <1>2, <2>3, InstallFacts
    <3>. QED
      BY <2>1, <3>1 DEF Target, InHand, StepOf, Working
  <2>. QED
    BY <2>2, <2>3
<1>3. ASSUME NEW r \in Runs, Step(r) PROVE Target'
  <2>. SUFFICES ASSUME target # Nothing, result'[target] = "none"
                PROVE  InHand(target)' /\ pc'[target[1]] = "install"
    BY <1>3, StepServer DEF Target
  <2>1. target \in Steps
    BY DEF Basic, TypeOK
  <2>2. InHand(target) /\ pc[target[1]] = "install"
    BY <1>3, <2>1, ResultFacts DEF Target
  <2>3. PICK t : t = target
    OBVIOUS
  <2>4. InHand(t)' /\ (t[1] # r => pc'[t[1]] = pc[t[1]])
        /\ (t[1] = r => Moves(r) \/ Launches(r) \/ RunScript(r))
    BY <1>3, <2>1, <2>2, <2>3, PlaceFacts
  <2>5. t[1] # r
    BY <2>2, <2>3, <2>4, RunScriptFacts DEF Basic, Moves, Launches, Waiting
  <2>6. target' = t
    BY <1>3, <2>3, StepServer
  <2>. QED
    BY <2>2, <2>3, <2>4, <2>5, <2>6 DEF InHand
<1>. QED
  BY <1>1, <1>2, <1>3, SomeActor

LEMMA InstalledKept ==
  ASSUME Basic, Alternate, Staging, Installed, [Next]_vars
  PROVE  Installed'
<1>1. CASE UNCHANGED vars
  BY <1>1 DEF vars, harness, files, Installed
<1>2. ASSUME NEW r \in Runs, Step(r) PROVE Installed'
  <2>1. Begin(r) \/ Moves(r) \/ Launches(r) \/ RunScript(r) \/ Answers(r)
    BY <1>2, StepShape DEF Basic
  <2>2. target' = target
    BY <1>2, StepServer
  <2>3. \A q \in procs' : q.status = "ok" => q \in procs
    <3>1. Begin(r) \/ Moves(r) => procs' = procs
      BY BeginFacts DEF Basic, Moves
    <3>2. Launches(r) \/ RunScript(r) \/ Answers(r) => \A q \in procs' : q.status = "ok" => q \in procs
      BY AbandonedFacts DEF Launches, RunScript, Launch, Answers, Fails, Ends, Drops
    <3>. QED
      BY <2>1, <3>1, <3>2
  <2>4. \A s \in Steps : result[s] # "none" => result'[s] = result[s]
    BY <1>2, StepUnanswered DEF Basic
  <2>5. target \in Steps \cup {Nothing} /\ \A p \in procs : p.step \in Steps
    BY DEF Basic, TypeOK, Processes
  <2>. QED
    BY <2>2, <2>3, <2>4, <2>5 DEF Installed
<1>3. ASSUME NEW p \in procs, Does(p) PROVE Installed'
  <2>1. UNCHANGED <<at, pc, result>> /\ p.status \in {"running", "alone"}
    BY <1>3 DEF Does, harness
  <2>. SUFFICES ASSUME NEW q \in procs', q.does = "install", q.status = "ok", result[q.step] = "none"
                PROVE  target' = q.step
                       \/ (target' # Nothing /\ result[target'] \in {"timeout", "dropped", "lost"})
    BY <2>1 DEF Installed
  <2>2. CASE q \notin procs
    <3>1. q.step = p.step /\ Install(p)
      BY <1>3, <2>2, ExitFacts DEF Basic, TypeOK, Does, ParsePass, Execute, Leave, Install, InstallFails
    <3>2. target' = p.step
      BY <3>1 DEF Install, StagingName, Staging, Staged
    <3>. QED
      BY <3>1, <3>2
  <2>3. CASE q \in procs /\ target' = target
    BY <2>3 DEF Installed
  <2>4. CASE q \in procs /\ target' # target
    <3>1. /\ p.does = "install" /\ target' = p.step /\ p.step \in Steps
          /\ \/ result[p.step] \in {"timeout", "dropped", "lost"}
             \/ /\ p.status = "running" /\ InHand(p.step) /\ p.step[1] \in Runs
      BY <1>3, <2>4, InstallFacts
    <3>2. target' # Nothing
      BY <3>1, StagingAssumption
    <3>3. CASE InHand(p.step) /\ p.step[1] \in Runs
      <4>1. InHand(q.step) /\ q.step[1] \in Runs
        BY <2>4, StepFacts DEF Basic, Attended, Waited, TypeOK, Processes
      <4>2. q.step[1] = p.step[1]
        BY <3>3, <4>1, OneWorks DEF Basic, InHand
      <4>3. q.step = p.step
        BY <3>3, <4>1, <4>2 DEF InHand
      <4>. QED
        BY <3>1, <4>3
    <3>. QED
      BY <3>1, <3>2, <3>3
  <2>. QED
    BY <2>2, <2>3, <2>4
<1>. QED
  BY <1>1, <1>2, <1>3, SomeActor

LEMMA LastWriteKept ==
  ASSUME Basic, Staging, Target, Installed, LastWriteStands, [Next]_vars
  PROVE  LastWriteStands'
<1>1. CASE UNCHANGED vars
  BY <1>1 DEF vars, harness, files, LastWriteStands
<1>2. ASSUME NEW p \in procs, Does(p) PROVE LastWriteStands'
  <2>1. UNCHANGED <<result, latest>>
    BY <1>2 DEF Does, harness
  <2>2. target' # target => result[target'] # "ok"
    BY <1>2, InstallFacts
  <2>. QED
    BY <2>1, <2>2 DEF LastWriteStands
<1>3. ASSUME NEW r \in Runs, Step(r) PROVE LastWriteStands'
  <2>1. Begin(r) \/ Moves(r) \/ Launches(r) \/ RunScript(r) \/ Answers(r)
    BY <1>3, StepShape DEF Basic
  <2>2. target' = target /\ target \in Steps \cup {Nothing}
    BY <1>3, StepServer DEF Basic, TypeOK
  <2>3. CASE ~ Answers(r)
    <3>1. result' = result /\ latest' = latest
      BY <2>1, <2>3, BeginFacts, RunScriptFacts DEF Basic, Moves, Launches, MakeDir, CheckDir, OpenScript,
         WriteScript, StageFile, NarrowScript, SealFile
    <3>. QED
      BY <2>2, <3>1 DEF LastWriteStands
  <2>4. CASE Answers(r)
    <3>1. /\ Working(r) /\ StepOf(r) \in Steps
          /\ result[StepOf(r)] = "none"
          /\ \A s \in Steps \ {StepOf(r)} : result'[s] = result[s]
      BY <2>4, InHandFacts DEF Answers
    <3>2. target = StepOf(r) => pc[r] = "install"
      BY <3>1, StagingAssumption DEF Target, StepOf
    <3>3. CASE latest' = latest /\ result'[StepOf(r)] # "ok"
      BY <2>2, <3>1, <3>3 DEF LastWriteStands
    <3>4. CASE latest' = latest /\ pc[r] # "install"
      BY <2>2, <3>1, <3>2, <3>4 DEF LastWriteStands
    <3>5. CASE Ended(r, "ok") \in procs /\ pc[r] = "install" /\ latest' = StepOf(r)
      <4>1. target = StepOf(r) \/ (target # Nothing /\ result[target] \in {"timeout", "dropped", "lost"})
        BY <3>1, <3>5, ProcessFields DEF Installed
      <4>2. target # StepOf(r) => target \in Steps /\ result'[target] = result[target]
        BY <2>2, <3>1, <4>1
      <4>. QED
        BY <2>2, <3>5, <4>1, <4>2 DEF LastWriteStands
    <3>6. \/ latest' = latest /\ (result'[StepOf(r)] # "ok" \/ pc[r] # "install")
          \/ Ended(r, "ok") \in procs /\ pc[r] = "install" /\ latest' = StepOf(r)
      BY <2>4 DEF Answers, Fails, Ends, Drops
    <3>. QED
      BY <3>3, <3>4, <3>5, <3>6
  <2>. QED
    BY <2>3, <2>4
<1>. QED
  BY <1>1, <1>2, <1>3, SomeActor

\* With one run at a time, whatever fails and however late an install comes: write_file's
\* target holds the last write that was reported done, or one that was not.
THEOREM LastWriteHolds ==
  ASSUME ~ Overlap
  PROVE  Spec => []LastWriteStands
<1>. DEFINE Inv == Basic /\ Alternate /\ Staging /\ Target /\ Installed /\ LastWriteStands
<1>1. Init => Inv
  <2>. SUFFICES ASSUME Init PROVE Inv
    OBVIOUS
  <2>1. Basic
    BY InitTyped DEF Init, Basic, Unanswered, Attended
  <2>2. Alternate /\ Staging /\ Target /\ Installed /\ LastWriteStands
    BY DEF Init, Alternate, Staging, Target, Installed, LastWriteStands
  <2>. QED
    BY <2>1, <2>2
<1>2. Inv /\ [Next]_vars => Inv'
  BY BasicKept, AlternateKept, StagingKept, TargetKept, InstalledKept, LastWriteKept
<1>3. Inv => LastWriteStands
  OBVIOUS
<1>. QED
  BY <1>1, <1>2, <1>3, PTL DEF Spec
=============================================================================
