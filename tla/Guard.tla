--------------------------------- MODULE Guard ---------------------------------
(***************************************************************************)
(* The verdict on a step before it runs: do_dba/guard.py, as operators.    *)
(*                                                                         *)
(* A text is what classify is given: [segs, rules, open], the commands     *)
(* between its operators, the patterns of _RULES that match in it (in what *)
(* it quotes too), and whether a quote stays open. A segment is            *)
(* [words, bg]; a word is [w, in], where in holds the text that a quoted   *)
(* word is, if a shell would read it. A comment counts as a word.          *)
(* A line of a script adds what classify_script looks at, and the call it  *)
(* is where it is read as python.                                          *)
(*                                                                         *)
(* What is abstracted:                                                     *)
(*  - Which pattern matches which text, and how text comes apart in words: *)
(*    texts come in their parts.                                           *)
(*  - Programs that are judged alike are one: mysql stands for every       *)
(*    client that opens a session or prompts unless a flag says otherwise  *)
(*    (psql, mongosh, valkey-cli, apt install, adduser, crontab -e).       *)
(*  - A text of spaces alone is left out; the empty one is not.            *)
(*  - A python script is parsed if each line of it is.                     *)
(*  - A verdict's reason is the line it names.                             *)
(***************************************************************************)
EXTENDS Integers, Sequences, FiniteSets, SequencesExt

Word(w)     == [w |-> w, in |-> <<>>]
Quoted(t)   == [w |-> "'", in |-> <<t>>]
Empty       == [segs |-> <<[words |-> <<>>, bg |-> FALSE]>>, rules |-> {}, open |-> FALSE]

\* The table in its order: what is never run, then what needs a human.
RuleLevels  == <<"block", "confirm">>

Interactive == {"vi"}
Shells      == {"bash"}
Repls       == {"bash", "python3"}
Wrappers    == {"sudo", "nohup"}

\* Not the code: su is one more program.
NoScriptWrappers == {}
ScriptWrappers   == {"su"}

Servers     == {"mysqld"}
Answering   == {"--help"}     \* BACKGROUNDING_FLAGS, ONE_SHOT_FLAGS, LISTING_VALUES
Flags       == {"-r", "-f", "-c", "-e"} \cup Answering

Critical    == {"/", "/etc"}
Data        == {"/var/lib/mysql"}
Protected   == {"/etc/passwd"}
Special     == {"/dev/sda"}
Access      == {"/root/.ssh/authorized_keys"} \* and what is in /etc/ssh and /etc/sudoers.d
Relative    == {"my.cnf"}

\* The first verdict that is not allow decides.
FirstOf(levels) ==
  LET hits == {i \in DOMAIN levels : levels[i] # "allow"}
  IN  IF hits = {} THEN "allow" ELSE levels[Min(hits)]

\* _judge_rm: the first target in one of the tables decides.
JudgeRm(args) ==
  LET recursive == "-r" \in ToSet(args)
  IN  FirstOf([i \in DOMAIN args |->
        CASE args[i] \in Critical -> IF recursive \/ args[i] = "/" THEN "block" ELSE "confirm"
          [] args[i] \in Data     -> "confirm"
          [] OTHER                -> "allow"])

\* _judge_move: a delete of its sources and a write over its destination, the last path.
JudgeMove(args) ==
  LET source(i) == \E j \in DOMAIN args : j > i /\ args[j] \notin Flags
  IN  FirstOf([i \in DOMAIN args |->
        CASE args[i] \in Protected              -> "block"
          [] source(i) /\ args[i] \in Critical  -> "block"
          [] source(i) /\ args[i] \in Data      -> "confirm"
          [] OTHER                              -> "allow"])

\* classify_file_write
JudgePath(path) ==
  CASE path \in Relative \cup Protected \cup Special -> "block"
    [] path \in Access                                -> "confirm"
    [] OTHER                                          -> "allow"

\* _tokens: past the wrappers, to the program that is run.
Stripped(words) ==
  LET own == {i \in DOMAIN words : words[i].w \notin Wrappers}
  IN  IF own = {} THEN <<>> ELSE SubSeq(words, Min(own), Len(words))

\* _shell_payload: what stands behind -c, where there is anything in it.
Payload(args) ==
  LET behind == {i \in DOMAIN args : i > 1 /\ args[i - 1].w = "-c"}
  IN  IF behind = {} \/ args[Min(behind)].in = <<Empty>> THEN <<>> ELSE args[Min(behind)].in

\* _judge_segment, of a program that is not looked into.
JudgeProgram(program, args, executed, background) ==
  LET plain   == [i \in DOMAIN args |-> args[i].w]
      says(w) == w \in ToSet(plain)
  IN  CASE program \in Interactive                        -> "block"
        [] program \in ScriptWrappers /\ Payload(args) = <<>> -> "block"
        [] program \in Repls /\ args = <<>>               -> "block"
        [] program = "passwd"                             -> "confirm"
        [] program = "rm"                                 -> JudgeRm(plain)
        [] program = "mv"                                 -> JudgeMove(plain)
        [] program = "mysql" /\ ~ says("-e") /\ ~ says("<") -> "block"
        [] program \in Servers /\ executed /\ ToSet(plain) \cap Answering = {} ->
             IF background THEN "confirm" ELSE "block"
        [] OTHER                                          -> "allow"

\* The text that a shell is given to run, where it is given one.
Given(segment) == Payload(Tail(Stripped(segment.words)))[1]

\* _judge_segment, so many shells deep; inside is the verdict on what a shell is given.
Judge(segment, depth, executed, background, inside) ==
  LET words   == Stripped(segment.words)
      program == words[1].w
  IN  IF words = <<>> THEN "allow"
      ELSE IF program \in Shells \cup ScriptWrappers /\ Payload(Tail(words)) # <<>> /\ depth < 3
           THEN inside
           ELSE JudgeProgram(program, Tail(words), executed, background)

\* classify: the patterns, then the quotes, then the commands from left to right.
Decide(text, quotes, levels) ==
  IF text.rules # {} THEN RuleLevels[Min(text.rules)]
  ELSE IF quotes /\ text.open THEN "block"
  ELSE IF FirstOf(levels) # "allow" THEN FirstOf(levels)
  ELSE IF \A i \in DOMAIN text.segs : text.segs[i].words = <<>> THEN "block" ELSE "allow"

\* A shell within a shell, three deep; what lies deeper is not looked into.
JudgeThird(segment, executed, background) == Judge(segment, 3, executed, background, "allow")
Third(text, executed, background) ==
  Decide(text, TRUE,
    [i \in DOMAIN text.segs |-> JudgeThird(text.segs[i], executed, background \/ text.segs[i].bg)])

JudgeSecond(segment, executed, background) ==
  Judge(segment, 2, executed, background, Third(Given(segment), executed, background))
Second(text, executed, background) ==
  Decide(text, TRUE,
    [i \in DOMAIN text.segs |-> JudgeSecond(text.segs[i], executed, background \/ text.segs[i].bg)])

JudgeFirst(segment, executed, background) ==
  Judge(segment, 1, executed, background, Second(Given(segment), executed, background))
First(text, executed, background) ==
  Decide(text, TRUE,
    [i \in DOMAIN text.segs |-> JudgeFirst(text.segs[i], executed, background \/ text.segs[i].bg)])

JudgeOuter(segment, executed, background) ==
  Judge(segment, 0, executed, background, First(Given(segment), executed, background))
Classify(text, quotes, executed, background) ==
  Decide(text, quotes,
    [i \in DOMAIN text.segs |-> JudgeOuter(text.segs[i], executed, background \/ text.segs[i].bg)])

Command(text) == Classify(text, TRUE, TRUE, FALSE)
-----------------------------------------------------------------------------
\* A python script is its calls in order, <<>> standing for what cannot be read of
\* an argument: [f, arg].
PyRefused == {"exec", "input", "pty.spawn"}

\* _judge_written_path: write_file's answer, except that a relative path will do.
JudgeWritten(path) == IF path \in Relative THEN "allow" ELSE JudgePath(path)

\* _judge_python_call
JudgeCall(call) ==
  CASE call.f \in PyRefused          -> "block"
    [] call.f = "os.system"          -> IF call.arg \in {<<>>, <<Empty>>} THEN "confirm"
                                        ELSE Classify(call.arg[1], FALSE, TRUE, FALSE)
    [] call.f = "cursor.execute"     -> IF call.arg \in {<<>>, <<Empty>>} THEN "allow"
                                        ELSE Classify(call.arg[1], FALSE, TRUE, FALSE)
    [] call.f = "os.remove"          -> JudgeRm(call.arg)
    [] call.f = "shutil.rmtree"      -> JudgeRm(<<"-r">> \o call.arg)
    [] call.f = "shutil.move"        -> IF Len(call.arg) < 2 THEN "allow" ELSE JudgeMove(call.arg)
    [] call.f = "requests.post"      -> "confirm"
    [] call.f \in {"open", "write_text"} -> IF call.arg = <<>> THEN "allow" ELSE JudgeWritten(call.arg[1])
    [] OTHER                         -> "allow"

\* classify_python_script: what cannot be parsed cannot be judged.
Python(script) ==
  LET levels == [i \in DOMAIN script.calls |-> JudgeCall(script.calls[i])]
  IN  IF ~ script.parses \/ "block" \in ToSet(levels) THEN "block" ELSE FirstOf(levels)
-----------------------------------------------------------------------------
\* A line of a script is [text, noise, cont, docs, file, ends, config, call]: nothing
\* to judge (a comment, a keyword), continued by the next one, the heredocs it opens,
\* whether it writes to a file, the tag of the heredoc it would end (or 0), a setting
\* that _CONFIG_RULES ask about, and the python call it is. A heredoc is [tag, kind],
\* the kind being script_kind's of its body and the name of the file.

\* Two lines a backslash joins: the last command of one goes on in the other.
Joined(a, b) ==
  [rules |-> a.rules \cup b.rules, open |-> a.open # b.open,
   segs  |-> Front(a.segs) \o
             <<[words |-> Last(a.segs).words \o b.segs[1].words, bg |-> b.segs[1].bg]>> \o
             Tail(b.segs)]

\* The lines from n to m as the one command they are.
Text(body, n, m) ==
  LET text[i \in n .. m] == IF i = n THEN body[n].text ELSE Joined(text[i - 1], body[i].text)
  IN  text[m]

\* The last line of the command that starts at line n, short of line end.
LastOf(body, n, end) == Min({i \in n .. end : ~ body[i].cont} \cup {end})

\* The heredocs opened from line n to a later one of its command.
Docs(body, n) ==
  LET docs[m \in n .. Len(body)] == IF m = n THEN body[n].docs ELSE docs[m - 1] \o body[m].docs
  IN  docs

\* Those of them that are written to a file.
Opens(body, n, m) == IF \E i \in n .. m : body[i].file THEN Docs(body, n)[m] ELSE <<>>

\* The line below m that ends a heredoc, or the one past all.
StopOf(body, tag, m, end) == Min({i \in m + 1 .. end : body[i].ends = tag} \cup {end + 1})

\* Where heredocs opened on line m end, one below the other.
Stops(body, docs, m, end) ==
  LET stop[k \in 0 .. Len(docs)] ==
        IF k = 0 THEN m ELSE StopOf(body, docs[k].tag, stop[k - 1], end)
  IN  stop

Clean == [level |-> "allow", line |-> 0]

\* Lines of a body, and whether they are run or only written down.
Span(from, end, executed) == [from |-> from, end |-> end, executed |-> executed]
Spans(body) == [from : 1 .. Len(body) + 2, end : 0 .. Len(body), executed : BOOLEAN]

\* The lines of a span as a python script.
Unparsable == "syntax error"
PythonOf(body, from, end) ==
  [parses |-> \A i \in from .. end : body[i].call.f # Unparsable,
   calls  |-> [i \in 1 .. end + 1 - from |-> body[from + i - 1].call]]

\* classify_script_body
ScriptLevel(body, span, kind, verdict) ==
  IF kind = "python" THEN Python(PythonOf(body, span.from, span.end)) ELSE verdict[span].level

\* classify_file_content: a setting that exposes the server, else a script that
\* nothing runs yet.
FileLevel(body, from, end, kind, verdict) ==
  IF \E i \in from .. end : body[i].config THEN "confirm"
  ELSE IF kind = "conf" THEN "allow"
  ELSE ScriptLevel(body, Span(from, end, FALSE), kind, verdict)

\* The verdicts on the command that goes from line n to m, and on the files it writes.
Found(body, n, m, span, verdict) ==
  LET docs == Opens(body, n, m)
      stop == Stops(body, docs, m, span.end)
  IN  {Classify(Text(body, n, m), FALSE, span.executed, FALSE)} \cup
      {FileLevel(body, stop[k - 1] + 1, stop[k] - 1, docs[k].kind, verdict) : k \in DOMAIN docs}

\* Not the code: of two questions the last is asked.
KeptLast(found, number, rest) ==
  IF "block" \in found THEN [level |-> "block", line |-> number]
  ELSE IF rest # Clean THEN rest
  ELSE IF "confirm" \in found THEN [level |-> "confirm", line |-> number] ELSE Clean

\* A block decides, the first one there is; short of one the first question.
Kept(found, number, rest) ==
  IF "block" \in found THEN [level |-> "block", line |-> number]
  ELSE IF rest.level # "block" /\ "confirm" \in found THEN [level |-> "confirm", line |-> number]
  ELSE rest

\* classify_script, for the lines of a span: of shorter ones verdict has the answer.
Walk(body, span, verdict) ==
  LET n    == span.from
      last == LastOf(body, n, span.end)
      docs == Opens(body, n, last)
      next == Stops(body, docs, last, span.end)[Len(docs)] + 1
  IN  IF n > span.end THEN Clean
      ELSE IF body[n].noise THEN verdict[[span EXCEPT !.from = n + 1]]
      ELSE Kept(Found(body, n, last, span, verdict), n, verdict[[span EXCEPT !.from = next]])

Verdicts(body) ==
  LET verdict[span \in Spans(body)] == Walk(body, span, verdict)
  IN  verdict

Script(body) == Verdicts(body)[Span(1, Len(body), TRUE)]

FileContent(body, kind) == FileLevel(body, 1, Len(body), kind, Verdicts(body))

\* DBAAgent._judge; a script's kind is that of the interpreter its step names.
JudgeStep(step) ==
  CASE step.action = "run"        -> Command(step.text)
    [] step.action = "script"     ->
         ScriptLevel(step.body, Span(1, Len(step.body), TRUE), step.kind, Verdicts(step.body))
    [] step.action = "write_file" -> IF JudgePath(step.path) # "allow" THEN JudgePath(step.path)
                                     ELSE FileContent(step.body, step.kind)
=============================================================================
