------------------------------- MODULE StepParse -------------------------------
(***************************************************************************)
(* Reading one step out of a model's reply: parse of do_dba/protocol.py,   *)
(* one action per line the loop reads, with Fleet.find for the HOST line.  *)
(*                                                                         *)
(* A reply is a sequence of lines [t, key, says]; t is what parse takes    *)
(* the line for: "key" (KEY: value), "open" and "close" (COMMAND_BEGIN,    *)
(* COMMAND_END), "fence", "blank", "text", "token" (an end-of-turn marker  *)
(* such as <|im_end|>) and "tag" (a closing one, such as </s>). says is a  *)
(* sequence of words, <<>> when nothing follows the key. What a step is    *)
(* made of is kept as positions of the reply, so that what came from where *)
(* can be stated.                                                          *)
(*                                                                         *)
(* What is abstracted:                                                     *)
(*  - Markers stand on lines of their own, so what is before and behind    *)
(*    one on its line counts as lines before and behind it.                *)
(*  - A command that cannot be whole (an open quote, a heredoc, a trailing *)
(*    operator) is one that says "open"; text in which the step format or  *)
(*    a result header shows is one that says "overrun".                    *)
(*  - Indentation, quotes around a path, the wording of refusals.          *)
(***************************************************************************)
EXTENDS Fleet, SequencesExt

CONSTANTS
  Replies, \* the replies to read
  Servers  \* the fleet

VARIABLES
  reply,     \* as it came
  lines,     \* with markers stripped
  index,     \* the next line to read
  fields,    \* key -> [line, body]: the key line (or 0) and the lines below it
  actions, verify, \* the ACTION and VERIFY lines
  swallowed, \* the lines that were taken as text below a key or in a block
  trailing,  \* the lines below a single-line COMMAND that were not
  step       \* the outcome

vars == <<reply, lines, index, fields, actions, verify, swallowed, trailing, step>>

Actions    == {<<"run">>, <<"script">>, <<"write_file">>, <<"done">>, <<"abort">>}
Blocks     == {"command", "content", "summary", "script"}
Multiline  == Blocks
Keys       == Blocks \cup {"thought", "action", "path", "mode", "verify", "explanation", "reason",
                           "host", "interpreter", "lang", "language"}
Openers    == {"action", "thought"} \* _STEP_OPENERS

ReplyLine == [t : {"key", "open", "close", "fence", "blank", "text", "token", "tag"},
              key : STRING, says : Seq(STRING)]

\* _BLOCKS: what a COMMAND_BEGIN, CONTENT_BEGIN, ... opens.
WellFormed(l) == l \in Seq(ReplyLine) /\ \A i \in DOMAIN l : l[i].t = "open" => l[i].key \in Blocks

ASSUME ParseAssumption == \A r \in Replies : WellFormed(r)
-----------------------------------------------------------------------------
\* strip_control_tokens
Latest(S)      == IF S = {} THEN 0 ELSE Max(S)
Marks(l, t, k) == {i \in DOMAIN l : l[i].t = t /\ l[i].key = k}

\* _inside_content: the text ends in an open file body or script.
InsideContent(head) ==
  \E k \in {"content", "script"} : Latest(Marks(head, "open", k)) > Latest(Marks(head, "close", k))

\* _strip_trailing_tag
StripTags(l) ==
  LET solid == Latest({i \in DOMAIN l : l[i].t \notin {"tag", "blank"}})
      head  == SubSeq(l, 1, solid)
  IN  IF (\A i \in DOMAIN l : i > solid => l[i].t # "tag") \/ InsideContent(head) THEN l ELSE head

\* A leak behind a step is cut off with all that follows; one in front of it or
\* around it leaves its lines where they are.
Strip(l) ==
  LET cleaned == StripTags(l)
      tokens  == {i \in DOMAIN cleaned : cleaned[i].t = "token"}
      head    == SubSeq(cleaned, 1, Min(tokens) - 1)
  IN  IF tokens = {} \/ InsideContent(head) THEN cleaned
      ELSE IF Marks(head, "key", "action") # {} THEN head
      ELSE [i \in DOMAIN cleaned |->
              IF i \in tokens THEN [cleaned[i] EXCEPT !.t = "blank"] ELSE cleaned[i]]
-----------------------------------------------------------------------------
Reading == [outcome |-> "reading"]

Init ==
  /\ reply \in Replies
  /\ lines = Strip(reply)
  /\ index = 1
  /\ fields = <<>>
  /\ actions = <<>>
  /\ verify = <<>>
  /\ swallowed = {}
  /\ trailing = {}
  /\ step = Reading

Here         == lines[index]
IsKey(i, S)  == lines[i].t = "key" /\ lines[i].key \in S
Below(i, E)  == i + 1 .. Min({k \in E : k > i} \cup {Len(lines) + 1}) - 1
Where(t)     == {i \in DOMAIN lines : lines[i].t = t}
KeyLines(S)  == {i \in DOMAIN lines : IsKey(i, S)}
Ends(key)    == {i \in Where("close") : lines[i].key = key}

At(t) == step = Reading /\ index <= Len(lines) /\ Here.t = t

Set(key, line, body) ==
  fields' = [k \in DOMAIN fields \cup {key} |->
               IF k = key THEN [line |-> line, body |-> body] ELSE fields[k]]
SetDefault(key, line, body) ==
  IF key \in DOMAIN fields THEN UNCHANGED fields ELSE Set(key, line, body)

\* A fence, prose, an unknown key, or a terminator of nothing.
SkipLine ==
  /\ step = Reading /\ index <= Len(lines)
  /\ \/ Here.t \notin {"open", "key"}
     \/ Here.t = "key" /\ Here.key \notin Keys
  /\ index' = index + 1
  /\ UNCHANGED <<reply, lines, fields, actions, verify, swallowed, trailing, step>>

\* _read_block: up to its terminator or, when that was forgotten, the next ACTION.
ReadBlock ==
  /\ At("open")
  /\ LET body == Below(index, Ends(Here.key) \cup KeyLines({"action"}))
         stop == index + Cardinality(body) + 1
     IN  /\ Set(Here.key, 0, body)
         /\ swallowed' = swallowed \cup body
         /\ index' = IF stop \in Ends(Here.key) THEN stop + 1 ELSE stop
  /\ UNCHANGED <<reply, lines, actions, verify, trailing, step>>

ReadAction ==
  /\ At("key") /\ Here.key = "action"
  /\ actions' = Append(actions, index)
  /\ index' = index + 1
  /\ UNCHANGED <<reply, lines, fields, verify, swallowed, trailing, step>>

ReadVerify ==
  /\ At("key") /\ Here.key = "verify"
  /\ verify' = IF Here.says = <<>> THEN verify ELSE Append(verify, index)
  /\ index' = index + 1
  /\ UNCHANGED <<reply, lines, fields, actions, swallowed, trailing, step>>

\* _read_indented: a key with its text on the lines below, up to the next key.
ReadIndented ==
  /\ At("key") /\ Here.key \in Multiline /\ Here.says = <<>>
  /\ LET body == Below(index, Where("fence") \cup Where("open") \cup KeyLines(Keys))
     IN  /\ SetDefault(Here.key, index, body)
         /\ swallowed' = swallowed \cup body
         /\ index' = index + Cardinality(body) + 1
  /\ UNCHANGED <<reply, lines, actions, verify, trailing, step>>

\* What _lines_below returns, and that without the blank lines at its end.
LinesBelow(i) == Below(i, Where("fence") \cup Where("open") \cup KeyLines(Openers))
StripBlank(S) == {i \in S : \E j \in S : j >= i /\ lines[j].t # "blank"}

Incomplete(i) == "open" \in ToSet(lines[i].says)

FirstCommand == At("key") /\ Here.key = "command" /\ Here.says # <<>> /\ "command" \notin DOMAIN fields

\* Not the code: the rest of a command is read for keys once more.
ReadContinuedTwice ==
  /\ FirstCommand /\ Incomplete(index)
  /\ LET continued == StripBlank(LinesBelow(index))
     IN  /\ Set("command", index, continued)
         /\ swallowed' = swallowed \cup continued
  /\ index' = index + 1
  /\ UNCHANGED <<reply, lines, actions, verify, trailing, step>>

\* A first line that cannot stand alone: the lines below it are its rest.
ReadContinued ==
  /\ FirstCommand /\ Incomplete(index)
  /\ LET continued == StripBlank(LinesBelow(index))
     IN  /\ Set("command", index, continued)
         /\ swallowed' = swallowed \cup continued
         /\ index' = index + Cardinality(continued) + 1
  /\ UNCHANGED <<reply, lines, actions, verify, trailing, step>>

ReadCommand ==
  /\ FirstCommand /\ ~ Incomplete(index)
  /\ trailing' = LinesBelow(index)
  /\ Set("command", index, {})
  /\ index' = index + 1
  /\ UNCHANGED <<reply, lines, actions, verify, swallowed, step>>

\* Any other key: its first line stands.
ReadKey ==
  /\ At("key") /\ Here.key \in Keys \ {"action", "verify"}
  /\ Here.key \in Multiline => Here.says # <<>>
  /\ Here.key = "command" => "command" \in DOMAIN fields
  /\ SetDefault(Here.key, index, {})
  /\ index' = index + 1
  /\ UNCHANGED <<reply, lines, actions, verify, swallowed, trailing, step>>
-----------------------------------------------------------------------------
\* The lines whose text a field holds.
Lines(key) ==
  IF key \notin DOMAIN fields THEN {}
  ELSE fields[key].body \cup {i \in {fields[key].line} : i # 0 /\ lines[i].says # <<>>}

Value(key) == LET i == Latest(Lines(key)) IN IF i = 0 THEN <<>> ELSE lines[i].says
Text(S)    == {i \in S : lines[i].t # "blank"}

\* The command without the tags that a leak left at its end.
Command ==
  LET solid == {i \in Text(Lines("command")) : lines[i].t # "tag"}
  IN  {i \in Lines("command") : \E j \in solid : j >= i}

\* Not the code: the lines below a command are never taken for its rest.
NoneDangling == {}

\* The lines hard against a single-line command.
Dangling == {i \in trailing : \A j \in trailing : j <= i => lines[j].t # "blank"}

Overruns(i) == lines[i].key = "thought" \/ "overrun" \in ToSet(lines[i].says)

Language == \* INTERPRETER, or one of the two other spellings of it
  LET said == SelectSeq(<<"interpreter", "lang", "language">>, LAMBDA k : Value(k) # <<>>)
  IN  IF said = <<>> THEN <<>> ELSE Value(said[1])

\* _SCRIPT_EXTENSIONS: the paths a python script would have.
PythonPaths == {<<"/opt/load.py">>}

\* _interpreter: what was said, else the shebang, else the path, else bash.
Interpreter ==
  LET body  == Text(Lines("script"))
      first == IF body = {} THEN <<>> ELSE lines[Min(body)].says
  IN  IF Language # <<>> THEN Language
      ELSE IF first = <<"shebang", "python3">> THEN <<"python3">>
      ELSE IF first = <<"shebang", "bash">> THEN <<"bash">>
      ELSE IF Value("path") \in PythonPaths THEN <<"python3">> ELSE <<"bash">>

Known(interpreter) == interpreter \in {<<"bash">>, <<"python3">>}

\* Fleet.find of the words of a line.
Named(words) == Find(Servers, [n \in DOMAIN words |-> <<words[n]>>])

Host == Named(Value("host"))

\* Not the code: a step that names no server goes to the first one.
GuessedHost(action) == IF Host # 0 THEN Host ELSE IF action \in {<<"done">>, <<"abort">>} THEN 0 ELSE 1

\* _resolve_host: the server of the step, 0 for none.
ResolvedHost(action) ==
  IF Host # 0 THEN Host
  ELSE IF Len(Servers) = 1 /\ action \notin {<<"done">>, <<"abort">>} THEN 1 ELSE 0

\* _check: VERIFY: [name] command is for one server, any other for all.
Scoped(i)  == lines[i].says[1] = "["
ScopeOf(i) == IF Scoped(i) THEN Named(<<lines[i].says[2]>>) ELSE 0

Summary == Text(Lines(IF Text(Lines("summary")) # {} THEN "summary" ELSE "reason"))

\* Why the step is refused, in the order the code asks.
Refusal(action) ==
  LET ends == action \in {<<"done">>, <<"abort">>}
  IN
  IF action = <<>> THEN "no action"
  ELSE IF action \notin Actions THEN "bad action"
  ELSE IF action = <<"script">> /\ ~ Known(Interpreter) THEN "bad interpreter"
  ELSE IF \E i \in ToSet(verify) : Scoped(i) /\ ScopeOf(i) = 0 THEN "bad scope"
  ELSE IF ~ ends /\ ResolvedHost(action) = 0 THEN "no host"
  ELSE IF action = <<"run">> /\ Command = {} THEN "no command"
  ELSE IF action = <<"run">> /\ \E i \in Command \cup Dangling : Overruns(i) THEN "overrun"
  ELSE IF action = <<"run">> /\ Dangling # {} THEN "dangling"
  ELSE IF action = <<"script">> /\ Text(Lines("script")) = {} THEN "no script"
  ELSE IF action = <<"write_file">> /\ Value("path") = <<>> THEN "no path"
  ELSE IF action = <<"write_file">> /\ Text(Lines("content")) = {} THEN "no content"
  ELSE IF ends /\ Summary = {} THEN "no summary"
  ELSE "none"

FirstAction == IF actions = <<>> THEN <<>> ELSE lines[actions[1]].says

StepOf(action) ==
  [outcome |-> "step", action |-> action, host |-> ResolvedHost(action),
   interpreter |-> IF action = <<"script">> THEN Interpreter ELSE <<>>,
   scopes |-> [n \in DOMAIN verify |-> ScopeOf(verify[n])],
   extra |-> Len(actions) - 1, dropped |-> Text(trailing)]

Judge ==
  /\ step = Reading /\ index > Len(lines)
  /\ step' = IF Refusal(FirstAction) = "none" THEN StepOf(FirstAction)
             ELSE [outcome |-> "refused", why |-> Refusal(FirstAction)]
  /\ UNCHANGED <<reply, lines, index, fields, actions, verify, swallowed, trailing>>

Judged == step # Reading /\ UNCHANGED vars

Next ==
  \/ SkipLine \/ ReadBlock \/ ReadAction \/ ReadVerify \/ ReadIndented
  \/ ReadContinued \/ ReadCommand \/ ReadKey \/ Judge \/ Judged

Spec == Init /\ [][Next]_vars
-----------------------------------------------------------------------------
Taken(action) == step.outcome = "step" /\ step.action = action

\* A line of the reply is read as one thing: what stands in a heredoc, a script or
\* a file body is a line of it, and never a key of the step as well, nor of two
\* bodies.
EachLineOnce ==
  LET keyed == {fields[k].line : k \in DOMAIN fields} \cup ToSet(actions) \cup ToSet(verify)
  IN  /\ keyed \cap swallowed = {}
      /\ \A j, k \in DOMAIN fields : j # k => fields[j].body \cap fields[k].body = {}

\* The lines a command was written on: its own and those below it that no other
\* part of the step begins on.
Written(line) == {line} \cup {i \in Text(LinesBelow(line)) : lines[i].t # "tag"}
Kept          == Command \cup step.dropped

\* protocol.py's "dropping a command's second half in silence is the one thing
\* that must not happen here": of a command that is taken, every line hard against
\* a single-line COMMAND runs, and those further down run or are on record as not run.
NothingHalfRun ==
  Taken(<<"run">>) /\ fields["command"].line # 0 =>
    LET line == fields["command"].line
        hard == {i \in Written(line) : \A j \in line + 1 .. i : lines[j].t # "blank"}
    IN  lines[line].says # <<>> => hard \subseteq Command /\ Written(line) \subseteq Kept

\* The same of the only COMMAND of a reply when it stands on the lines below its
\* key: its lines of text.
NothingHalfRunBelow ==
  Taken(<<"run">>) /\ KeyLines({"command"}) = {fields["command"].line} =>
    LET line == fields["command"].line
    IN  lines[line].says = <<>> => Written(line) \cap Where("text") \subseteq Kept

\* Where a step goes is said by the first HOST line that is not part of a body,
\* and by it alone: on several servers a step without one, or with one that names
\* none of them, is refused. The same goes for the scope of a check.
AimedAsNamed ==
  LET named == KeyLines({"host"}) \ swallowed
  IN  step.outcome = "step" =>
        /\ step.host # 0 /\ Len(Servers) > 1 =>
             named # {} /\ step.host = Named(lines[Min(named)].says)
        /\ step.host = 0 => step.action \in {<<"done">>, <<"abort">>}
        /\ \A n \in DOMAIN verify :
             step.scopes[n] = 0 <=> lines[verify[n]].says[1] # "["

\* agent.py's "the reply held more than one step; only the first was used": what
\* an acting step is made of stands above the second ACTION line.
OnlyTheFirstStep ==
  step.outcome = "step" /\ step.extra > 0 /\ step.action \notin {<<"done">>, <<"abort">>} =>
    \A k \in DOMAIN fields \cap {"command", "script", "content", "path", "host", "interpreter"} :
      \A i \in Lines(k) : i < actions[2]

\* strip_control_tokens's "Markers inside a CONTENT_BEGIN or SCRIPT_BEGIN block are
\* left alone": the body that is written is the one that was sent.
BodiesAsSent ==
  step.outcome = "step" => \A k \in {"content", "script"} : \A i \in Lines(k) : lines[i] = reply[i]
=============================================================================
