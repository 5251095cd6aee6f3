------------------------------ MODULE GuardVerdict ------------------------------
(***************************************************************************)
(* What Guard promises of the verdicts it gives, against definitions that  *)
(* do not follow its loops.                                                *)
(***************************************************************************)
EXTENDS Guard

CONSTANTS
  Texts,   \* commands to judge
  Bodies,  \* shell scripts to judge
  Paths    \* what is deleted, moved and written

\* Texts whose words are words, and texts that quote such texts and no deeper ones.
TextsOf(words) == [segs : Seq([words : Seq(words), bg : BOOLEAN]),
                   rules : SUBSET (1 .. 2), open : BOOLEAN]
PlainTexts     == TextsOf([w : STRING, in : {<<>>}])
ShallowTexts   == TextsOf([w : STRING, in : Seq(PlainTexts)])
Heredocs       == [tag : Nat \ {0}, kind : {"conf", "script", "python"}]
Lines          == [text : ShallowTexts, noise : BOOLEAN, cont : BOOLEAN,
                   docs : Seq(Heredocs), file : BOOLEAN, ends : Nat, config : BOOLEAN,
                   call : [f : STRING, arg : Seq(STRING)]]

ASSUME AskedAssumption ==
  /\ Texts \subseteq ShallowTexts
  /\ Bodies \subseteq Seq(Lines)

VARIABLES
  asked,   \* [kind, text, body]
  verdict  \* [level, line]; "none" as a level before the answer

vars == <<asked, verdict>>

Asking(kind, text, body) == [kind |-> kind, text |-> text, body |-> body]

Init ==
  /\ \/ \E text \in Texts : asked = Asking("run", text, <<>>)
     \/ \E body \in Bodies : asked = Asking("script", Empty, body)
  /\ verdict = [level |-> "none", line |-> 0]

Answer ==
  /\ verdict.level = "none"
  /\ verdict' = IF asked.kind = "run" THEN [level |-> Command(asked.text), line |-> 0]
                ELSE Script(asked.body)
  /\ UNCHANGED asked

Next == Answer \/ (verdict.level # "none" /\ UNCHANGED vars)

Spec == Init /\ [][Next]_vars
-----------------------------------------------------------------------------
\* What a line of a script is, from the one before it: the start of a command,
\* joined to one, in a heredoc that goes to a file, the end of one, or nothing. With
\* it go the heredocs of its command, whether they go to a file, and how many ended.
Role(is, docs, file, ended) == [is |-> is, docs |-> docs, file |-> file, ended |-> ended]

Idle          == Role("nothing", <<>>, FALSE, 0)
Pending(role) == role.file /\ role.ended < Len(role.docs)
Awaited(role) == role.docs[role.ended + 1]

RoleAfter(body, i, before) ==
  LET joins == before.is \in {"start", "joined"} /\ body[i - 1].cont
  IN  IF joins
      THEN Role("joined", before.docs \o body[i].docs, before.file \/ body[i].file, 0)
      ELSE IF Pending(before)
      THEN IF body[i].ends = Awaited(before).tag
           THEN Role("end", before.docs, before.file, before.ended + 1)
           ELSE Role("body", before.docs, before.file, before.ended)
      ELSE IF body[i].noise THEN Idle
      ELSE Role("start", body[i].docs, body[i].file, 0)

Roles(body) ==
  LET role[i \in 0 .. Len(body)] == IF i = 0 THEN Idle ELSE RoleAfter(body, i, role[i - 1])
  IN  role

\* The last of the lines after line n that all have a role.
LastAs(is, body, n) ==
  Max({m \in n .. Len(body) : \A i \in n + 1 .. m : Roles(body)[i].is = is})

\* The lines a file of the command that ends at line m begins below: that line itself
\* or the end of the file before.
Above(body, m) ==
  {s \in m .. Len(body) :
     /\ Pending(Roles(body)[s])
     /\ s > m => Roles(body)[s].is = "end"
     /\ \A i \in m + 1 .. s : Roles(body)[i].is \in {"body", "end"}}

\* The verdicts on the command that starts at line n, and on the files it writes.
LevelsOf(body, n) ==
  LET last == LastAs("joined", body, n)
  IN  {Classify(Text(body, n, last), FALSE, TRUE, FALSE)} \cup
      {FileLevel(body, s + 1, LastAs("body", body, s), Awaited(Roles(body)[s]).kind, Verdicts(body)) :
         s \in Above(body, last)}

\* classify_script's "Judge a shell script line by line and keep the strictest
\* verdict": of all the commands in it and the files they write the strictest
\* decides, and the line it names is the first that deserves it.
StrictestDecides ==
  LET body   == asked.body
      starts == {n \in DOMAIN body : Roles(body)[n].is = "start"}
      at(l)  == {n \in starts : l \in LevelsOf(body, n)}
  IN  asked.kind = "script" /\ verdict.level # "none" =>
        verdict = IF at("block") # {} THEN [level |-> "block", line |-> Min(at("block"))]
                  ELSE IF at("confirm") # {} THEN [level |-> "confirm", line |-> Min(at("confirm"))]
                  ELSE Clean

\* One command, with the patterns that match in what it quotes.
Alone(words, bg) == [segs  |-> <<[words |-> words, bg |-> bg]>>, open |-> FALSE,
                     rules |-> UNION {w.in[1].rules : w \in {v \in ToSet(words) : v.in # <<>>}}]
Plain(words)     == [i \in DOMAIN words |-> Word(words[i])]

Backgrounded(text) ==
  [text EXCEPT !.segs = [i \in DOMAIN text.segs |-> [text.segs[i] EXCEPT !.bg = TRUE]]]

\* A text in the hands of another shell: bash -c, under sudo, su -c, one in another.
Wrapped(text, bg) ==
  { Alone(<<Word("bash"), Word("-c"), Quoted(text)>>, bg),
    Alone(<<Word("sudo"), Word("bash"), Word("-c"), Quoted(text)>>, bg),
    Alone(<<Word("su"), Word("postgres"), Word("-c"), Quoted(text)>>, bg),
    Alone(<<Word("su"), Word("-c"),
            Quoted(Alone(<<Word("bash"), Word("-c"), Quoted(text)>>, FALSE))>>, bg) }

OneLine(text) ==
  <<[text |-> text, noise |-> FALSE, cont |-> FALSE, docs |-> <<>>, file |-> FALSE, ends |-> 0,
     config |-> FALSE, call |-> [f |-> Unparsable, arg |-> <<>>]]>>

Calls(f, arg) == [parses |-> TRUE, calls |-> <<[f |-> f, arg |-> arg]>>]

\* The verdict is on what is done and not on how it is written down: a command is
\* judged the same on its own, given to a shell or to su (behind an & as well), as
\* a script, and as a call of a python script; and so are a delete, a move and a write
\* to an absolute path. (Of nothing at all this is not so: by itself it is refused,
\* bash -c '' is let through, os.system('') is asked about.)
JudgedTheSame ==
  asked.kind = "run" /\ asked.text # Empty /\ verdict.level # "none" =>
    /\ \A w \in Wrapped(asked.text, FALSE) : Command(w) = verdict.level
    /\ \A w \in Wrapped(asked.text, TRUE) : Command(w) = Command(Backgrounded(asked.text))
    /\ ~ asked.text.open => /\ Script(OneLine(asked.text)).level = verdict.level
                            /\ Python(Calls("os.system", <<asked.text>>)) = verdict.level
    /\ \A p, q \in Paths :
         /\ Python(Calls("os.remove", <<p>>)) = Command(Alone(Plain(<<"rm", p>>), FALSE))
         /\ Python(Calls("shutil.rmtree", <<p>>)) = Command(Alone(Plain(<<"rm", "-r", p>>), FALSE))
         /\ Python(Calls("shutil.move", <<p, q>>)) = Command(Alone(Plain(<<"mv", p, q>>), FALSE))
         /\ p \notin Relative =>
              Python(Calls("open", <<p>>)) =
                JudgeStep([action |-> "write_file", path |-> p, body |-> <<>>, kind |-> "conf"])
=============================================================================
