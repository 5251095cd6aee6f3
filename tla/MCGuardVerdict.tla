---------------------------- MODULE MCGuardVerdict ----------------------------
(* Every program in every form that matters, alone and two in a row, and every  *)
(* script of up to four lines over the kinds of line classify_script tells      *)
(* apart, and of five where the first writes two files.                         *)
EXTENDS GuardVerdict

Single ==
  { Plain(words) : words \in
    { <<>>, <<"ls">>, <<"vi", "f">>, <<"bash">>, <<"bash", "x.sh">>, <<"su", "postgres">>,
      <<"sudo", "passwd">>, <<"rm", "-r", "/etc">>, <<"rm", "/etc">>, <<"rm", "-r", "/var/lib/mysql">>,
      <<"rm", "/var/lib/mysql", "/">>, <<"mv", "/var/lib/mysql", "/tmp">>, <<"mv", "/tmp", "/etc/passwd">>,
      <<"mysql">>, <<"mysql", "-e", "q">>, <<"mysqld">>, <<"mysqld", "--help">> } }

Commands == {[words |-> w, bg |-> b] : w \in Single, b \in BOOLEAN}
Of(segs, rules, open) == [segs |-> segs, rules |-> rules, open |-> open]

MCTexts ==
  {Of(<<s>>, r, o) : s \in Commands, r \in SUBSET {1, 2}, o \in BOOLEAN} \cup
  {Of(<<s, t>>, {}, FALSE) : s, t \in Commands} \cup
  {Alone(<<Word("bash"), Word("-c"), Quoted(Of(<<s>>, r, o))>>, b) :
     s \in Commands, r \in SUBSET {1, 2}, o, b \in BOOLEAN}

Line(words, rules) ==
  [text |-> Of(<<[words |-> Plain(words), bg |-> FALSE]>>, rules, FALSE),
   noise |-> FALSE, cont |-> FALSE, docs |-> <<>>, file |-> FALSE, ends |-> 0, config |-> FALSE,
   call |-> [f |-> Unparsable, arg |-> <<>>]]

Heredoc(tag, kind) == [tag |-> tag, kind |-> kind]

MCLines ==
  { Line(<<"ls">>, {}), Line(<<"mysqld">>, {}), Line(<<"passwd">>, {}), Line(<<"drop">>, {2}),
    Line(<<"mkfs">>, {1}),
    [Line(<<"docker">>, {}) EXCEPT !.cont = TRUE],
    [Line(<<"#">>, {}) EXCEPT !.noise = TRUE, !.call.f = "none"],
    [Line(<<"cat">>, {}) EXCEPT !.docs = <<Heredoc(1, "conf")>>, !.file = TRUE],
    [Line(<<"tee">>, {}) EXCEPT !.docs = <<Heredoc(1, "script"), Heredoc(2, "python")>>, !.file = TRUE],
    [Line(<<"mysql", "<">>, {}) EXCEPT !.docs = <<Heredoc(1, "script")>>],
    [Line(<<"EOF">>, {}) EXCEPT !.ends = 1],
    [Line(<<"END">>, {}) EXCEPT !.ends = 2],
    [Line(<<"bind-address">>, {}) EXCEPT !.config = TRUE],
    [Line(<<"requests.post">>, {}) EXCEPT !.call.f = "requests.post"] }

TwoFiles == CHOOSE line \in MCLines : Len(line.docs) = 2
MCBodies == UNION {[1 .. n -> MCLines] : n \in 1 .. 4} \cup
            {<<TwoFiles>> \o rest : rest \in [1 .. 4 -> MCLines]}

MCPaths == {"/", "/etc", "/var/lib/mysql", "/etc/passwd", "/dev/sda", "/root/.ssh/authorized_keys",
            "my.cnf", "/tmp"}
=============================================================================
