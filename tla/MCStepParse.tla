------------------------------ MODULE MCStepParse ------------------------------
(* Replies to a run on two servers: every way to go on for up to five lines     *)
(* about what a command is, about where a step goes, and about what a body is.  *)
EXTENDS StepParse

Line(t)         == [t |-> t, key |-> "", says |-> <<>>]
Open(key)       == [Line("open") EXCEPT !.key = key]
Close(key)      == [Line("close") EXCEPT !.key = key]
KeyLine(key, w) == [t |-> "key", key |-> key, says |-> w]
Prose           == [Line("text") EXCEPT !.says = <<"prose">>]
Shebang(reader) == [Line("text") EXCEPT !.says = <<"shebang", reader>>]

Going(S, n) == UNION {[1 .. m -> S] : m \in 0 .. n}

AboutCommand ==
  { KeyLine("command", <<"whole">>), KeyLine("command", <<"open">>), KeyLine("command", <<>>),
    KeyLine("mode", <<"0644">>), KeyLine("thought", <<"why">>), KeyLine("action", <<"run">>),
    KeyLine("command", <<"whole", "overrun">>), KeyLine("note", <<"well">>), Prose, Line("blank"), Line("fence"), Line("tag"), Open("command"), Close("command") }

AboutHost ==
  { KeyLine("action", <<"run">>), KeyLine("action", <<"done">>), KeyLine("action", <<"dance">>),
    KeyLine("host", <<"primary">>), KeyLine("host", <<"nowhere">>),
    KeyLine("command", <<"whole">>), KeyLine("command", <<"open">>),
    KeyLine("verify", <<"[", "replica">>), KeyLine("verify", <<"[", "nowhere">>),
    KeyLine("verify", <<"check">>), KeyLine("summary", <<"so">>) }

AboutBody ==
  { Open("content"), Close("content"), Open("script"), Close("script"), Shebang("bash"), Shebang("python3"),
    Line("token"), Line("tag"), KeyLine("action", <<"run">>), KeyLine("interpreter", <<"perl">>),
    KeyLine("path", <<"/opt/load.py">>) }

Start == <<KeyLine("action", <<"run">>), KeyLine("host", <<"replica">>)>>
File  == <<KeyLine("action", <<"write_file">>), KeyLine("host", <<"primary">>),
           KeyLine("path", <<"/etc/my.cnf">>)>>
Script == <<KeyLine("action", <<"script">>), KeyLine("host", <<"primary">>)>>

MCReplies ==
  {Start \o s : s \in Going(AboutCommand, 4)} \cup Going(AboutHost, 4) \cup
  {lead \o kind \o s : lead \in {<<>>, <<Line("token")>>}, kind \in {File, Script},
                       s \in Going(AboutBody, 4)}

Server(name, host) == [name |-> name, host |-> host, user |-> "root", port |-> 22, named |-> TRUE]
MCServers == <<Server("primary", "10.0.0.1"), Server("replica", "10.0.0.2")>>
=============================================================================
