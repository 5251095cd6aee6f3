------------------------------- MODULE MCSession -------------------------------
(* Calls of up to three servers: bare addresses, given names, names that look  *)
(* like labels of the harness, two accounts or ports of one address, values    *)
(* that are no target.                                                         *)
EXTENDS Session

At(host)          == [name |-> Unnamed, host |-> host, user |-> "", port |-> 0]
Named(name, host) == [At(host) EXCEPT !.name = name]
On(port, spec)    == [spec EXCEPT !.port = port]
By(user, spec)    == [spec EXCEPT !.user = user]

MCNodes  == <<"node1", "node2", "node3", "node4", "node5", "node6", "node7", "node8", "node9">>
MCBegins == {<<"10.0.0.1", "10.0.0.12">>, <<"node1", "node10">>}

MCSpecs ==
  { <<>>,
    << At("10.0.0.1") >>,
    << On(70000, At("10.0.0.1")) >>,
    << At("10.0.0.1"), At("10.0.0.12") >>,
    << At("10.0.0.1"), At("10.0.0.1") >>,
    << At("10.0.0.1"), On(2222, At("10.0.0.1")) >>,
    << By("dba", At("10.0.0.1")), At("10.0.0.1"), At("node1") >>,
    << Named("primary", "10.0.0.1"), Named("replica", "10.0.0.12") >>,
    << Named("primary", "10.0.0.1"), Named("primary", "10.0.0.12") >>,
    << Named("node10", "10.0.0.1"), At("10.0.0.12"), Named("node2", "10.0.0.3") >>,
    << Named("node2", "10.0.0.1"), At("node2") >>,
    << At("node2"), At("10.0.0.1") >> }

MCArguments ==
  [mode : {"plan", "auto", "unattended"}, yes : BOOLEAN, accept : BOOLEAN,
   probe : BOOLEAN, list : BOOLEAN]
=============================================================================
