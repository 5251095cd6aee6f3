--------------------------------- MODULE Fleet ---------------------------------
(***************************************************************************)
(* The servers of a run and the lookup from what a reply says to one of    *)
(* them: parse_target and Fleet of do_dba/fleet.py, as operators.          *)
(*                                                                         *)
(* A server is a record [name, host, user, port, named]. What an operator  *)
(* or a model writes is a sequence of words, and a word a sequence of      *)
(* tokens: <<"primary">>, or <<"root", "10.0.0.2">> for root@10.0.0.2.     *)
(*                                                                         *)
(* What is abstracted: letter case and the punctuation around a word; the  *)
(* syntax of a --host value, which comes in its parts; that one token      *)
(* begins with another is the relation Begins.                             *)
(***************************************************************************)
EXTENDS Integers, Sequences, FiniteSets

CONSTANTS
  Nodes,   \* the labels node1, node2, ... in order
  Begins,  \* pairs of tokens: the second begins with the first, and is longer
  Unnamed  \* no name was given

\* parse_target: the parts of [name=][user@]host[:port], checked. A port of 0
\* stands for none given, one out of range for text that is no port number, and an
\* empty name for what is not a name.
Usable(spec) == spec.host # "" /\ spec.port \in 0 .. 65535 /\ spec.name # ""

TargetOf(spec, user, port) ==
  [name  |-> IF spec.name = Unnamed THEN spec.host ELSE spec.name,
   host  |-> spec.host,
   user  |-> IF spec.user = "" THEN user ELSE spec.user,
   port  |-> IF spec.port = 0 THEN port ELSE spec.port,
   named |-> spec.name # Unnamed]

NamesOf(targets) == {targets[i].name : i \in DOMAIN targets}
HostsOf(targets) == {targets[i].host : i \in DOMAIN targets}

\* Not the code: labels that do not look at what is taken.
LabelledByPosition(targets) ==
  [i \in DOMAIN targets |->
     IF targets[i].named THEN targets[i] ELSE [targets[i] EXCEPT !.name = Nodes[i]]]

\* The n-th of node1, node2, ... that is not taken.
Free(taken) == {k \in DOMAIN Nodes : Nodes[k] \notin taken}
FreeNode(taken, n) ==
  Nodes[CHOOSE k \in Free(taken) : Cardinality(Free(taken) \cap 1 .. k) = n]

UnnamedUpTo(targets, i) == {j \in 1 .. i : ~ targets[j].named}

\* _label_unnamed: node1, node2, ... in order, past those that are taken.
Labelled(targets) ==
  IF Len(targets) < 2 THEN targets
  ELSE LET taken == NamesOf(targets) \cup HostsOf(targets)
       IN  [i \in DOMAIN targets |->
              IF targets[i].named THEN targets[i]
              ELSE [targets[i] EXCEPT
                      !.name = FreeNode(taken, Cardinality(UnnamedUpTo(targets, i)))]]

Endpoint(t) == <<t.user, t.host, t.port>>

\* Not the code: a name may be the address of another server.
DistinctNames(targets) ==
  \A i, j \in DOMAIN targets : i # j =>
    targets[i].name # targets[j].name /\ Endpoint(targets[i]) # Endpoint(targets[j])

\* What Fleet refuses: two servers of one name, one server twice, and a name
\* that is the address of another server.
Distinct(targets) ==
  \A i, j \in DOMAIN targets : i # j =>
    /\ targets[i].name # targets[j].name
    /\ Endpoint(targets[i]) # Endpoint(targets[j])
    /\ targets[i].name # targets[j].host

\* The fleet of some --host values, or none of it.
Accepted(specs, user, port) ==
  LET targets == Labelled([i \in DOMAIN specs |-> TargetOf(specs[i], user, port)])
  IN  IF specs # <<>> /\ (\A i \in DOMAIN specs : Usable(specs[i])) /\ Distinct(targets)
      THEN targets ELSE <<>>

\* user@host, or user@host:port: a number is a token as it stands.
Label(t) == IF t.port = 22 THEN <<t.user, t.host>> ELSE <<t.user, t.host, t.port>>

Spelled(t, word) == word \in {<<t.name>>, <<t.host>>, Label(t)}
Prefixed(t, word) ==
  /\ Len(word) = 1
  /\ \/ word[1] \in {t.name, t.host}
     \/ <<word[1], t.name>> \in Begins
     \/ <<word[1], t.host>> \in Begins

\* Fleet.find of the first word: a position in the fleet, or 0. What is spelled out
\* goes before what is begun, and more than one is none.
Find(targets, words) ==
  LET exact == {i \in DOMAIN targets : Spelled(targets[i], words[1])}
      begun == {i \in DOMAIN targets : Prefixed(targets[i], words[1])}
      meant == IF exact # {} THEN exact ELSE begun
  IN  IF words # <<>> /\ Cardinality(meant) = 1 THEN CHOOSE i \in meant : TRUE ELSE 0
=============================================================================
