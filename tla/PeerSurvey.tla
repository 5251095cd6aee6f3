------------------------------ MODULE PeerSurvey ------------------------------
(***************************************************************************)
(* What the servers of a fleet can reach each other on: Fleet._probe_peers *)
(* of do_dba/fleet.py, with the candidates of a Target, the verdict of a   *)
(* probe (_reach, _diagnose) and what is made of all of them.              *)
(*                                                                         *)
(* Servers are numbered in fleet order. An address is private or not, and  *)
(* an interface virtual or not, by the constant sets below. The network is *)
(* fixed while the survey lasts: reach[s] are the addresses that answer s. *)
(*                                                                         *)
(* What is abstracted: what the shell said, which is kept as its kind; a   *)
(* server with no peers, for which nothing is probed.                      *)
(***************************************************************************)
EXTENDS Integers, Sequences, SequencesExt

CONSTANTS
  N,          \* the number of servers
  Addresses,
  Private,    \* the addresses of a private range
  Virtual,    \* the interfaces of bridges and tunnels
  Host,       \* [1..N -> the address the harness connects on]
  Reports,    \* what a server may report: [1..N -> set of sequences of [iface, at]]
  Networks,   \* the networks considered: each [1..N -> a set of addresses]
  None,       \* no address
  PeerCandidates, \* PEER_CANDIDATES
  Said        \* what the commands of a probe may come back with

Servers == 1 .. N

\* "error" is a command that could not be run, "denied" a shell that will not
\* open sockets, "silence" a port that does not answer in time.
Answers ==
  {"exit 0", "refused", "no route", "denied", "silence", "error", "ping ok", "ping none"}

ASSUME SurveyAssumption ==
  /\ N \in Nat /\ N >= 2
  /\ None \notin Addresses
  /\ Host \in [Servers -> Addresses]
  /\ \A s \in Servers : \A r \in Reports[s] :
       r \in Seq([iface : STRING, at : Addresses])
  /\ Networks \subseteq [Servers -> SUBSET Addresses]
  /\ PeerCandidates \in Nat \ {0}
  /\ Said \subseteq Answers

VARIABLES
  reported,  \* the addresses fact of each server
  reach,     \* the network
  path,      \* the PeerPath in hand, of the next pair of servers
  left,      \* the candidates still to try on it
  paths,     \* Fleet.paths
  confirmed, \* private_confirmed of each server
  blind      \* the pairs of which some probe failed for reasons of its own

vars == <<reported, reach, path, left, paths, confirmed, blind>>

Works(state) == state \in {"open", "refused", "filtered"}

\* What one probe says: of the port, and when it kept silent, of the ping.
ReachOf(first, second) ==
  IF first = "exit 0" THEN "open"
  ELSE IF first = "refused" THEN "refused"
  ELSE IF first = "no route" THEN "no-route"
  ELSE IF first \in {"error", "denied"} THEN "unknown"
  ELSE IF second = "ping ok" THEN "filtered"
  ELSE IF second = "no route" THEN "no-route"
  ELSE "dropped"

\* What the commands may answer on an address that does or does not answer.
Firsts(answers)  ==
  Said \cap (IF answers THEN {"exit 0", "refused", "silence", "error", "denied"}
                        ELSE {"no route", "silence", "error", "denied"})
Seconds(answers) ==
  Said \cap (IF answers THEN {"ping ok", "error"} ELSE {"no route", "ping none", "error"})
Outcomes(answers) ==
  {[state |-> ReachOf(f, s),
    failed |-> f \in {"error", "denied"} \/ (f = "silence" /\ s = "error")] :
      f \in Firsts(answers), s \in Seconds(answers)}

\* The reports of a private address that is not a bridge's, and those among them
\* that share an interface with the address the harness connects on.
Found(s)  == {i \in DOMAIN reported[s] :
                reported[s][i].at \in Private /\ reported[s][i].iface \notin Virtual}
Beside(s) == {i \in Found(s) : \E j \in DOMAIN reported[s] :
                reported[s][j].at = Host[s] /\ reported[s][j].iface = reported[s][i].iface}

\* Not the code: a re-probe starts over from the order reported.
PlaceAsListed(s, conf, a) ==
  Min({i \in Found(s) \ Beside(s) : reported[s][i].at = a} \cup
      {Len(reported[s]) + i : i \in {j \in Beside(s) : reported[s][j].at = a}})

\* Where an address stands in the order of private_candidates: what worked before is
\* first, what shares an interface with the public address last, and of what is
\* reported twice the first mention counts.
Place(s, conf, a) ==
  IF a = conf[s] THEN 0
  ELSE Min({i \in Found(s) \ Beside(s) : reported[s][i].at = a} \cup
           {Len(reported[s]) + i : i \in {j \in Beside(s) : reported[s][j].at = a}})

Offered(s)         == {reported[s][i].at : i \in Found(s)}
Ahead(s, conf, a)  == {b \in Offered(s) : Place(s, conf, b) < Place(s, conf, a)}
Foremost(s, conf, A) == CHOOSE a \in A : \A b \in A : Place(s, conf, a) <= Place(s, conf, b)

\* Target.private_candidates: the first so many of that order.
Candidates(s, conf) == {a \in Offered(s) : Cardinality(Ahead(s, conf, a)) < PeerCandidates}

Mine(s) == {a.at : a \in Range(reported[s])}

NewPath(s, q) ==
  [source |-> s, peer |-> q, private |-> None, reach |-> "none", public |-> "none",
   tried |-> <<>>]

\* The pairs in the order of the two loops: no server is a peer of its own.
Other(s, q) == IF q = s THEN q + 1 ELSE q
NextPath ==
  LET q == Other(path.source, path.peer + 1)
  IN  IF q <= N THEN NewPath(path.source, q)
      ELSE NewPath(path.source + 1, Other(path.source + 1, 1))

\* Not the code: an address of the server's own is probed as the peer's.
UntriedOfAnybody(p, conf) == Candidates(p.peer, conf)

Untried(p, conf) == Candidates(p.peer, conf) \ Mine(p.source)

Init ==
  /\ reported \in [Servers -> UNION {Reports[s] : s \in Servers}]
  /\ \A s \in Servers : reported[s] \in Reports[s]
  /\ reach \in Networks
  /\ confirmed = [s \in Servers |-> None]
  /\ path = NewPath(1, 2)
  /\ left = Untried(path, confirmed)
  /\ paths = <<>>
  /\ blind = {}

\* The path in hand is done with: on to the next pair.
Conclude(done, conf) ==
  /\ confirmed' = conf
  /\ paths' = Append(paths, done)
  /\ path' = NextPath
  /\ left' = IF NextPath.source <= N THEN Untried(NextPath, conf) ELSE {}

Blinded(failed) ==
  blind' = IF failed THEN blind \cup {<<path.source, path.peer>>} ELSE blind

\* The one that got through, or else the first one tried.
Noted(a, state) ==
  [path EXCEPT !.tried = Append(@, a),
               !.private = IF Works(state) \/ @ = None THEN a ELSE @,
               !.reach = IF Works(state) \/ path.private = None THEN state ELSE @]

Probing   == path.source <= N /\ left # {}
Candidate == Foremost(path.peer, confirmed, left)

ProbeWorks ==
  /\ Probing
  /\ \E o \in Outcomes(Candidate \in reach[path.source]) :
       /\ Works(o.state)
       /\ Conclude(Noted(Candidate, o.state), [confirmed EXCEPT ![path.peer] = Candidate])
  /\ UNCHANGED <<reported, reach, blind>>

\* Not the code: the first candidate answers for all of them.
ProbeFailsOnce ==
  /\ Probing
  /\ \E o \in Outcomes(Candidate \in reach[path.source]) :
       /\ ~ Works(o.state)
       /\ path' = Noted(Candidate, o.state)
       /\ left' = {}
       /\ Blinded(o.failed)
  /\ UNCHANGED <<reported, reach, paths, confirmed>>

ProbeFails ==
  /\ Probing
  /\ \E o \in Outcomes(Candidate \in reach[path.source]) :
       /\ ~ Works(o.state)
       /\ path' = Noted(Candidate, o.state)
       /\ left' = left \ {Candidate}
       /\ Blinded(o.failed)
  /\ UNCHANGED <<reported, reach, paths, confirmed>>

NothingPrivate == path.source <= N /\ left = {}

ProbePublic ==
  /\ NothingPrivate
  /\ Host[path.peer] \notin Range(path.tried)
  /\ \E o \in Outcomes(Host[path.peer] \in reach[path.source]) :
       /\ Conclude([path EXCEPT !.public = o.state], confirmed)
       /\ Blinded(o.failed)
  /\ UNCHANGED <<reported, reach>>

\* The harness connects on that private address: it has been tried.
SkipPublic ==
  /\ NothingPrivate
  /\ Host[path.peer] \in Range(path.tried)
  /\ Conclude(path, confirmed)
  /\ UNCHANGED <<reported, reach, blind>>

Surveyed == path.source > N /\ UNCHANGED vars

Next == ProbeWorks \/ ProbeFails \/ ProbePublic \/ SkipPublic \/ Surveyed

Spec == Init /\ [][Next]_vars
-----------------------------------------------------------------------------
PrivateWorks(p) == Works(p.reach)
AnyPath(p)      == PrivateWorks(p) \/ Works(p.public)
PrivateMesh     == paths # <<>> /\ \A i \in DOMAIN paths : PrivateWorks(paths[i])
Broken          == {p \in Range(paths) : ~ PrivateWorks(p)}

\* Target.private: what the servers are told to use for this one.
Listed(s) ==
  IF confirmed[s] # None THEN confirmed[s]
  ELSE IF Candidates(s, confirmed) # {} THEN Foremost(s, confirmed, Candidates(s, confirmed))
  ELSE None

\* Fleet.network_note: the private network, the public one, or give up.
Note ==
  IF paths = <<>> THEN "none"
  ELSE IF PrivateMesh THEN "private"
  ELSE IF \E p \in Broken : ~ AnyPath(p) THEN "abort" ELSE "public"
-----------------------------------------------------------------------------
\* The candidates of a peer that a server may try on it.
Shared(s, q) == Candidates(q, confirmed) \ Mine(s)

\* What the survey tells the model, against the network itself: "private" only
\* when every server reaches every other on an address of that server's own
\* that is not also its own; and whenever that is so, if no probe failed.
NoteIsTrue ==
  path.source > N =>
    LET reachable == \A s \in Servers : \A q \in Servers \ {s} :
                       Shared(s, q) \cap reach[s] # {}
    IN  /\ Note = "private" => reachable
        /\ reachable /\ blind = {} => Note = "private"

\* A confirmed address is the one the last server to get through got through
\* on, and a pair it would have served was served by it: later servers try it
\* before any other of that peer's addresses.
ConfirmedIsTriedFirst ==
  /\ \A s \in Servers : confirmed[s] # None =>
       \E i \in DOMAIN paths :
         /\ paths[i].peer = s /\ PrivateWorks(paths[i]) /\ paths[i].private = confirmed[s]
         /\ \A j \in i + 1 .. Len(paths) :
              paths[j].peer = s =>
                /\ ~ PrivateWorks(paths[j])
                /\ confirmed[s] \notin Mine(paths[j].source) =>
                     paths[j].tried # <<>> /\ paths[j].tried[1] = confirmed[s]

\* Nothing is asked of the public address once a private one got through, and
\* a path is never judged on an address of the server that asks.
PathsAreFair ==
  \A i \in DOMAIN paths :
    /\ PrivateWorks(paths[i]) => paths[i].public = "none"
    /\ Range(paths[i].tried) \cap Mine(paths[i].source) = {}
    /\ Len(paths[i].tried) <= PeerCandidates
    /\ paths[i].private # None => paths[i].private \in Range(paths[i].tried)

\* "Every server reaches every other on the private address listed above."
MeshIsAsListed ==
  path.source > N /\ PrivateMesh =>
    \A s \in Servers : \A q \in Servers \ {s} : Listed(q) \in reach[s]
=============================================================================
