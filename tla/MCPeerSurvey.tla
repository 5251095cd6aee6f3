----------------------------- MODULE MCPeerSurvey -----------------------------
(***************************************************************************)
(* A small fleet: three servers on a private network, the third with two   *)
(* private addresses beside a bridge's, the second with an internal one on *)
(* its public interface.                                                   *)
(***************************************************************************)
EXTENDS PeerSurvey

CONSTANTS pub, p1, p2, q2, p3, q3, bridge

MCHost == <<p1, pub, q3>>

On(i, a) == [iface |-> i, at |-> a]

\* The first is reached on its private address; the bridge has one address
\* everywhere.
MCReports ==
  << {<<On("eth1", p1), On("docker0", bridge)>>},
     {<<On("eth0", pub), On("eth0", q2), On("eth1", p2)>>},
     {<<On("docker0", bridge), On("eth1", p3), On("eth2", q3)>>,
      <<On("eth1", p1), On("eth2", q3)>>} >>

\* The third is reached on one of its addresses, the other, either or none.
MCNetworks ==
  {<<x, y, z>> : x \in {{p2, p3}, {p2, q3}, {}}, y \in {{p1, q3}, {p1, p3, q3}},
                 z \in {{p1, p2}, {p1, pub}}}
=============================================================================
