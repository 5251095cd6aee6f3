SPECIFICATION Spec
CONSTANTS
  pub = pub
  p1 = p1
  p2 = p2
  q2 = q2
  p3 = p3
  q3 = q3
  bridge = bridge
  N = 3
  Addresses = {pub, p1, p2, q2, p3, q3, bridge}
  Private = {p1, p2, q2, p3, q3, bridge}
  Virtual = {"docker0"}
  Host <- MCHost
  Reports <- MCReports
  Networks <- MCNetworks
  None = None
  PeerCandidates = 2
  Said = {"exit 0", "refused", "silence", "denied", "ping ok", "ping none"}
INVARIANTS
  MeshIsAsListed
