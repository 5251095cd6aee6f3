CONSTANTS
  Nodes = {}
  Begins = {}
  Unnamed = Unnamed
  Replies <- MCReplies
  Servers <- MCServers
SPECIFICATION Spec
INVARIANT
  BodiesAsSent
