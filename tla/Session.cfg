CONSTANTS
  Nodes <- MCNodes
  Begins <- MCBegins
  Unnamed = Unnamed
  Specs <- MCSpecs
  Arguments <- MCArguments
  User = "root"
  Port = 22
SPECIFICATION Spec
INVARIANTS
  AllOrNone
  StartedWithConsent
  CodeTellsEnding
  NamesFindTheirServer
PROPERTY
  LabelsDoNotClash
