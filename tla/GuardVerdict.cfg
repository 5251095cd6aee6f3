CONSTANTS
  Texts <- MCTexts
  Bodies <- MCBodies
  Paths <- MCPaths
SPECIFICATION Spec
INVARIANTS
  StrictestDecides
  JudgedTheSame
