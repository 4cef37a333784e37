SPECIFICATION Spec
CONSTANTS
  Builds <- MCDeclared
  TickModulus = 64
INVARIANT AlwaysATask
