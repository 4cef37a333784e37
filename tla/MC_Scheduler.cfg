SPECIFICATION Spec
CONSTANTS
  Builds <- MCBuilds
  TickModulus = 64
INVARIANTS
  TypeOK
  ContextsIntact
  MemoryApart
PROPERTIES
  RoundRobinSpec
  EveryTaskRuns
