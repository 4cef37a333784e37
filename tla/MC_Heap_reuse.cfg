SPECIFICATION Spec
CONSTANTS
  Page = 24
  Sizes <- MCSizes
  Freeing = "any"
  MaxClaim = 48
INVARIANT LiveApart
CHECK_DEADLOCK FALSE
