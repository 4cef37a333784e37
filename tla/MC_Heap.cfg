SPECIFICATION Spec
CONSTANTS
  Page = 24
  Sizes <- MCSizes
  Freeing = "batch"
  MaxClaim = 48
INVARIANTS
  TypeOK
  LiveApart
  HeadersTrue
  Coalesced
  NothingLost
  RefusalHonest
CHECK_DEADLOCK FALSE
