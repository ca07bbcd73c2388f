SPECIFICATION FairSpec
CONSTANTS
  Events = {1, 2}
  Publishers = {p1, p2}
  Tokens = {k1, k2, k3, k4}
  NoToken = NoToken
  BatchSize = 2
INVARIANTS
  TypeOK
  BatchIsOwedWhileOwned
PROPERTIES
  LiveClaimIsRespected
  ImplementsEventDelivery
  CommittedIsPublished
CHECK_DEADLOCK FALSE
