SPECIFICATION Spec
CONSTANTS
  tox = tox
  pii = pii
  off = off
  ghost = ghost
  Policies = {tox, pii, off}
  Unregistered = {ghost}
  Disabled = {off}
  BlockAt <- Block
  ReviewAt <- Review
  NoReview = NoReview
  Severity <- Grave
  MaxScore = 2
  MaxAsked = 3
INVARIANTS
  TypeOK
  MetricsAgree
PROPERTIES
  KeepsContract
  Answered
