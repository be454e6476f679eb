SPECIFICATION Spec
CONSTANTS
  Loaders = {"p1", "p2", "p3"}
  MaxFailures = 2
CHECK_DEADLOCK FALSE
INVARIANTS
  TypeOK
  MetadataVouches
  SessionOpens
PROPERTIES
  AllServe
