SPECIFICATION CacheSpec
CONSTANTS
  m1 = m1
  manifest = manifest
  weights = weights
  tokenizer = tokenizer
  a = a
  b = b
  s1 = s1
  s2 = s2
  same = same
  Starters = {s1, s2}
  Models <- OneModel
  Manifest = manifest
  Files = {weights, tokenizer}
  Builds = {a, b}
  Content <- Digests
  Bad = Bad
  Absent = Absent
  NoDir = NoDir
  MaxCrashes = 2
CHECK_DEADLOCK FALSE
INVARIANTS
  CacheTypeOK
  LoadedIsRegistered
  ServedIsCached
PROPERTIES
  RecoversAlone
