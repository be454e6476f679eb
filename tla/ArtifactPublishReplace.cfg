SPECIFICATION Spec
CONSTANTS
  m1 = m1
  manifest = manifest
  weights = weights
  tokenizer = tokenizer
  a = a
  b = b
  u1 = u1
  u2 = u2
  same = same
  Uploaders = {u1, u2}
  Models <- OneModel
  Manifest = manifest
  Files = {weights, tokenizer}
  Filenames <- Sorted
  Builds = {a, b}
  Content <- Digests
  Absent = Absent
PROPERTIES
  ObjectsImmutable
