SPECIFICATION DeliverySpec
CONSTANTS
  m1 = m1
  m2 = m2
  manifest = manifest
  weights = weights
  a = a
  b = b
  u1 = u1
  u2 = u2
  init = init
  api = api
  Uploaders = {u1, u2, init}
  Starters = {api}
  Deployments <- Meetings
  Container = init
  Pinned = a
  Models <- TwoModels
  Manifest = manifest
  Files = {weights}
  Filenames <- Sorted
  Builds = {a, b}
  Content <- Digests
  Absent = Absent
  Bad = Bad
  NoDir = NoDir
  Never = Never
  Deadline = 8
  Timeout = 3
  Pause = 2
  MaxFaults = 2
  MaxCrashes = 1
INVARIANTS
  DeliveryTypeOK
  RegisteredIsPublished
  RegisteredIsStored
  OutcomesAreTrue
  PreparedOrTorn
  WaitIsFair
PROPERTIES
  KeepsRelease
  RegisteredIsServable
  Delivered
