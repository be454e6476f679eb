------------------------- MODULE ModelDeliveryProofs ------------------------
(* Proofs about ModelDelivery: what the parts guarantee on their own, they      *)
(* guarantee together, and together they implement ModelRelease.                *)
EXTENDS ModelDelivery, ArtifactPublishProofs, ArtifactCacheProofs

-----------------------------------------------------------------------------
(* The runs of the upload script                                              *)

\* The container and the scripts run by hand do to the store what ArtifactPublish
\* says; API processes leave it alone.
LEMMA StoreMove ==
  ASSUME [DeliveryNext]_deliveryVars
  PROVE  [Next]_vars
<1>1. CASE UploadByHand
  BY <1>1 DEF UploadByHand, Hands, Next
<1>2. CASE SetUp
  <2>1. CASE Launch
    BY <2>1, SetupAssumption DEF Launch, Next
  <2>2. CASE Upload
    BY <2>2, SetupAssumption DEF Upload, Next, Run, Break
  <2>3. CASE BreakOff
    BY <2>3, SetupAssumption DEF BreakOff, Next, Run
  <2>4. CASE ~(Launch \/ Upload \/ BreakOff)
    BY <1>2, <2>4 DEF SetUp, Up, MinioReady, Setup, TestDeadline, ProbeSucceeds, ProbeFails,
       PauseEnds, CheckManifest, FetchFile, OpenManifest, WriteManifest
  <2> QED
    BY <2>1, <2>2, <2>3, <2>4
<1>3. CASE \E s \in sharers : Serve(s) \/ Disrupt(s)
  BY <1>3 DEF Serve, Disrupt
<1>4. CASE UNCHANGED deliveryVars
  BY <1>4 DEF deliveryVars
<1> QED
  BY <1>1, <1>2, <1>3, <1>4 DEF DeliveryNext

\* The deployment is an instance of ArtifactPublish: every theorem about runs of
\* the upload script holds of it, the container's runs included.
THEOREM RunsTheUpload == DeliverySpec => Spec
<1>1. DeliveryInit => Init
  BY DEF DeliveryInit
<1>2. [DeliveryNext]_deliveryVars => [Next]_vars
  BY StoreMove
<1> QED
  BY <1>1, <1>2, PTL DEF DeliverySpec, Spec

LEMMA StoreInvariance == DeliverySpec => []IInv
BY RunsTheUpload, Invariance, PTL

\* Whatever the container does around its runs, and whoever uploads by hand beside
\* it: what is registered is stored, and published whole unless runs are mixed, and
\* every run ends truthfully.
THEOREM DeliveryPublishes ==
  DeliverySpec => [](RegisteredIsStored /\ RegisteredIsPublished /\ OutcomesAreTrue)
BY RunsTheUpload, StoredFirst, PublishedWhole, EndsTruthfully, PTL

-----------------------------------------------------------------------------
(* The startups of the API                                                    *)

LEMMA CacheFromNothing == DeliveryInit => CacheInv
<1> SUFFICES ASSUME DeliveryInit PROVE CacheInv
  OBVIOUS
<1>1. IInv
  BY Initially DEF DeliveryInit
<1>2. CacheTypeOK
  <2>1. /\ objects \in [Specs -> [Names -> Contents \cup {Absent}]]
        /\ rows \in [Specs -> Contents \cup {Absent}]
    BY <1>1 DEF IInv, TypeOK
  <2>2. at \in [Starters -> 1 .. Len(Models)] /\ crashes \in 0 .. MaxCrashes
    BY CacheConstants, CacheAssumption DEF DeliveryInit, Off
  <2>3. memory \in [Starters -> [Specs -> Dir]]
    BY EmptyIsDir DEF DeliveryInit, Off
  <2>4. dest \in [Specs -> Dir \cup {NoDir}] /\ sharers \subseteq Starters
    BY DEF DeliveryInit
  <2> QED
    BY <2>1, <2>2, <2>3, <2>4 DEF DeliveryInit, Off, CacheTypeOK
<1>3. BytesInv
  BY DEF DeliveryInit, Off, BytesInv, DirectoryInv, LookedUpInv, StagingInv, ReadInv, LoadedInv,
     MemoryInv, Empty, Resolving, Loading
<1>4. DeploymentInv /\ CachedInv
  BY DEF DeliveryInit, Off, DeploymentInv, CachedInv, Resolving, Loading, Checking
<1> QED
  BY <1>2, <1>3, <1>4 DEF CacheInv

\* A startup finds the store as it is, and an upload may change it between any two
\* steps of a startup: both keep what ArtifactCacheProofs says of the startups.
LEMMA CacheMove ==
  ASSUME IInv, IInv', CacheInv, [DeliveryNext]_deliveryVars
  PROVE  CacheInv'
<1>1. CASE \E s \in sharers : Serve(s) \/ Disrupt(s)
  BY <1>1, StartupStep DEF Serve, Disrupt, Moves
<1>2. CASE UNCHANGED apiVars
  <2>1. /\ objects' \in [Specs -> [Names -> Contents \cup {Absent}]]
        /\ rows' \in [Specs -> Contents \cup {Absent}]
    BY DEF IInv, TypeOK
  <2>2. \A m \in Specs : rows[m] # Absent => rows'[m] = rows[m]
    BY StoreMove, Kept DEF IInv, Next, vars, store
  <2> QED
    BY <1>2, <2>1, <2>2, UploadStep DEF apiVars
<1> QED
  BY <1>1, <1>2 DEF DeliveryNext, UploadByHand, SetUp, deliveryVars

LEMMA CacheInvarianceInDelivery == DeliverySpec => []CacheInv
<1>1. DeliveryInit => CacheInv
  BY CacheFromNothing
<1>2. IInv /\ IInv' /\ CacheInv /\ [DeliveryNext]_deliveryVars => CacheInv'
  BY CacheMove
<1> QED
  BY <1>1, <1>2, StoreInvariance, PTL DEF DeliverySpec

-----------------------------------------------------------------------------
(* The release                                                                *)

\* What a process serves is what is registered, or nothing.
ServedInv ==
  \A s \in Starters, m \in Specs :
    /\ phase[s] = "serving" => ServedChecksum(s, m) = rows[m] /\ rows[m] # Absent
    /\ phase[s] # "serving" => ServedChecksum(s, m) = Absent

LEMMA ServedIsRow == CacheInv => ServedInv
<1> SUFFICES ASSUME CacheInv, NEW s \in Starters, NEW m \in Specs
             PROVE  /\ phase[s] = "serving" => ServedChecksum(s, m) = rows[m] /\ rows[m] # Absent
                    /\ phase[s] # "serving" => ServedChecksum(s, m) = Absent
  BY DEF ServedInv
<1>1. CASE phase[s] = "serving"
  <2>1. PICK b \in Builds : /\ rows[m] = Content[Manifest][b]
                            /\ memory[s][m] = [f \in Names |-> Content[f][b]]
    BY <1>1, ServesRegistered DEF LoadedIsRegistered
  <2>2. memory[s][m][Manifest] = rows[m] /\ rows[m] # Absent /\ Verified(memory[s][m])
    BY <2>1, CacheConstants, CacheDigests DEF Verified
  <2> QED
    BY <1>1, <2>2 DEF ServedChecksum
<1>2. CASE phase[s] # "serving"
  BY <1>2 DEF ServedChecksum
<1> QED
  BY <1>1, <1>2

\* What all processes serve.
Served == [s \in Starters |-> [m \in Specs |-> ServedChecksum(s, m)]]

LEMMA ReleaseInit == DeliveryInit => Release!Init
BY DEF DeliveryInit, Init, Off, Release!Init, Release!Nothing, ServedChecksum

LEMMA ReleaseStep ==
  ASSUME IInv, CacheInv, ServedInv, ServedInv', [DeliveryNext]_deliveryVars
  PROVE  [Release!Next]_Release!vars
<1>1. CASE UNCHANGED apiVars
  <2>1. UNCHANGED Served
    BY <1>1 DEF apiVars, Served, ServedChecksum
  <2>2. CASE UNCHANGED rows
    BY <2>1, <2>2 DEF Release!vars, Served
  <2>3. ASSUME NEW u \in Uploaders, Inserts(u) PROVE Release!Next
    <3>1. Spec1(u) \in Specs /\ Checksum(u) \in {Content[Manifest][b] : b \in Builds}
      BY Position DEF IInv, TypeOK, Checksum
    <3>2. Release!Register(Spec1(u), Checksum(u))
      BY <2>1, <2>3 DEF Inserts, Release!Register, Served
    <3> QED
      BY <3>1, <3>2 DEF Release!Next
  <2> QED
    BY <2>2, <2>3, StoreMove, StepKinds DEF IInv, Next, vars, store, Puts
<1>2. ASSUME NEW s \in sharers, Serve(s) \/ Disrupt(s) PROVE [Release!Next]_Release!vars
  <2>1. /\ s \in Starters /\ Moves(s) /\ UNCHANGED rows
        /\ CacheTypeOK
    BY <1>2 DEF CacheInv, CacheTypeOK, Serve, Disrupt, Moves, vars, store
  <2>2. \A t \in Starters : t # s => Served'[t] = Served[t]
    BY <2>1, OtherProcesses DEF Served, ServedChecksum
  <2>3. \A t \in Starters : Served[t] = IF phase[t] = "serving" THEN [m \in Specs |-> rows[m]]
                                        ELSE Release!Nothing
    BY DEF ServedInv, Served, Release!Nothing
  <2>4. Served'[s] = IF phase'[s] = "serving" THEN [m \in Specs |-> rows[m]] ELSE Release!Nothing
    BY <2>1 DEF ServedInv, Served, Release!Nothing
  <2>5. rows = [m \in Specs |-> rows[m]]
    BY <2>1 DEF CacheTypeOK
  <2>6. Served' = [Served EXCEPT ![s] = Served'[s]]
    BY <2>1, <2>2 DEF Served
  <2>7. CASE Served'[s] = Served[s]
    BY <2>1, <2>6, <2>7 DEF Served, Release!vars
  <2>8. CASE phase'[s] = "serving" /\ phase[s] # "serving"
    <3>1. \A m \in Specs : rows[m] # Absent
      BY <2>1, <2>8 DEF ServedInv
    <3>2. Release!Serve(s)
      BY <2>1, <2>3, <2>4, <2>5, <2>6, <2>8, <3>1 DEF Release!Serve, Served
    <3> QED
      BY <2>1, <3>2 DEF Release!Next
  <2>9. CASE phase'[s] # "serving" /\ phase[s] = "serving"
    <3>1. Release!Stop(s)
      BY <2>1, <2>4, <2>6, <2>9 DEF Release!Stop, Served
    <3> QED
      BY <2>1, <3>1 DEF Release!Next
  <2> QED
    BY <2>1, <2>3, <2>4, <2>7, <2>8, <2>9
<1> QED
  BY <1>1, <1>2 DEF DeliveryNext, UploadByHand, SetUp, deliveryVars

\* Runs of the script, the container and the startups together implement
\* ModelRelease, however many of each there are.
THEOREM ReleaseKept == DeliverySpec => KeepsRelease
<1>1. CacheInv => ServedInv
  BY ServedIsRow
<1>2. IInv /\ CacheInv /\ ServedInv /\ ServedInv' /\ [DeliveryNext]_deliveryVars
        => [Release!Next]_Release!vars
  BY ReleaseStep
<1> QED
  BY ReleaseInit, <1>1, <1>2, StoreInvariance, CacheInvarianceInDelivery, PTL
  DEF DeliverySpec, KeepsRelease, Release!Spec

-----------------------------------------------------------------------------
(* The container                                                              *)

\* The wait enters a probe before its deadline only, and what follows the wait
\* begins at second 0 of its own.
ClockInv ==
  /\ stage = "probe" => clock < Deadline
  /\ stage = "pause" => clock <= Deadline - 1 + Timeout
  /\ stage = "timeout" => clock >= Deadline
  /\ stage \notin {"wait", "probe", "pause", "timeout"} => clock = 0

\* Once MinIO is ready, only the probe in progress can fail; a probe that begins
\* later succeeds, so that the wait goes on for that probe and its pause at most.
ReadyInv ==
  /\ upSince # Never => upSince <= clock
  /\ upSince # Never /\ stage = "pause" => clock <= upSince + Timeout
  /\ upSince # Never /\ stage \in {"wait", "probe", "timeout"} => clock <= upSince + Timeout + Pause
  /\ stage \in {"check", "fetch", "write", "launch", "upload"} => upSince # Never

\* Where the container is in MODEL_ARTIFACTS, and what it has found or made there.
VolumeInv ==
  /\ \A m \in Specs : checksums[m] = "whole" => fetched[m] = Files
  /\ stage = "fetch" => checksums[Preparing] = "none"
  /\ stage = "write" => checksums[Preparing] = "torn" /\ fetched[Preparing] = Files
  /\ stage \in {"check", "fetch", "write"} =>
       \A i \in 1 .. position - 1 : checksums[Models[i]] # "none"
  /\ stage \notin {"check", "fetch", "write"} => position = 1
  /\ stage \in {"launch", "upload"} => \A m \in Specs : checksums[m] # "none"

SetupInv == SetupTypeOK /\ present \in Deployments /\ ClockInv /\ ReadyInv /\ VolumeInv

LEMMA SetupFromNothing == DeliveryInit => SetupInv
<1> SUFFICES ASSUME DeliveryInit PROVE SetupInv
  OBVIOUS
<1>1. /\ stage = "off" /\ clock = 0 /\ position = 1 /\ faults = 0 /\ upSince \in {Never, 0}
      /\ fetched = [m \in Specs |-> {}] /\ checksums = [m \in Specs |-> "none"]
      /\ present \in Deployments
  BY DEF DeliveryInit, SetupInit
<1>2. SetupTypeOK
  BY <1>1, Constants, SetupAssumption DEF SetupTypeOK
<1> QED
  BY <1>1, <1>2 DEF SetupInv, ClockInv, ReadyInv, VolumeInv

LEMMA PositionOfModel ==
  ASSUME SetupTypeOK
  PROVE  Preparing \in Specs /\ position \in Nat \ {0} /\ Len(Models) \in Nat
BY Constants DEF SetupTypeOK, Preparing

\* A model that has its manifest is passed, and with the last one the downloads end.
LEMMA PreparedNext ==
  ASSUME SetupTypeOK, ClockInv, ReadyInv, VolumeInv, present' \in Deployments,
         stage \in {"check", "write"}, NextPreparation, UNCHANGED <<clock, upSince, fetched, faults>>,
         checksums' \in [Specs -> {"none", "torn", "whole"}],
         checksums'[Preparing] # "none",
         \A m \in Specs : checksums[m] # "none" => checksums'[m] # "none",
         \A m \in Specs : checksums'[m] = "whole" => fetched[m] = Files
  PROVE  SetupInv'
<1>0. position \in Nat \ {0} /\ position <= Len(Models) /\ Len(Models) \in Nat \ {0}
  BY Constants DEF SetupTypeOK
<1>1. \A i \in 1 .. position : checksums'[Models[i]] # "none"
  <2> TAKE i \in 1 .. position
  <2>1. Models[i] \in Specs
    BY <1>0, Constants
  <2>2. CASE i = position
    BY <2>2 DEF Preparing
  <2>3. CASE i # position
    BY <1>0, <2>1, <2>3 DEF VolumeInv
  <2> QED
    BY <2>2, <2>3
<1>2. CASE position < Len(Models)
  <2>1. position' = position + 1 /\ stage' = "check"
    BY <1>2 DEF NextPreparation
  <2>2. SetupTypeOK' /\ ClockInv' /\ ReadyInv'
    BY <1>0, <1>2, <2>1 DEF SetupTypeOK, ClockInv, ReadyInv
  <2>3. VolumeInv'
    BY <1>0, <1>1, <2>1 DEF VolumeInv
  <2> QED
    BY <2>2, <2>3 DEF SetupInv
<1>3. CASE ~(position < Len(Models))
  <2>1. position' = 1 /\ stage' = "launch"
    BY <1>3 DEF NextPreparation
  <2>2. SetupTypeOK' /\ ClockInv' /\ ReadyInv'
    BY <1>0, <2>1 DEF SetupTypeOK, ClockInv, ReadyInv
  <2>3. \A m \in Specs : checksums'[m] # "none"
    BY <1>0, <1>1, <1>3, Constants
  <2>4. VolumeInv'
    BY <2>1, <2>3 DEF VolumeInv
  <2> QED
    BY <2>2, <2>4 DEF SetupInv
<1> QED
  BY <1>2, <1>3

\* Each step of the container keeps it.
LEMMA SetupStep ==
  ASSUME SetupInv, SetUp
  PROVE  SetupInv'
<1>p. present' \in Deployments
  BY DEF SetUp, SetupInv
<1>t. SetupTypeOK /\ ClockInv /\ ReadyInv /\ VolumeInv
  BY DEF SetupInv
<1>s. /\ {Deadline, Timeout, Pause} \subseteq Nat \ {0} /\ Never \notin Nat
      /\ MaxFaults \in Nat
  BY SetupAssumption
<1> USE <1>p, <1>t, <1>s
<1>1. CASE Up
  <2>1. SetupTypeOK' /\ ClockInv' /\ ReadyInv'
    BY <1>1 DEF Up, volume, SetupTypeOK, ClockInv, ReadyInv
  <2>2. VolumeInv'
    BY <1>1 DEF Up, Ended, volume, VolumeInv
  <2> QED
    BY <2>1, <2>2 DEF SetupInv
<1>2. CASE MinioReady
  <2>1. SetupTypeOK' /\ ClockInv' /\ ReadyInv'
    BY <1>2 DEF MinioReady, volume, SetupTypeOK, ClockInv, ReadyInv
  <2>2. VolumeInv'
    BY <1>2 DEF MinioReady, volume, VolumeInv, Preparing
  <2> QED
    BY <2>1, <2>2 DEF SetupInv
<1>3. CASE TestDeadline
  <2>1. SetupTypeOK' /\ ClockInv' /\ ReadyInv'
    BY <1>3 DEF TestDeadline, volume, SetupTypeOK, ClockInv, ReadyInv
  <2>2. VolumeInv'
    BY <1>3 DEF TestDeadline, volume, VolumeInv
  <2> QED
    BY <2>1, <2>2 DEF SetupInv
<1>4. CASE ProbeSucceeds
  <2>1. SetupTypeOK' /\ ClockInv' /\ ReadyInv'
    BY <1>4 DEF ProbeSucceeds, volume, SetupTypeOK, ClockInv, ReadyInv
  <2>2. VolumeInv'
    BY <1>4 DEF ProbeSucceeds, volume, VolumeInv
  <2> QED
    BY <2>1, <2>2 DEF SetupInv
<1>5. CASE ProbeFails
  <2>1. PICK d \in 0 .. Timeout : clock' = clock + d
    BY <1>5 DEF ProbeFails
  <2>2. SetupTypeOK' /\ ClockInv' /\ ReadyInv'
    BY <1>5, <2>1 DEF ProbeFails, volume, SetupTypeOK, ClockInv, ReadyInv
  <2>3. VolumeInv'
    BY <1>5 DEF ProbeFails, volume, VolumeInv
  <2> QED
    BY <2>2, <2>3 DEF SetupInv
<1>6. CASE PauseEnds
  <2>1. SetupTypeOK' /\ ClockInv' /\ ReadyInv'
    BY <1>6 DEF PauseEnds, volume, SetupTypeOK, ClockInv, ReadyInv
  <2>2. VolumeInv'
    BY <1>6 DEF PauseEnds, volume, VolumeInv
  <2> QED
    BY <2>1, <2>2 DEF SetupInv
<1>7. CASE CheckManifest
  <2>1. CASE stage' = "fetch"
    BY <1>7, <2>1 DEF CheckManifest, NextPreparation, volume, SetupInv, SetupTypeOK, ClockInv,
       ReadyInv, VolumeInv, Preparing
  <2>2. CASE checksums[Preparing] # "none" /\ NextPreparation
    <3>1. /\ stage = "check" /\ UNCHANGED <<clock, upSince, fetched, faults>>
          /\ checksums' = checksums
          /\ checksums \in [Specs -> {"none", "torn", "whole"}]
          /\ \A m \in Specs : checksums[m] = "whole" => fetched[m] = Files
      BY <1>7 DEF CheckManifest, volume, SetupTypeOK, VolumeInv
    <3> QED
      BY <2>2, <3>1, PreparedNext
  <2> QED
    BY <1>7, <2>1, <2>2 DEF CheckManifest
<1>8. ASSUME NEW f \in Files, FetchFile(f) PROVE SetupInv'
  <2>1. Preparing \in Specs /\ Preparing' = Preparing
    BY <1>8, PositionOfModel DEF FetchFile, Preparing
  <2>2. SetupTypeOK' /\ ClockInv' /\ ReadyInv'
    BY <1>8, <2>1 DEF FetchFile, volume, SetupTypeOK, ClockInv, ReadyInv
  <2>3. \A m \in Specs : checksums[m] = "whole" => fetched'[m] = fetched[m]
    BY <1>8, <2>1 DEF FetchFile, VolumeInv, SetupTypeOK
  <2>4. VolumeInv'
    BY <1>8, <2>1, <2>3 DEF FetchFile, VolumeInv
  <2> QED
    BY <2>2, <2>4 DEF SetupInv
<1>9. CASE OpenManifest
  <2>1. Preparing \in Specs /\ Preparing' = Preparing
    BY <1>9, PositionOfModel DEF OpenManifest, Preparing
  <2>2. SetupTypeOK' /\ ClockInv' /\ ReadyInv'
    BY <1>9, <2>1 DEF OpenManifest, volume, SetupTypeOK, ClockInv, ReadyInv
  <2>3. /\ checksums'[Preparing] = "torn"
        /\ \A m \in Specs : m # Preparing => checksums'[m] = checksums[m]
    BY <1>9, <2>1 DEF OpenManifest, SetupTypeOK
  <2>4. \A i \in 1 .. position - 1 : Models[i] \in Specs
    BY Constants DEF SetupTypeOK
  <2>5. VolumeInv'
    BY <1>9, <2>1, <2>3, <2>4 DEF OpenManifest, VolumeInv
  <2> QED
    BY <2>2, <2>5 DEF SetupInv
<1>10. CASE WriteManifest
  <2>1. Preparing \in Specs
    BY PositionOfModel
  <2>2. /\ checksums' \in [Specs -> {"none", "torn", "whole"}]
        /\ checksums'[Preparing] # "none"
        /\ \A m \in Specs : checksums[m] # "none" => checksums'[m] # "none"
        /\ \A m \in Specs : checksums'[m] = "whole" => fetched[m] = Files
    BY <1>10, <2>1 DEF WriteManifest, VolumeInv, SetupTypeOK
  <2> QED
    BY <1>10, <2>2, PreparedNext DEF WriteManifest
<1>11. CASE Launch
  <2>1. SetupTypeOK' /\ ClockInv' /\ ReadyInv'
    BY <1>11 DEF Launch, volume, SetupTypeOK, ClockInv, ReadyInv
  <2>2. VolumeInv'
    BY <1>11 DEF Launch, volume, VolumeInv
  <2> QED
    BY <2>1, <2>2 DEF SetupInv
<1>12. CASE Upload
  <2>1. SetupTypeOK' /\ ClockInv' /\ ReadyInv'
    BY <1>12 DEF Upload, setupVars, volume, SetupTypeOK, ClockInv, ReadyInv
  <2>2. VolumeInv'
    BY <1>12 DEF Upload, setupVars, volume, VolumeInv, Preparing
  <2> QED
    BY <2>1, <2>2 DEF SetupInv
<1>13. CASE BreakOff
  <2>0. Len(Models) \in Nat \ {0}
    BY Constants
  <2>1. SetupTypeOK' /\ ClockInv' /\ ReadyInv'
    BY <1>13, <2>0 DEF BreakOff, Ended, volume, SetupTypeOK, ClockInv, ReadyInv
  <2>2. VolumeInv'
    BY <1>13 DEF BreakOff, volume, VolumeInv
  <2> QED
    BY <2>1, <2>2 DEF SetupInv
<1> QED
  BY <1>1, <1>2, <1>3, <1>4, <1>5, <1>6, <1>7, <1>8, <1>9, <1>10, <1>11, <1>12, <1>13
  DEF SetUp, Setup

LEMMA SetupInvariance == DeliverySpec => []SetupInv
<1>1. SetupInv /\ [DeliveryNext]_deliveryVars => SetupInv'
  <2> SUFFICES ASSUME SetupInv, [DeliveryNext]_deliveryVars PROVE SetupInv'
    OBVIOUS
  <2>1. CASE UNCHANGED <<setupVars, present>>
    BY <2>1 DEF setupVars, volume, SetupInv, SetupTypeOK, ClockInv, ReadyInv, VolumeInv, Preparing
  <2> QED
    BY <2>1, SetupStep DEF DeliveryNext, UploadByHand, Serve, Disrupt, deliveryVars
<1> QED
  BY SetupFromNothing, <1>1, PTL DEF DeliverySpec

\* Types of the bucket, the table, the volume, the cache and of all who share them;
\* the wait for MinIO ends within a probe and a pause of its deadline.
THEOREM DeliveryTyped == DeliverySpec => []DeliveryTypeOK
<1>1. IInv /\ SetupInv /\ CacheInv => DeliveryTypeOK
  BY DEF IInv, SetupInv, CacheInv, DeliveryTypeOK
<1> QED
  BY <1>1, StoreInvariance, SetupInvariance, CacheInvarianceInDelivery, PTL

\* Wherever the container broke off, however often: a manifest that is whole vouches
\* for its directory, and the upload begins with a manifest for every model.
THEOREM VolumeIsPrepared == DeliverySpec => []PreparedOrTorn
<1>1. SetupInv => PreparedOrTorn
  BY DEF SetupInv, VolumeInv, PreparedOrTorn, Prepared
<1> QED
  BY <1>1, SetupInvariance, PTL

\* For every deadline, probe time and pause: the container gives up only on a MinIO
\* that was not ready one probe and one pause before the deadline.
THEOREM WaitsLongEnough == DeliverySpec => []WaitIsFair
<1>1. SetupInv => WaitIsFair
  BY SetupAssumption DEF SetupInv, SetupTypeOK, ClockInv, ReadyInv, WaitIsFair
<1> QED
  BY <1>1, SetupInvariance, PTL

-----------------------------------------------------------------------------
(* A startup that has its cache to itself                                     *)

\* It finds in its directory what it has seen there, ...
SoleInv ==
  Alone => /\ detached = {}
           /\ \A s \in sharers :
                /\ phase[s] = "list" => Cached(s) # NoDir
                /\ phase[s] = "remove" => /\ Cached(s) # NoDir
                                          /\ todo[s] = {f \in Names : Holds(s, f)}
                /\ phase[s] = "install" => Cached(s) = NoDir

\* ... and until runs with different bytes overlap, what it has downloaded is what
\* the bucket still holds.
FreshInv ==
  \A s \in Starters :
    /\ phase[s] = "manifest" => staging[s] = Empty
    /\ ~mixed /\ phase[s] = "files" =>
         \A f \in Names : staging[s][f] \in {Absent, objects[Model(s)][f]}

LEMMA AloneIsOne ==
  ASSUME CacheTypeOK, Alone, NEW s \in sharers
  PROVE  sharers = {s} /\ s \in Starters
<1>1. IsFiniteSet(sharers)
  BY FS_Subset, CacheAssumption DEF CacheTypeOK
<1>2. PICK t : sharers = {t}
  BY <1>1, FS_Singleton DEF Alone
<1> QED
  BY <1>2 DEF CacheTypeOK

LEMMA SoleStep ==
  ASSUME CacheTypeOK, DeploymentInv, SoleInv, NEW s \in sharers, Moves(s)
  PROVE  SoleInv'
<1>0. s \in Starters /\ sharers' = sharers /\ Model(s) \in Specs /\ CacheTypeOK'
  BY DirKinds, CachePosition, CacheTypeStep DEF CacheTypeOK, registry
<1> SUFFICES ASSUME Alone PROVE SoleInv'
  BY <1>0 DEF SoleInv, Alone
<1>1. sharers = {s} /\ detached = {}
  BY AloneIsOne DEF SoleInv
<1>2. SUFFICES /\ detached' = {}
               /\ phase'[s] = "list" => Cached(s)' # NoDir
               /\ phase'[s] = "remove" => /\ Cached(s)' # NoDir
                                          /\ todo'[s] = {f \in Names : Holds(s, f)'}
               /\ phase'[s] = "install" => Cached(s)' = NoDir
  BY <1>0, <1>1 DEF SoleInv
<1> USE <1>0, <1>1 DEF StepTo, registry, disk
<1>3. ASSUME NEW l \in {"off", "failed"}, Stop(s, l)
      PROVE  detached' = {} /\ phase'[s] = l
  BY <1>3 DEF Stop, CacheTypeOK
<1>4. CASE Boot(s) \/ Lookup(s) \/ StartupFails(s) \/ Crash(s)
  BY <1>3, <1>4 DEF Boot, Lookup, StartupFails, Crash, Fail, CacheTypeOK
<1>5. CASE \/ CheckCache(s) \/ DownloadManifest(s) \/ (\E f \in Files : DownloadFile(s, f))
           \/ VerifyStaging(s)
  BY <1>3, <1>5 DEF CheckCache, DownloadManifest, DownloadFile, VerifyStaging, Resolved, Proceed,
     Fail, CacheTypeOK
<1>6. CASE TestExists(s)
  BY <1>6 DEF TestExists, Cached, Model, CacheTypeOK
<1>7. CASE ListDest(s)
  BY <1>3, <1>7 DEF ListDest, Fail, Cached, Model, Holds, CacheTypeOK
<1>8. ASSUME NEW f \in Names, RemoveEntry(s, f), ~Fail(s)
      PROVE  /\ detached' = {}
             /\ phase'[s] = "remove"
             /\ Cached(s)' # NoDir
             /\ todo'[s] = {g \in Names : Holds(s, g)'}
  <2>1. /\ phase[s] = "remove" /\ f \in todo[s]
        /\ Cached(s) # NoDir /\ todo[s] = {g \in Names : Holds(s, g)}
    BY <1>8 DEF RemoveEntry, SoleInv
  <2>2. /\ Holds(s, f) /\ s \notin detached
        /\ dest[Model(s)] \in Dir
    BY <2>1, CachePosition DEF Cached
  <2>3. /\ todo'[s] = todo[s] \ {f}
        /\ dest' = [dest EXCEPT ![Model(s)][f] = Absent]
        /\ UNCHANGED <<detached, phase, at>>
    BY <1>8, <2>2 DEF RemoveEntry, CacheTypeOK
  <2>4. Cached(s)' = [Cached(s) EXCEPT ![f] = Absent]
    BY <2>3 DEF Cached, Model, CacheTypeOK
  <2>5. Cached(s)' # NoDir /\ \A g \in Names : Cached(s)'[g] = IF g = f THEN Absent ELSE Cached(s)[g]
    BY <2>2, <2>4, EntryInDir DEF Cached, Dir
  <2> QED
    BY <2>1, <2>3, <2>5 DEF Holds
<1>9. CASE RemoveDir(s)
  BY <1>3, <1>9 DEF RemoveDir, Fail, Cached, Model, CacheTypeOK
<1>10. CASE Install(s)
  <2>1. CASE Fail(s)
    BY <1>3, <2>1 DEF Fail
  <2>2. CASE ~Fail(s)
    <3>1. Removing(s) = {}
      BY <1>10 DEF Install, Removing, DeploymentInv
    <3> QED
      BY <1>10, <2>2, <3>1 DEF Install, Resolved, Proceed, CacheTypeOK
  <2> QED
    BY <2>1, <2>2
<1>11. CASE VerifyDest(s) \/ (\E f \in Names : LoadFile(s, f)) \/ FinishLoad(s)
  BY <1>3, <1>11 DEF VerifyDest, LoadFile, FinishLoad, Proceed, Fail, CacheTypeOK
<1> QED
  BY <1>3, <1>4, <1>5, <1>6, <1>7, <1>8, <1>9, <1>10, <1>11 DEF Moves, Startup, Fail

LEMMA FreshStep ==
  ASSUME CacheTypeOK, FreshInv, NEW s \in Starters, Moves(s), UNCHANGED mixed
  PROVE  FreshInv'
<1>0. /\ UNCHANGED objects /\ Manifest \in Names /\ Files \subseteq Names /\ Model(s) \in Specs
      /\ staging \in [Starters -> Dir \cup {NoDir}]
      /\ phase \in [Starters -> {phase[t] : t \in Starters}]
  BY DirKinds, CacheConstants, CachePosition DEF registry, CacheTypeOK
<1>1. SUFFICES /\ phase'[s] = "manifest" => staging'[s] = Empty
               /\ ~mixed /\ phase'[s] = "files" =>
                    \A f \in Names : staging'[s][f] \in {Absent, objects[Model(s)'][f]}
  <2>1. \A t \in Starters : t # s => Model(t)' = Model(t) /\ phase'[t] = phase[t]
                                     /\ staging'[t] = staging[t]
    BY OtherProcesses DEF Model
  <2> QED
    BY <1>0, <1>1, <2>1 DEF FreshInv
<1> USE <1>0 DEF StepTo, registry, disk
<1>2. CASE phase'[s] \notin {"manifest", "files"}
  BY <1>2
<1>3. CASE CheckCache(s)
  BY <1>3 DEF CheckCache, Resolved, Proceed
<1>4. CASE DownloadManifest(s) /\ ~Fail(s)
  <2>1. /\ phase'[s] = "files" /\ Model(s)' = Model(s)
        /\ staging[s] = Empty
        /\ staging'[s] = [staging[s] EXCEPT ![Manifest] = objects[Model(s)][Manifest]]
    BY <1>4 DEF DownloadManifest, FreshInv, Model
  <2> QED
    BY <2>1 DEF Empty
<1>5. ASSUME NEW g \in Files, DownloadFile(s, g), ~Fail(s)
      PROVE  ~mixed => \A f \in Names : staging'[s][f] \in {Absent, objects[Model(s)'][f]}
  <2>1. /\ phase[s] = "files" /\ Model(s)' = Model(s)
        /\ staging'[s] = [staging[s] EXCEPT ![g] = objects[Model(s)][g]]
    BY <1>5 DEF DownloadFile, Model
  <2>2. staging[s] \in Dir
    BY <2>1 DEF CacheTypeOK
  <2> QED
    BY <2>1, <2>2 DEF FreshInv, Dir
<1>6. CASE phase'[s] \in {"manifest", "files"}
  <2>1. \A l \in {"off", "failed"} : ~Stop(s, l)
    BY <1>6 DEF Stop
  <2>2. CheckCache(s) \/ DownloadManifest(s) \/ \E g \in Files : DownloadFile(s, g)
    BY <1>6, <2>1 DEF Moves, Startup, Boot, Lookup, VerifyStaging, TestExists, ListDest,
       RemoveEntry, RemoveDir, Install, VerifyDest, LoadFile, FinishLoad, StartupFails, Crash,
       Proceed, Resolved, Fail
  <2>3. phase'[s] = "manifest" => CheckCache(s)
    BY <2>1, <2>2 DEF DownloadManifest, DownloadFile, Fail
  <2> QED
    BY <1>3, <1>4, <1>5, <2>1, <2>2, <2>3 DEF Fail
<1> QED
  BY <1>2, <1>6

SingleInv == SoleInv /\ FreshInv

LEMMA SingleMove ==
  ASSUME IInv, CacheInv, SingleInv, [DeliveryNext]_deliveryVars
  PROVE  SingleInv'
<1>1. CASE \E s \in sharers : Serve(s) \/ Disrupt(s)
  <2>1. PICK s \in sharers : Moves(s) /\ UNCHANGED mixed
    BY <1>1 DEF Serve, Disrupt, Moves, vars, local
  <2>2. s \in Starters
    BY DEF CacheInv, CacheTypeOK
  <2> QED
    BY <2>1, <2>2, SoleStep, FreshStep DEF SingleInv, CacheInv
<1>2. CASE UNCHANGED apiVars
  <2>1. SoleInv'
    BY <1>2 DEF apiVars, disk, SingleInv, SoleInv, Alone, Cached, Holds, Model
  <2>2. CASE UNCHANGED vars
    <3>1. UNCHANGED <<objects, mixed, staging, phase, at>>
      BY <1>2, <2>2 DEF apiVars, disk, vars, store, local
    <3> QED
      BY <2>1, <3>1 DEF SingleInv, FreshInv, Model
  <2>3. CASE Next
    <3>1. /\ ~mixed' => ~mixed
          /\ ~mixed' => \A m \in Specs, f \in Names :
                          objects[m][f] # Absent => objects'[m][f] = objects[m][f]
      BY <2>3, Unmixed, Unreplaced DEF IInv, PureInv, Next
    <3>2. \A s \in Starters : Model(s) \in Specs /\ Model(s)' = Model(s)
      BY <1>2, CachePosition DEF apiVars, CacheInv, Model
    <3>3. FreshInv'
      BY <1>2, <3>1, <3>2 DEF apiVars, disk, SingleInv, FreshInv
    <3> QED
      BY <2>1, <3>3 DEF SingleInv
  <2> QED
    BY <2>1, <2>2, <2>3, StoreMove DEF SingleInv
<1> QED
  BY <1>1, <1>2 DEF DeliveryNext, UploadByHand, SetUp, deliveryVars

LEMMA SingleInvariance == DeliverySpec => []SingleInv
<1>1. DeliveryInit => SingleInv
  BY DEF DeliveryInit, Off, SingleInv, SoleInv, FreshInv
<1>2. IInv /\ CacheInv /\ SingleInv /\ [DeliveryNext]_deliveryVars => SingleInv'
  BY SingleMove
<1> QED
  BY <1>1, <1>2, StoreInvariance, CacheInvarianceInDelivery, PTL DEF DeliverySpec

\* No step of its own fails a startup that is alone with its cache, once its model
\* is registered and as long as only the same bytes have been uploaded at once.
LEMMA StartupOnlyFails ==
  ASSUME IInv, CacheInv, SingleInv, Alone, ~mixed,
         NEW s \in sharers, phase[s] # "failed", phase'[s] = "failed", Startup(s)
  PROVE  phase[s] = "lookup" /\ Row(s) = Absent
<1>0. s \in Starters /\ Model(s) \in Specs /\ CacheTypeOK /\ BytesInv /\ CachedInv /\ SoleInv /\ FreshInv
      /\ Manifest \in Names /\ Files \subseteq Names
  BY CachePosition, CacheConstants DEF CacheInv, CacheTypeOK, SingleInv
<1>1. Row(s) # Absent => \E b \in Builds : /\ Row(s) = Content[Manifest][b]
                                           /\ objects[Model(s)] = [f \in Names |-> Content[f][b]]
  BY <1>0 DEF IInv, PureInv, RegisteredIsPublished, Row
<1> USE <1>0 DEF StepTo
<1>2. ~Boot(s) /\ ~CheckCache(s) /\ ~TestExists(s) /\ ~FinishLoad(s)
  BY DEF Boot, CheckCache, TestExists, FinishLoad, Resolved, Proceed, CacheTypeOK
<1>3. ~DownloadManifest(s)
  <2> SUFFICES ASSUME DownloadManifest(s) PROVE FALSE
    OBVIOUS
  <2>1. objects[Model(s)][Manifest] # Row(s) /\ phase[s] = "manifest"
    BY DEF DownloadManifest, CacheTypeOK
  <2> QED
    BY <1>1, <2>1 DEF BytesInv, LookedUpInv, Resolving
<1>4. ASSUME NEW f \in Files PROVE ~DownloadFile(s, f)
  <2> SUFFICES ASSUME DownloadFile(s, f) PROVE FALSE
    OBVIOUS
  <2>1. objects[Model(s)][f] = Absent /\ phase[s] = "files"
    BY DEF DownloadFile, CacheTypeOK
  <2> QED
    BY <1>1, <2>1, CacheDigests DEF BytesInv, LookedUpInv, Resolving
<1>5. ~VerifyStaging(s)
  <2> SUFFICES ASSUME VerifyStaging(s) PROVE FALSE
    OBVIOUS
  <2>1. ~Verified(staging[s]) /\ phase[s] = "files" /\ \A f \in Files : staging[s][f] # Absent
    BY DEF VerifyStaging, CacheTypeOK
  <2>2. PICK b \in Builds : /\ Row(s) = Content[Manifest][b]
                            /\ objects[Model(s)] = [f \in Names |-> Content[f][b]]
    BY <1>1, <2>1 DEF BytesInv, LookedUpInv, Resolving
  <2>3. staging[s][Manifest] = Content[Manifest][b]
    BY <2>1, <2>2 DEF BytesInv, StagingInv, Resolving
  <2>4. \A f \in Names : staging[s][f] = Content[f][b]
    BY <2>1, <2>2, <2>3 DEF FreshInv, Names
  <2>5. staging[s] \in Dir
    BY <2>1 DEF CacheTypeOK
  <2> QED
    BY <2>1, <2>4, <2>5 DEF Verified, Dir
<1>6. ~ListDest(s) /\ ~Install(s)
  BY DEF ListDest, Install, SoleInv, Resolved, Proceed, CacheTypeOK
<1>7. ASSUME NEW f \in Names PROVE ~RemoveEntry(s, f)
  BY DEF RemoveEntry, SoleInv, CacheTypeOK
<1>8. ~RemoveDir(s)
  <2> SUFFICES ASSUME RemoveDir(s) PROVE FALSE
    OBVIOUS
  <2>1. phase[s] = "remove" /\ todo[s] = {} /\ Cached(s) # Empty
    BY DEF RemoveDir, CacheTypeOK
  <2>2. Cached(s) # NoDir /\ \A f \in Names : Cached(s)[f] = Absent
    BY <2>1 DEF SoleInv, Holds
  <2> QED
    BY <2>1, <2>2, CachePosition DEF Dir, Empty
<1>9. phase[s] \in Loading => Verified(Cached(s)) /\ Cached(s) # NoDir
  BY DEF CachedInv, CacheIsValid, Cached
<1>10. ~VerifyDest(s)
  BY <1>9 DEF VerifyDest, Loading, CacheTypeOK
<1>11. ASSUME NEW f \in Names PROVE ~LoadFile(s, f)
  BY <1>9, VerifiedIsWhole DEF LoadFile, Holds, Loading, CacheTypeOK
<1>12. Lookup(s)
  BY <1>2, <1>3, <1>4, <1>5, <1>6, <1>7, <1>8, <1>10, <1>11 DEF Startup
<1> QED
  BY <1>12 DEF Lookup, CacheTypeOK

LEMMA ServableStep ==
  ASSUME IInv, CacheInv, SingleInv, Alone, DeliveryNext,
         NEW s \in sharers, phase[s] # "failed", phase'[s] = "failed"
  PROVE  \/ mixed
         \/ crashes' > crashes
         \/ phase[s] = "lookup" /\ rows[Models[at[s]]] = Absent
<1>1. PICK t \in sharers : Serve(t) \/ Disrupt(t)
  BY DEF DeliveryNext, UploadByHand, SetUp, apiVars
<1>2. t = s
  BY AloneIsOne DEF CacheInv
<1>3. CASE Disrupt(s)
  <2>1. crashes' = crashes + 1 /\ crashes \in Nat
    BY <1>3, CacheAssumption DEF Disrupt, StartupFails, Crash, CacheInv, CacheTypeOK
  <2> QED
    BY <2>1
<1>4. CASE Serve(s)
  BY <1>4, StartupOnlyFails DEF Serve, Row, Model
<1> QED
  BY <1>1, <1>2, <1>3, <1>4

\* Until runs with different bytes overlap, whatever is registered can be served by a
\* process whose cache is its own, for any number of models, files, builds and
\* uploads: only a model that is not registered, a crash or an error from outside
\* ends its startup.
THEOREM RegisteredCanBeServed == DeliverySpec /\ Alone => RegisteredIsServable
<1>1. CacheInv /\ Alone /\ [DeliveryNext]_deliveryVars => Alone'
  <2> SUFFICES ASSUME CacheInv, [DeliveryNext]_deliveryVars PROVE UNCHANGED sharers
    BY DEF Alone
  <2>1. \A s \in sharers : s \in Starters /\ (Moves(s) => UNCHANGED sharers)
    BY DirKinds DEF CacheInv, CacheTypeOK, registry
  <2> QED
    BY <2>1 DEF DeliveryNext, UploadByHand, SetUp, Serve, Disrupt, Moves, deliveryVars, apiVars
<1>2. IInv /\ CacheInv /\ SingleInv /\ Alone /\ [DeliveryNext]_deliveryVars
        => [\A s \in sharers :
              phase[s] # "failed" /\ phase'[s] = "failed" =>
                \/ mixed
                \/ crashes' > crashes
                \/ phase[s] = "lookup" /\ rows[Models[at[s]]] = Absent]_deliveryVars
  BY ServableStep
<1> QED
  BY <1>1, <1>2, SingleInvariance, StoreInvariance, CacheInvarianceInDelivery, PTL
  DEF DeliverySpec, RegisteredIsServable
=============================================================================
