------------------------------ MODULE ModelSetup -----------------------------
(* The model-init container: models/compose_setup.py waits for MinIO, lets the  *)
(* download scripts fetch what its volume lacks, and runs the upload script     *)
(* (ArtifactPublish) on what the volume holds.  The container may stop at any   *)
(* point; it runs again whenever the stack is brought up.                       *)
EXTENDS ArtifactPublish

CONSTANTS
  Container, \* the one of the Uploaders that this container runs
  Pinned,    \* the build of the pinned revisions
  Deadline,  \* READY_TIMEOUT_SECONDS
  Timeout,   \* bound: how long a probe may take; timeout=3 limits each wait on its socket
  Pause,     \* the sleep after a failed probe
  Never,
  MaxFaults  \* bound: how often the container breaks off

ASSUME SetupAssumption ==
  /\ Container \in Uploaders
  /\ Pinned \in Builds
  /\ {Deadline, Timeout, Pause} \subseteq Nat \ {0}
  /\ Never \notin Nat
  /\ MaxFaults \in Nat

VARIABLES
  stage,     \* what the container does next
  clock,     \* seconds since the wait began
  upSince,   \* the second of the wait from which MinIO answers every new probe with 2xx
  position,  \* the model being prepared
  fetched,   \* the volume: the files in the directory of each model
  checksums, \* the volume: its manifest.json, "none", "torn" or "whole"
  faults

volume    == <<fetched, checksums>>
setupVars == <<stage, clock, upSince, position, volume, faults>>

Preparing == Models[position]

\* verify_model_artifact() on a directory of the volume.
Prepared(m) == checksums[m] = "whole" /\ fetched[m] = Files

Ended ==
  \/ stage \in {"off", "exited", "timeout"}
  \/ stage = "upload" /\ ~Active(Container)

SetupInit ==
  /\ stage = "off"
  /\ clock = 0
  /\ position = 1
  /\ fetched = [m \in Specs |-> {}]
  /\ checksums = [m \in Specs |-> "none"]
  /\ faults = 0

Up ==
  /\ Ended
  /\ stage' = "wait"
  /\ upSince' = IF upSince = Never THEN Never ELSE 0
  /\ clock' = 0
  /\ UNCHANGED <<vars, position, volume, faults>>

\* MinIO answers every probe that begins from here on; a later outage is a fault of
\* its clients.
MinioReady ==
  /\ upSince = Never
  /\ upSince' = clock
  /\ UNCHANGED <<vars, stage, clock, position, volume, faults>>

-----------------------------------------------------------------------------
(* wait_for_minio()                                                           *)

TestDeadline ==
  /\ stage = "wait"
  /\ stage' = IF clock < Deadline THEN "probe" ELSE "timeout"
  /\ UNCHANGED <<vars, clock, upSince, position, volume, faults>>

ProbeSucceeds ==
  /\ stage = "probe"
  /\ upSince # Never
  /\ stage' = "check"
  /\ clock' = 0
  /\ upSince' = 0
  /\ UNCHANGED <<vars, position, volume, faults>>

\* A refused connection, an answer other than 2xx, which urlopen() raises, or none
\* in time.  MinIO was not ready when the probe began: readiness that comes and goes
\* is not ready yet.
ProbeFails ==
  /\ stage = "probe"
  /\ upSince \in {Never, clock}
  /\ \E d \in 0 .. Timeout : clock' = clock + d
  /\ stage' = "pause"
  /\ UNCHANGED <<vars, upSince, position, volume, faults>>

\* Mutant: the pause doubles with the time already spent.
PauseLonger ==
  /\ stage = "pause"
  /\ clock' = 2 * clock + Pause
  /\ stage' = "wait"
  /\ UNCHANGED <<vars, upSince, position, volume, faults>>

\* Mutant: the deadline is set again before each probe.
PauseResetsDeadline ==
  /\ stage = "pause"
  /\ clock' = 0
  /\ stage' = "wait"
  /\ UNCHANGED <<vars, upSince, position, volume, faults>>

PauseEnds ==
  /\ stage = "pause"
  /\ clock' = clock + Pause
  /\ stage' = "wait"
  /\ UNCHANGED <<vars, upSince, position, volume, faults>>

-----------------------------------------------------------------------------
(* main(), and the download script it runs for each missing model             *)

NextPreparation ==
  IF position < Len(Models)
  THEN /\ position' = position + 1
       /\ stage' = "check"
  ELSE /\ position' = 1
       /\ stage' = "launch"

\* Mutant: a model whose directory has files counts as downloaded.
CheckDirectory ==
  /\ stage = "check"
  /\ \/ fetched[Preparing] # {} /\ NextPreparation
     \/ fetched[Preparing] = {} /\ stage' = "fetch" /\ UNCHANGED position
  /\ UNCHANGED <<vars, clock, upSince, volume, faults>>

\* Only the presence of manifest.json counts.
CheckManifest ==
  /\ stage = "check"
  /\ \/ checksums[Preparing] # "none" /\ NextPreparation
     \/ checksums[Preparing] = "none" /\ stage' = "fetch" /\ UNCHANGED position
  /\ UNCHANGED <<vars, clock, upSince, volume, faults>>

\* snapshot_download() moves each file into place when it has all of it, and
\* keeps those of an earlier download.
FetchFile(f) ==
  /\ stage = "fetch"
  /\ f \notin fetched[Preparing]
  /\ fetched' = [fetched EXCEPT ![Preparing] = @ \cup {f}]
  /\ UNCHANGED <<vars, stage, clock, upSince, position, checksums, faults>>

\* write_text() truncates manifest.json, and then fills it.
OpenManifest ==
  /\ stage = "fetch"
  /\ fetched[Preparing] = Files
  /\ checksums' = [checksums EXCEPT ![Preparing] = "torn"]
  /\ stage' = "write"
  /\ UNCHANGED <<vars, clock, upSince, position, fetched, faults>>

WriteManifest ==
  /\ stage = "write"
  /\ checksums' = [checksums EXCEPT ![Preparing] = "whole"]
  /\ NextPreparation
  /\ UNCHANGED <<vars, clock, upSince, fetched, faults>>

-----------------------------------------------------------------------------
(* The upload script, as a child process                                      *)

Launch ==
  /\ stage = "launch"
  /\ stage' = "upload"
  /\ Start(Container, Pinned)
  /\ UNCHANGED <<clock, upSince, position, volume, faults>>

\* upload_model() verifies the directory of a model before its first object.
EntersModel == pc[Container] = "head_object" /\ file[Container] = 1

Upload ==
  /\ stage = "upload"
  /\ \/ (EntersModel => Prepared(Spec1(Container))) /\ Work(Container)
     \/ EntersModel /\ ~Prepared(Spec1(Container)) /\ Interrupt(Container)
  /\ UNCHANGED setupVars

\* The container is stopped, or a request to Hugging Face, to MinIO or to
\* PostgreSQL fails; subprocess.run(check=True) passes a failure on.
BreakOff ==
  /\ ~Ended
  /\ faults < MaxFaults
  /\ faults' = faults + 1
  /\ stage' = "exited"
  /\ clock' = 0
  /\ upSince' = IF upSince = Never THEN Never ELSE 0
  /\ position' = 1
  /\ IF stage = "upload" THEN Break(Container) ELSE UNCHANGED vars
  /\ UNCHANGED volume

Setup ==
  \/ TestDeadline
  \/ ProbeSucceeds
  \/ ProbeFails
  \/ PauseEnds
  \/ CheckManifest
  \/ \E f \in Files : FetchFile(f)
  \/ OpenManifest
  \/ WriteManifest
  \/ Launch
  \/ Upload

-----------------------------------------------------------------------------
(* Properties                                                                 *)

\* Types; the wait ends within one probe and one pause of its deadline.
SetupTypeOK ==
  /\ stage \in {"off", "wait", "probe", "pause", "check", "fetch", "write", "launch",
                "upload", "exited", "timeout"}
  /\ clock \in 0 .. Deadline - 1 + Timeout + Pause
  /\ upSince \in 0 .. Deadline - 1 + Timeout + Pause \cup {Never}
  /\ position \in 1 .. Len(Models)
  /\ fetched \in [Specs -> SUBSET Files]
  /\ checksums \in [Specs -> {"none", "torn", "whole"}]
  /\ faults \in 0 .. MaxFaults

\* Wherever earlier runs broke off, what is uploaded is complete: a manifest on
\* the volume vouches for the files beside it, and once the downloads are done
\* only a manifest whose writing broke off can be in the way.
PreparedOrTorn ==
  /\ \A m \in Specs : checksums[m] = "whole" => Prepared(m)
  /\ stage \in {"launch", "upload"} => \A m \in Specs : checksums[m] # "none"

\* The wait gives up on MinIO only if it was not ready one probe and one pause
\* before the deadline, and goes on only if it is ready.
WaitIsFair ==
  /\ stage = "timeout" => upSince = Never \/ upSince + Timeout + Pause >= Deadline
  /\ stage \in {"check", "fetch", "write", "launch", "upload"} => upSince # Never
=============================================================================
