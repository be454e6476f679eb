---------------------------- MODULE ModelDelivery ----------------------------
(* From the pinned models to an API that serves them: the model-init container *)
(* (ModelSetup) and upload scripts run by hand (ArtifactPublish) publish and   *)
(* register builds while API processes (ArtifactCache) start from the same     *)
(* bucket and the same table, as docker-compose.yml and docs/MODEL_REGISTRY.md *)
(* bring them together.                                                        *)
EXTENDS ModelSetup, ArtifactCache

CONSTANT Deployments \* which of Uploaders and Starters there are: one set per deployment

VARIABLE present     \* the deployment at hand

apiVars      == <<sharers, disk, phase, at, memory, crashes>>
deliveryVars == <<vars, setupVars, present, apiVars>>

\* A new deployment: no objects, no rows, an empty volume and an empty cache.
DeliveryInit ==
  /\ Init /\ \A u \in Uploaders : build[u] = Pinned
  /\ SetupInit
  /\ present \in Deployments
  /\ upSince = IF Container \in present THEN Never ELSE 0
  /\ dest = [m \in Specs |-> NoDir]
  /\ sharers = present \cap Starters
  /\ Off

Hands == present \cap (Uploaders \ {Container})

\* A script started before MinIO is there changes nothing.
UploadByHand ==
  /\ upSince # Never
  /\ \E u \in Hands : Run(u) \/ \E b \in Builds : Start(u, b)
  /\ UNCHANGED <<setupVars, present, apiVars>>

SetUp ==
  /\ Container \in present
  /\ Up \/ MinioReady \/ Setup \/ BreakOff
  /\ UNCHANGED <<present, apiVars>>

\* A startup reads the store; it never writes it.
Serve(s) ==
  /\ UNCHANGED <<vars, setupVars, present>>
  /\ Startup(s)

Disrupt(s) ==
  /\ UNCHANGED <<vars, setupVars, present>>
  /\ StartupFails(s) \/ Crash(s)

DeliveryNext ==
  \/ UploadByHand
  \/ SetUp
  \/ \E s \in sharers : Serve(s) \/ Disrupt(s)

\* API processes are restarted whenever they exit, and a container that has been
\* started runs; nothing says when a container is started, or started again.
Fairness ==
  /\ \A s \in Starters : WF_deliveryVars(s \in sharers /\ Serve(s))
  /\ WF_deliveryVars(Container \in present /\ Setup /\ UNCHANGED <<present, apiVars>>)

DeliverySpec == DeliveryInit /\ [][DeliveryNext]_deliveryVars /\ Fairness

-----------------------------------------------------------------------------
(* Properties                                                                 *)

\* Types of the three parts.
DeliveryTypeOK == TypeOK /\ SetupTypeOK /\ CacheTypeOK /\ present \in Deployments

\* The checksum of the build a process has in memory of a model.
ServedChecksum(s, m) ==
  IF phase[s] # "serving" THEN Absent
  ELSE IF Verified(memory[s][m]) THEN memory[s][m][Manifest] ELSE Bad

Release == INSTANCE ModelRelease WITH
  Checksums  <- {Content[Manifest][b] : b \in Builds},
  registered <- rows,
  served     <- [s \in Starters |-> [m \in Specs |-> ServedChecksum(s, m)]]

\* Runs of the script, the container and the startups together implement
\* ModelRelease: whatever overlaps or breaks off, a registration is final and
\* an API process serves the registered build of every model, or nothing.
KeepsRelease == Release!Spec

\* Until runs with different bytes overlap, a startup that has its cache to itself
\* fails for one reason of its own only: a model is not registered yet.  Whatever
\* is registered can be downloaded, verified, installed and loaded, also while an
\* upload is in progress.
RegisteredIsServable ==
  [][\A s \in sharers :
       phase[s] # "failed" /\ phase'[s] = "failed" =>
         \/ mixed
         \/ crashes' > crashes
         \/ phase[s] = "lookup" /\ rows[Models[at[s]]] = Absent]_deliveryVars

Registered == \A m \in Specs : rows[m] # Absent
Serving    == \A s \in sharers : phase[s] = "serving"

\* A container that has been started, without scripts run by hand beside it, will
\* register the models.
Promised == Registered \/ (stage = "wait" /\ Hands = {})

\* Only a container broken off, or a MinIO that comes too late, prevents that.
Prevented == ~Registered /\ (faults > 0 \/ stage = "timeout")

\* Once the models are registered, or the stack has been brought up, the API ends
\* up serving, wherever startups crash and however they meet the upload.
Delivered == Promised ~> Serving \/ Prevented \/ mixed
=============================================================================
