---------------------------- MODULE ArtifactCache ---------------------------
(* The startup of API processes (lifespan in main.py): each registered model   *)
(* is brought into a local cache directory by resolve_model_directories        *)
(* (models/registry.py) and S3ArtifactStore.download_model, and when all are   *)
(* there the classifiers load from the directories.  Processes that share the  *)
(* cache volume start, crash and start again at any point.                     *)
EXTENDS Artifacts, FiniteSets

CONSTANTS
  Starters,  \* API processes that share the cache volume
  Bad,       \* any other bytes
  NoDir,
  MaxCrashes \* bound: how often processes crash, or fail on an error from outside

Dir   == [Names -> Contents \cup {Bad, Absent}]
Empty == [f \in Names |-> Absent]

ASSUME CacheAssumption ==
  /\ Files # {}
  /\ IsFiniteSet(Starters)
  /\ Bad \notin Contents \cup {Absent}
  /\ NoDir \notin Dir
  /\ MaxCrashes \in Nat

VARIABLES
  dest,      \* the cache directory of each model and that checksum
  staging,   \* per process: its staging directory
  todo,      \* per process: the entries rmtree() has listed and not yet removed
  detached,  \* the processes whose rmtree() holds a directory renamed over since
  sharers,   \* the processes of this deployment
  phase,     \* per process: what it does next
  at,        \* per process: the position in MODEL_ARTIFACTS
  memory,    \* per process: the bytes it has loaded of each model
  crashes

registry  == <<objects, rows, sharers>>
disk      == <<dest, staging, todo, detached>>
cacheVars == <<registry, disk, phase, at, memory, crashes>>

Model(s) == Models[at[s]]
Row(s)   == rows[Model(s)]
Cached(s) == dest[Model(s)]

\* Some build has this manifest, and the directory holds that build: what
\* verify_model_artifact() establishes.
Verified(d) == \E b \in Builds : d = [f \in Names |-> Content[f][b]]

\* The cache directory has an entry of that name.
Holds(s, f) == Cached(s) # NoDir /\ Cached(s)[f] # Absent

\* Mutant: the manifest is trusted and the files are not hashed.
CacheIsValidByManifest(m) == dest[m] # NoDir /\ dest[m][Manifest] = rows[m]

\* _cache_is_valid()
CacheIsValid(m) == dest[m] # NoDir /\ dest[m][Manifest] = rows[m] /\ Verified(dest[m])

StepTo(s, label) == phase' = [phase EXCEPT ![s] = label]

\* The startup ends, and with it everything the process holds.
Stop(s, label) ==
  /\ StepTo(s, label)
  /\ staging' = [staging EXCEPT ![s] = NoDir]
  /\ todo' = [todo EXCEPT ![s] = {}]
  /\ detached' = detached \ {s}
  /\ at' = [at EXCEPT ![s] = 1]
  /\ memory' = [memory EXCEPT ![s] = [m \in Specs |-> Empty]]
  /\ UNCHANGED <<registry, dest>>

\* An exception ends it; inside the try block of download_model() it removes the
\* staging directory first.
Fail(s) == Stop(s, "failed") /\ UNCHANGED crashes

\* The current model is dealt with: on to the next one, or the loop ends.
Proceed(s, label, last) ==
  IF at[s] < Len(Models)
  THEN /\ at' = [at EXCEPT ![s] = @ + 1]
       /\ StepTo(s, label)
  ELSE /\ at' = [at EXCEPT ![s] = 1]
       /\ StepTo(s, last)

\* download_model() returns; resolve_model_directories() ends before a
\* classifier is loaded.
Resolved(s) == Proceed(s, "lookup", "verify")

\* What earlier startups, interruptions and disk faults leave in the directory
\* of a checksum: its own files, in part or damaged.
Leftover(checksum) ==
  {d \in Dir : \E b \in Builds : /\ Content[Manifest][b] = checksum
                                /\ \A f \in Names : d[f] \in {Content[f][b], Bad, Absent}}

\* What finished, unfinished and overlapping uploads leave under a prefix.
Uploaded ==
  {o \in [Names -> Contents \cup {Absent}] :
     \A f \in Names : o[f] \in {Content[f][b] : b \in Builds} \cup {Absent}}

\* Processes that have not been started, and what is in their way.
Off ==
  /\ staging = [s \in Starters |-> NoDir]
  /\ todo = [s \in Starters |-> {}]
  /\ detached = {}
  /\ phase = [s \in Starters |-> "off"]
  /\ at = [s \in Starters |-> 1]
  /\ memory = [s \in Starters |-> [m \in Specs |-> Empty]]
  /\ crashes = 0

CacheInit ==
  /\ objects \in [Specs -> Uploaded]
  /\ rows \in [Specs -> {Content[Manifest][b] : b \in Builds} \cup {Absent}]
  /\ dest \in [Specs -> UNION {Leftover(rows[m]) : m \in Specs} \cup {NoDir}]
  /\ \A m \in Specs : dest[m] \in Leftover(rows[m]) \cup {NoDir}
  /\ sharers \in SUBSET Starters \ {{}}
  /\ Off

Boot(s) ==
  /\ phase[s] \in {"off", "failed"}
  /\ StepTo(s, "lookup")
  /\ UNCHANGED <<registry, disk, at, memory, crashes>>

\* The registry row: without one the startup fails.
Lookup(s) ==
  /\ phase[s] = "lookup"
  /\ \/ Row(s) = Absent /\ Fail(s)
     \/ /\ Row(s) # Absent
        /\ StepTo(s, "check")
        /\ UNCHANGED <<registry, disk, at, memory, crashes>>

\* A valid cache is used as it is, whatever the state of the object store.
CheckCache(s) ==
  /\ phase[s] = "check"
  /\ \/ /\ CacheIsValid(Model(s))
        /\ Resolved(s)
        /\ UNCHANGED staging
     \/ /\ ~CacheIsValid(Model(s))
        /\ staging' = [staging EXCEPT ![s] = Empty]
        /\ StepTo(s, "manifest")
        /\ UNCHANGED at
  /\ UNCHANGED <<registry, dest, todo, detached, memory, crashes>>

\* Mutant: the downloaded manifest is not compared with the registered checksum.
DownloadAnyManifest(s) ==
  /\ phase[s] = "manifest"
  /\ LET object == objects[Model(s)][Manifest]
     IN \/ object = Absent /\ Fail(s)
        \/ /\ object # Absent
           /\ staging' = [staging EXCEPT ![s][Manifest] = object]
           /\ StepTo(s, "files")
           /\ UNCHANGED <<registry, dest, todo, detached, at, memory, crashes>>

DownloadManifest(s) ==
  /\ phase[s] = "manifest"
  /\ LET object == objects[Model(s)][Manifest]
     IN \/ object # Row(s) /\ Fail(s)
        \/ /\ object = Row(s)
           /\ staging' = [staging EXCEPT ![s][Manifest] = object]
           /\ StepTo(s, "files")
           /\ UNCHANGED <<registry, dest, todo, detached, at, memory, crashes>>

\* One file of the manifest, in its order; after the last the staging directory
\* is verified.
DownloadFile(s, f) ==
  /\ phase[s] = "files"
  /\ staging[s][f] = Absent
  /\ LET object == objects[Model(s)][f]
     IN \/ object = Absent /\ Fail(s)
        \/ /\ object # Absent
           /\ staging' = [staging EXCEPT ![s][f] = object]
           /\ UNCHANGED <<registry, dest, todo, detached, phase, at, memory, crashes>>

VerifyStaging(s) ==
  /\ phase[s] = "files"
  /\ \A f \in Files : staging[s][f] # Absent
  /\ \/ ~Verified(staging[s]) /\ Fail(s)
     \/ /\ Verified(staging[s])
        /\ StepTo(s, "exists")
        /\ UNCHANGED <<registry, disk, at, memory, crashes>>

\* An error of the database, of the object store or of the disk while the
\* models are resolved, or of a library while they are loaded or warmed up.
StartupFails(s) ==
  /\ phase[s] \in {"lookup", "manifest", "files", "verify", "load"}
  /\ crashes < MaxCrashes
  /\ crashes' = crashes + 1
  /\ Stop(s, "failed")

\* destination.exists()
TestExists(s) ==
  /\ phase[s] = "exists"
  /\ StepTo(s, IF Cached(s) = NoDir THEN "install" ELSE "list")
  /\ UNCHANGED <<registry, disk, at, memory, crashes>>

\* rmtree(): open and list the directory, remove the entries one by one, remove
\* the directory.  Another process may remove or rename between any two of them.
ListDest(s) ==
  /\ phase[s] = "list"
  /\ \/ Cached(s) = NoDir /\ Fail(s)
     \/ /\ Cached(s) # NoDir
        /\ todo' = [todo EXCEPT ![s] = {f \in Names : Holds(s, f)}]
        /\ StepTo(s, "remove")
        /\ UNCHANGED <<registry, dest, staging, detached, at, memory, crashes>>

\* An entry that is gone raises, or from Python 3.13 on is passed over.
RemoveEntry(s, f) ==
  LET gone == ~(s \notin detached /\ Holds(s, f))
  IN /\ phase[s] = "remove"
     /\ f \in todo[s]
     /\ \/ gone /\ Fail(s)
        \/ /\ todo' = [todo EXCEPT ![s] = @ \ {f}]
           /\ dest' = IF gone THEN dest ELSE [dest EXCEPT ![Model(s)][f] = Absent]
           /\ UNCHANGED <<registry, staging, detached, phase, at, memory, crashes>>

RemoveDir(s) ==
  /\ phase[s] = "remove"
  /\ todo[s] = {}
  /\ \/ Cached(s) # Empty /\ Fail(s)
     \/ /\ Cached(s) = Empty
        /\ dest' = [dest EXCEPT ![Model(s)] = NoDir]
        /\ detached' = detached \ {s}
        /\ StepTo(s, "install")
        /\ UNCHANGED <<registry, staging, todo, at, memory, crashes>>

\* The processes whose rmtree() works in the directory this one renames over.
Removing(s) == {t \in Starters : phase[t] = "remove" /\ at[t] = at[s]}

\* Mutant: the staging directory is copied and stays.
InstallCopy(s) ==
  /\ phase[s] = "install"
  /\ \/ Cached(s) \notin {NoDir, Empty} /\ Fail(s)
     \/ /\ Cached(s) \in {NoDir, Empty}
        /\ dest' = [dest EXCEPT ![Model(s)] = staging[s]]
        /\ detached' = detached \cup Removing(s)
        /\ Resolved(s)
        /\ UNCHANGED <<registry, staging, todo, memory, crashes>>

\* staging.replace(destination): a rename, refused over a directory with entries.
Install(s) ==
  /\ phase[s] = "install"
  /\ \/ Cached(s) \notin {NoDir, Empty} /\ Fail(s)
     \/ /\ Cached(s) \in {NoDir, Empty}
        /\ dest' = [dest EXCEPT ![Model(s)] = staging[s]]
        /\ staging' = [staging EXCEPT ![s] = NoDir]
        /\ detached' = detached \cup Removing(s)
        /\ Resolved(s)
        /\ UNCHANGED <<registry, todo, memory, crashes>>

\* The loader verifies the directory once more against its own manifest.  It hashes
\* file by file; one step stands for that, since behind a file already hashed come
\* only removals and directories that were verified before their rename.
VerifyDest(s) ==
  /\ phase[s] = "verify"
  /\ \/ ~Verified(Cached(s)) /\ Fail(s)
     \/ /\ Verified(Cached(s))
        /\ StepTo(s, "load")
        /\ UNCHANGED <<registry, disk, at, memory, crashes>>

\* It reads the files, one after the other, as the PyTorch runtime does; with ONNX the
\* weights are read only when no graph was exported from them before (OnnxCache).
LoadFile(s, f) ==
  /\ phase[s] = "load"
  /\ memory[s][Model(s)][f] = Absent
  /\ \/ ~Holds(s, f) /\ Fail(s)
     \/ /\ Holds(s, f)
        /\ memory' = [memory EXCEPT ![s][Model(s)][f] = Cached(s)[f]]
        /\ UNCHANGED <<registry, disk, phase, at, crashes>>

\* The classifier has its files and is warmed up; after the last one the process
\* is ready.
FinishLoad(s) ==
  /\ phase[s] = "load"
  /\ \A f \in Names : memory[s][Model(s)][f] # Absent
  /\ Proceed(s, "verify", "serving")
  /\ UNCHANGED <<registry, disk, memory, crashes>>

\* The process dies: its staging directory stays behind under a name that is
\* never used again, and its rmtree() stops half way.
Crash(s) ==
  /\ phase[s] # "off"
  /\ crashes < MaxCrashes
  /\ crashes' = crashes + 1
  /\ Stop(s, "off")

Startup(s) ==
  \/ Boot(s)
  \/ Lookup(s)
  \/ CheckCache(s)
  \/ DownloadManifest(s)
  \/ \E f \in Files : DownloadFile(s, f)
  \/ VerifyStaging(s)
  \/ TestExists(s)
  \/ ListDest(s)
  \/ \E f \in Names : RemoveEntry(s, f)
  \/ RemoveDir(s)
  \/ Install(s)
  \/ VerifyDest(s)
  \/ \E f \in Names : LoadFile(s, f)
  \/ FinishLoad(s)

CacheNext == \E s \in sharers : Startup(s) \/ StartupFails(s) \/ Crash(s)

\* The processes of the deployment are scheduled, and the service restarts them
\* when they exit.
CacheSpec ==
  /\ CacheInit
  /\ [][CacheNext]_cacheVars
  /\ \A s \in Starters : WF_cacheVars(s \in sharers /\ Startup(s))

-----------------------------------------------------------------------------
(* Properties                                                                 *)

\* Types; a process has a staging directory exactly between the failed cache
\* check and the rename.
CacheTypeOK ==
  /\ objects \in [Specs -> [Names -> Contents \cup {Absent}]]
  /\ rows \in [Specs -> Contents \cup {Absent}]
  /\ dest \in [Specs -> Dir \cup {NoDir}]
  /\ staging \in [Starters -> Dir \cup {NoDir}]
  /\ todo \in [Starters -> SUBSET Names]
  /\ detached \subseteq Starters
  /\ sharers \subseteq Starters
  /\ phase \in [Starters -> {"off", "lookup", "check", "manifest", "files", "exists", "list",
                             "remove", "install", "verify", "load", "serving", "failed"}]
  /\ at \in [Starters -> 1 .. Len(Models)]
  /\ memory \in [Starters -> [Specs -> Dir]]
  /\ crashes \in 0 .. MaxCrashes
  /\ \A s \in Starters :
       staging[s] # NoDir <=> phase[s] \in {"manifest", "files", "exists", "list", "remove",
                                            "install"}

\* A process serves exactly the bytes the registered manifest digests cover:
\* whatever the bucket holds, whatever an interrupted startup left in the cache,
\* and while other startups remove and rename the directories it reads.
LoadedIsRegistered ==
  \A s \in Starters : phase[s] = "serving" => \A m \in Specs :
    \E b \in Builds : /\ rows[m] = Content[Manifest][b]
                      /\ memory[s][m] = [f \in Names |-> Content[f][b]]

\* The deployment has one process, and its cache to itself.
Alone == Cardinality(sharers) = 1

\* A process that shares its cache with no other leaves it valid: the next
\* startup needs no object store.
ServedIsCached ==
  Alone => \A s \in Starters : phase[s] = "serving" => \A m \in Specs : CacheIsValid(m)

\* The bucket holds the registered builds.
Published ==
  \A m \in Specs : \E b \in Builds : /\ rows[m] = Content[Manifest][b]
                                     /\ objects[m] = [f \in Names |-> Content[f][b]]

\* Whatever an interruption left in the cache, a process that shares it with no
\* other and is restarted ends up serving.
RecoversAlone ==
  Published /\ Alone => <>[](\A s \in sharers : phase[s] = "serving")
=============================================================================
