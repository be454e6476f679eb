------------------------- MODULE ArtifactCacheProofs ------------------------
(* Proofs about ArtifactCache for any processes, models, files and builds, and *)
(* for any bound on crashes.                                                    *)
EXTENDS ArtifactCache, FiniteSetTheorems, TLAPS

Resolving == {"manifest", "files", "exists", "list", "remove", "install"}
Checking  == {"lookup", "check"}
Loading   == {"verify", "load"}

\* A digest is that of a file in the build registered for a model.
Own(m, f, digest) ==
  \E b \in Builds : rows[m] = Content[Manifest][b] /\ digest = Content[f][b]

\* What a cache directory holds is the registered build, as far as it goes.
Clean(m) ==
  dest[m] # NoDir => \A f \in Names : dest[m][f] # Absent => Own(m, f, dest[m][f])

\* A directory belongs to a registered checksum: it has files of that build,
\* damaged ones and missing ones, and none of another build.
DirectoryInv ==
  \A m \in Specs : dest[m] # NoDir =>
    /\ rows[m] # Absent
    /\ \A f \in Names : dest[m][f] \in {Absent, Bad} \/ Own(m, f, dest[m][f])

\* A process resolves a model that is registered, ...
LookedUpInv ==
  \A s \in Starters : phase[s] \in Resolving \cup {"check"} => Row(s) # Absent

\* ... and installs nothing but the registered build.
StagingInv ==
  \A s \in Starters :
    /\ phase[s] \in Resolving \ {"manifest"} => staging[s][Manifest] = Row(s)
    /\ phase[s] \in Resolving \ {"manifest", "files"} => Verified(staging[s])

\* Behind a verified directory come only removals and verified directories: what
\* a process reads there after the check is of the registered build or missing.
ReadInv == \A s \in Starters : phase[s] = "load" => Clean(Model(s))

\* What is in memory is of the registered build, ...
MemoryInv ==
  \A s \in Starters, m \in Specs : \A f \in Names :
    memory[s][m][f] # Absent => Own(m, f, memory[s][m][f])

\* ... and whole for the models a process is done with.
LoadedInv ==
  \A s \in Starters :
    /\ phase[s] \in Loading =>
         \A i \in 1 .. at[s] - 1 : \A f \in Names : memory[s][Models[i]][f] # Absent
    /\ phase[s] = "serving" => \A m \in Specs : \A f \in Names : memory[s][m][f] # Absent

BytesInv ==
  DirectoryInv /\ LookedUpInv /\ StagingInv /\ ReadInv /\ MemoryInv /\ LoadedInv

\* Only the processes of the deployment run, each from its first model on.
DeploymentInv ==
  \A s \in Starters : /\ phase[s] # "off" => s \in sharers
                      /\ phase[s] \in {"off", "failed"} => at[s] = 1

\* The cache of a process that is alone stays valid model by model.
CachedInv ==
  Alone => \A s \in sharers :
    /\ phase[s] \in Resolving \cup Checking => \A i \in 1 .. at[s] - 1 : CacheIsValid(Models[i])
    /\ phase[s] \in Resolving => ~CacheIsValid(Model(s))
    /\ phase[s] \in Loading \cup {"serving"} => \A m \in Specs : CacheIsValid(m)

CacheInv == CacheTypeOK /\ BytesInv /\ DeploymentInv /\ CachedInv

-----------------------------------------------------------------------------
(* The constants, and the directories                                         *)

LEMMA CacheConstants ==
  /\ Len(Models) \in Nat \ {0}
  /\ \A i \in 1 .. Len(Models) : Models[i] \in Specs
  /\ \A m \in Specs : \E i \in 1 .. Len(Models) : m = Models[i]
  /\ Manifest \in Names /\ Files \subseteq Names
<1>1. DOMAIN Models = 1 .. Len(Models) /\ Len(Models) \in Nat \ {0}
  BY CacheAssumption, ArtifactAssumption
<1> QED
  BY <1>1 DEF Specs, Names

LEMMA CacheDigests ==
  ASSUME NEW f \in Names, NEW b \in Builds
  PROVE  Content[f][b] \in Contents /\ Content[f][b] \notin {Absent, Bad}
BY CacheAssumption, ArtifactAssumption

\* The build registered for a model has one digest per file.
LEMMA OwnIsUnique ==
  ASSUME NEW m \in Specs, NEW f \in Names, NEW c, NEW d, Own(m, f, c)
  PROVE  /\ c \notin {Absent, Bad}
         /\ rows[m] # Absent
         /\ Own(m, f, d) => c = d
BY CacheAssumption, ArtifactAssumption, CacheDigests, CacheConstants DEF Own

\* A verified directory is one, and has all its files.
LEMMA VerifiedIsWhole ==
  ASSUME NEW d, Verified(d)
  PROVE  d \in Dir /\ d # NoDir /\ \A f \in Names : d[f] \notin {Absent, Bad}
<1>1. PICK b \in Builds : d = [f \in Names |-> Content[f][b]]
  BY DEF Verified
<1>2. d \in Dir
  BY <1>1, CacheDigests DEF Dir
<1> QED
  BY <1>1, <1>2, CacheDigests, CacheAssumption, ArtifactAssumption

\* What verifies and has the registered manifest is the registered build.
LEMMA VerifiedIsOwn ==
  ASSUME NEW m \in Specs, NEW d, Verified(d), d[Manifest] = rows[m]
  PROVE  \A f \in Names : Own(m, f, d[f])
BY CacheConstants DEF Verified, Own

\* A cache directory that verifies is the registered build.
LEMMA VerifiedIsValid ==
  ASSUME DirectoryInv, NEW m \in Specs, Verified(dest[m])
  PROVE  CacheIsValid(m) /\ Clean(m)
<1>1. dest[m] # NoDir /\ dest[m][Manifest] \notin {Absent, Bad}
  BY VerifiedIsWhole, CacheConstants
<1>2. PICK b \in Builds : dest[m] = [f \in Names |-> Content[f][b]]
  BY DEF Verified
<1>3. dest[m][Manifest] = rows[m]
  BY <1>1, CacheConstants DEF DirectoryInv, Own
<1> QED
  BY <1>1, <1>3, VerifiedIsOwn DEF CacheIsValid, Clean

\* What a process is at.
LEMMA CachePosition ==
  ASSUME CacheTypeOK, NEW s \in Starters
  PROVE  /\ at[s] \in 1 .. Len(Models)
         /\ Model(s) \in Specs
         /\ Cached(s) \in Dir \cup {NoDir}
         /\ \A f \in Names : objects[Model(s)][f] \in Contents \cup {Absent}
BY CacheConstants DEF CacheTypeOK, Model, Cached

-----------------------------------------------------------------------------
(* What a step changes                                                        *)

Moves(s) == Startup(s) \/ StartupFails(s) \/ Crash(s)

\* rmtree() takes an entry, or the empty directory, ...
Removes(s) ==
  /\ phase[s] = "remove" /\ phase'[s] \in {"remove", "install"}
  /\ Cached(s) # NoDir
  /\ \/ \E f \in Names : dest' = [dest EXCEPT ![Model(s)][f] = Absent]
     \/ dest' = [dest EXCEPT ![Model(s)] = NoDir]

\* ... and the rename puts a staging directory in its place.
Installs(s) ==
  /\ phase[s] = "install"
  /\ Cached(s) \in {NoDir, Empty}
  /\ dest' = [dest EXCEPT ![Model(s)] = staging[s]]
  /\ Resolved(s)

LEMMA DirKinds ==
  ASSUME CacheTypeOK, NEW s \in Starters, Moves(s)
  PROVE  /\ UNCHANGED registry
         /\ UNCHANGED dest \/ Removes(s) \/ Installs(s)
<1> USE DEF StepTo, Stop, Fail, registry, disk
<1>1. CASE \E f \in Names : RemoveEntry(s, f)
  BY <1>1 DEF RemoveEntry, Removes, Holds, CacheTypeOK
<1>2. CASE RemoveDir(s)
  <2>1. Empty # NoDir
    BY CacheAssumption, ArtifactAssumption DEF Empty, Dir
  <2> QED
    BY <1>2, <2>1 DEF RemoveDir, Removes, CacheTypeOK
<1>3. CASE Install(s)
  BY <1>3 DEF Install, Installs
<1>4. CASE ~((\E f \in Names : RemoveEntry(s, f)) \/ RemoveDir(s) \/ Install(s))
  BY <1>4 DEF Moves, Startup, Boot, Lookup, CheckCache, DownloadManifest, DownloadFile,
     VerifyStaging, TestExists, ListDest, VerifyDest, LoadFile, FinishLoad, StartupFails, Crash
<1> QED
  BY <1>1, <1>2, <1>3, <1>4

\* A process moves no other one.
LEMMA OtherProcesses ==
  ASSUME CacheTypeOK, NEW s \in Starters, Moves(s), NEW t \in Starters, t # s
  PROVE  phase'[t] = phase[t] /\ at'[t] = at[t] /\ staging'[t] = staging[t] /\ memory'[t] = memory[t]
<1> USE DEF Moves, Startup, Boot, Lookup, CheckCache, DownloadManifest, DownloadFile,
     VerifyStaging, TestExists, ListDest, RemoveEntry, RemoveDir, Install, VerifyDest, LoadFile,
     FinishLoad, StartupFails, Crash, StepTo, Stop, Fail, Proceed, Resolved, registry, disk
<1>1. phase'[t] = phase[t]
  BY DEF CacheTypeOK
<1>2. at'[t] = at[t]
  BY DEF CacheTypeOK
<1>3. staging'[t] = staging[t]
  BY DEF CacheTypeOK
<1>4. memory'[t] = memory[t]
  BY DEF CacheTypeOK
<1> QED
  BY <1>1, <1>2, <1>3, <1>4

\* What is typed of the processes and of the directories.
ProcessTypeOK ==
  /\ dest \in [Specs -> Dir \cup {NoDir}]
  /\ staging \in [Starters -> Dir \cup {NoDir}]
  /\ todo \in [Starters -> SUBSET Names]
  /\ at \in [Starters -> 1 .. Len(Models)]
  /\ memory \in [Starters -> [Specs -> Dir]]
  /\ \A s \in Starters : staging[s] # NoDir <=> phase[s] \in Resolving

\* The directories without files are directories.
LEMMA EmptyIsDir == Empty \in Dir /\ Empty # NoDir
BY CacheAssumption, ArtifactAssumption DEF Empty, Dir

\* A directory with another entry is one.
LEMMA EntryInDir ==
  ASSUME NEW d \in Dir, NEW f \in Names, NEW c \in Contents \cup {Bad, Absent}
  PROVE  [d EXCEPT ![f] = c] \in Dir /\ [d EXCEPT ![f] = c] # NoDir
BY CacheAssumption, ArtifactAssumption DEF Dir

LEMMA ProcessTypeStep ==
  ASSUME CacheTypeOK, NEW s \in Starters, Moves(s)
  PROVE  ProcessTypeOK'
<1>0. /\ dest \in [Specs -> Dir \cup {NoDir}]
      /\ staging \in [Starters -> Dir \cup {NoDir}]
      /\ todo \in [Starters -> SUBSET Names]
      /\ at \in [Starters -> 1 .. Len(Models)]
      /\ memory \in [Starters -> [Specs -> Dir]]
      /\ phase = [t \in Starters |-> phase[t]]
      /\ \A t \in Starters : staging[t] # NoDir <=> phase[t] \in Resolving
      /\ Len(Models) \in Nat \ {0}
      /\ Model(s) \in Specs
      /\ \A f \in Names : objects[Model(s)][f] \in Contents \cup {Absent}
      /\ Manifest \in Names
  BY CacheConstants, CachePosition DEF CacheTypeOK, Resolving
<1>n. ASSUME NEW l, NEW last, Proceed(s, l, last)
      PROVE  /\ at' \in [Starters -> 1 .. Len(Models)]
             /\ \E label \in {l, last} : StepTo(s, label)
  <2>1. CASE at[s] < Len(Models)
    <3>1. at' = [at EXCEPT ![s] = at[s] + 1] /\ StepTo(s, l)
      BY <1>n, <2>1 DEF Proceed
    <3>2. at[s] + 1 \in 1 .. Len(Models)
      BY <1>0, <2>1
    <3> QED
      BY <1>0, <3>1, <3>2
  <2>2. CASE ~(at[s] < Len(Models))
    <3>1. at' = [at EXCEPT ![s] = 1] /\ StepTo(s, last)
      BY <1>n, <2>2 DEF Proceed
    <3> QED
      BY <1>0, <3>1
  <2> QED
    BY <2>1, <2>2
<1> USE <1>0, EmptyIsDir DEF ProcessTypeOK, Resolving, StepTo, registry, disk
<1>1. ASSUME NEW l \in {"off", "failed"}, Stop(s, l) PROVE ProcessTypeOK'
  <2>1. [m \in Specs |-> Empty] \in [Specs -> Dir]
    OBVIOUS
  <2> QED
    BY <1>1, <2>1 DEF Stop
<1>2. CASE Boot(s) \/ TestExists(s) \/ StartupFails(s) \/ Crash(s)
  BY <1>1, <1>2 DEF Boot, TestExists, StartupFails, Crash
<1>3. CASE Lookup(s) \/ VerifyStaging(s) \/ VerifyDest(s)
  BY <1>1, <1>3 DEF Lookup, VerifyStaging, VerifyDest, Fail
<1>4. CASE CheckCache(s)
  <2>1. CASE Resolved(s) /\ UNCHANGED staging
    <3>1. PICK l \in {"lookup", "verify"} : phase' = [phase EXCEPT ![s] = l]
      BY <1>n, <2>1 DEF Resolved
    <3>2. at' \in [Starters -> 1 .. Len(Models)]
      BY <1>n, <2>1 DEF Resolved
    <3> QED
      BY <1>4, <2>1, <3>1, <3>2 DEF CheckCache
  <2>2. CASE ~(Resolved(s) /\ UNCHANGED staging)
    BY <1>4, <2>2 DEF CheckCache
  <2> QED
    BY <2>1, <2>2
<1>5. CASE DownloadManifest(s)
  <2>1. CASE Fail(s)
    BY <1>1, <2>1 DEF Fail
  <2>2. CASE ~Fail(s)
    <3>1. staging[s] \in Dir /\ phase[s] = "manifest"
      BY <1>5 DEF DownloadManifest
    <3>2. [staging[s] EXCEPT ![Manifest] = objects[Model(s)][Manifest]] \in Dir \ {NoDir}
      BY <3>1, EntryInDir
    <3>3. /\ phase' = [phase EXCEPT ![s] = "files"]
          /\ staging' = [staging EXCEPT ![s][Manifest] = objects[Model(s)][Manifest]]
          /\ UNCHANGED <<dest, todo, at, memory>>
      BY <1>5, <2>2 DEF DownloadManifest
    <3> QED
      BY <3>1, <3>2, <3>3
  <2> QED
    BY <2>1, <2>2
<1>6. ASSUME NEW f \in Files, DownloadFile(s, f) PROVE ProcessTypeOK'
  <2>1. CASE Fail(s)
    BY <1>1, <2>1 DEF Fail
  <2>2. CASE ~Fail(s)
    <3>1. staging[s] \in Dir /\ phase[s] = "files" /\ f \in Names
      BY <1>6, CacheConstants DEF DownloadFile
    <3>2. [staging[s] EXCEPT ![f] = objects[Model(s)][f]] \in Dir \ {NoDir}
      BY <3>1, EntryInDir
    <3> QED
      BY <1>6, <2>2, <3>1, <3>2 DEF DownloadFile
  <2> QED
    BY <2>1, <2>2
<1>7. CASE ListDest(s)
  BY <1>1, <1>7 DEF ListDest, Fail
<1>8. ASSUME NEW f \in Names, RemoveEntry(s, f) PROVE ProcessTypeOK'
  <2>1. CASE Fail(s)
    BY <1>1, <2>1 DEF Fail
  <2>2. CASE ~Fail(s)
    <3>1. dest' \in [Specs -> Dir \cup {NoDir}]
      <4>1. CASE dest' = dest
        BY <4>1
      <4>2. CASE Holds(s, f) /\ dest' = [dest EXCEPT ![Model(s)][f] = Absent]
        <5>1. [dest[Model(s)] EXCEPT ![f] = Absent] \in Dir
          BY <4>2, EntryInDir DEF Holds, Cached
        <5> QED
          BY <4>2, <5>1
      <4> QED
        BY <1>8, <2>2, <4>1, <4>2 DEF RemoveEntry
    <3> QED
      BY <1>8, <2>2, <3>1 DEF RemoveEntry
  <2> QED
    BY <2>1, <2>2
<1>9. CASE RemoveDir(s)
  BY <1>1, <1>9 DEF RemoveDir, Fail
<1>10. CASE Install(s)
  <2>1. CASE Fail(s)
    BY <1>1, <2>1 DEF Fail
  <2>2. CASE ~Fail(s)
    <3>1. /\ dest' = [dest EXCEPT ![Model(s)] = staging[s]]
          /\ staging' = [staging EXCEPT ![s] = NoDir]
          /\ Resolved(s)
          /\ UNCHANGED <<todo, memory>>
      BY <1>10, <2>2 DEF Install
    <3>2. PICK l \in {"lookup", "verify"} : phase' = [phase EXCEPT ![s] = l]
      BY <1>n, <3>1 DEF Resolved
    <3>3. at' \in [Starters -> 1 .. Len(Models)]
      BY <1>n, <3>1 DEF Resolved
    <3> QED
      BY <3>1, <3>2, <3>3
  <2> QED
    BY <2>1, <2>2
<1>11. ASSUME NEW f \in Names, LoadFile(s, f) PROVE ProcessTypeOK'
  <2>1. CASE Fail(s)
    BY <1>1, <2>1 DEF Fail
  <2>2. CASE ~Fail(s)
    <3>1. [memory[s][Model(s)] EXCEPT ![f] = Cached(s)[f]] \in Dir
      BY <1>11, <2>2, EntryInDir DEF LoadFile, Holds, Cached, Dir
    <3>2. [memory[s] EXCEPT ![Model(s)] = [memory[s][Model(s)] EXCEPT ![f] = Cached(s)[f]]]
            \in [Specs -> Dir]
      BY <3>1
    <3> QED
      BY <1>11, <2>2, <3>2 DEF LoadFile
  <2> QED
    BY <2>1, <2>2
<1>12. CASE FinishLoad(s)
  <2>1. PICK l \in {"verify", "serving"} : phase' = [phase EXCEPT ![s] = l]
    BY <1>n, <1>12 DEF FinishLoad
  <2>2. at' \in [Starters -> 1 .. Len(Models)]
    BY <1>n, <1>12 DEF FinishLoad
  <2> QED
    BY <1>12, <2>1, <2>2 DEF FinishLoad
<1> QED
  BY <1>2, <1>3, <1>4, <1>5, <1>6, <1>7, <1>8, <1>9, <1>10, <1>11, <1>12 DEF Moves, Startup

\* Types are kept.
LEMMA CacheTypeStep ==
  ASSUME CacheTypeOK, NEW s \in Starters, Moves(s)
  PROVE  CacheTypeOK'
<1> DEFINE Labels == {"off", "lookup", "check", "manifest", "files", "exists", "list", "remove",
                      "install", "verify", "load", "serving", "failed"}
<1> USE DEF Moves, Startup, Boot, Lookup, CheckCache, DownloadManifest, DownloadFile,
     VerifyStaging, TestExists, ListDest, RemoveEntry, RemoveDir, Install, VerifyDest, LoadFile,
     FinishLoad, StartupFails, Crash, StepTo, Stop, Fail, Proceed, Resolved, registry, disk
<1>1. /\ objects' \in [Specs -> [Names -> Contents \cup {Absent}]]
      /\ rows' \in [Specs -> Contents \cup {Absent}]
      /\ sharers' \subseteq Starters
  BY DirKinds DEF CacheTypeOK
<1>2. detached' \subseteq Starters
  BY DEF CacheTypeOK, Removing
<1>3. phase' \in [Starters -> Labels]
  BY DEF CacheTypeOK
<1>4. crashes' \in 0 .. MaxCrashes
  BY CacheAssumption, ArtifactAssumption DEF CacheTypeOK
<1>5. ProcessTypeOK'
  BY ProcessTypeStep
<1> QED
  BY <1>1, <1>2, <1>3, <1>4, <1>5 DEF CacheTypeOK, ProcessTypeOK, Resolving

-----------------------------------------------------------------------------
(* The bytes                                                                  *)

\* A clean directory stays clean, whoever removes or renames there.
LEMMA CleanStays ==
  ASSUME CacheTypeOK, StagingInv, NEW s \in Starters, Moves(s)
  PROVE  /\ \A m \in Specs : Clean(m) => Clean(m)'
         /\ Installs(s) => \A m \in Specs : m = Model(s) => Clean(m)'
<1>r. \A m \in Specs, f \in Names : \A c : Own(m, f, c)' <=> Own(m, f, c)
  BY DirKinds DEF registry, Own
<1>p. Model(s) \in Specs
  BY CachePosition
<1>1. ASSUME Installs(s)
      PROVE  \A f \in Names : Own(Model(s), f, dest'[Model(s)][f])
  <2>1. Verified(staging[s]) /\ staging[s][Manifest] = rows[Model(s)]
    BY <1>1 DEF Installs, StagingInv, Resolving, Row
  <2>2. dest'[Model(s)] = staging[s]
    BY <1>p, <1>1 DEF Installs, CacheTypeOK
  <2> QED
    BY <1>p, <2>1, <2>2, VerifiedIsOwn
<1>2. ASSUME NEW m \in Specs, Clean(m), dest'[m] # NoDir, NEW f \in Names, dest'[m][f] # Absent
      PROVE  Own(m, f, dest'[m][f])
  <2>1. CASE dest'[m] = dest[m]
    BY <1>2, <2>1 DEF Clean
  <2>2. CASE Installs(s)
    BY <1>1, <1>2, <1>p, <2>1, <2>2 DEF Installs, CacheTypeOK
  <2>3. CASE Removes(s)
    <3>1. CASE dest' = [dest EXCEPT ![Model(s)] = NoDir]
      BY <1>2, <1>p, <2>1, <3>1 DEF CacheTypeOK
    <3>2. ASSUME NEW g \in Names, dest' = [dest EXCEPT ![Model(s)][g] = Absent]
          PROVE  Own(m, f, dest'[m][f])
      <4>1. dest[Model(s)] \in Dir
        BY <1>p, <2>3, CachePosition DEF Removes, Cached
      <4>2. dest'[m][f] = dest[m][f] /\ dest[m] # NoDir
        BY <1>2, <1>p, <2>1, <3>2, <4>1, CacheAssumption, ArtifactAssumption DEF CacheTypeOK, Dir
      <4> QED
        BY <1>2, <4>2 DEF Clean
    <3> QED
      BY <2>3, <3>1, <3>2 DEF Removes
  <2> QED
    BY <2>1, <2>2, <2>3, DirKinds
<1>3. \A m \in Specs : Clean(m) => Clean(m)'
  BY <1>r, <1>2 DEF Clean
<1>4. Installs(s) => \A m \in Specs : m = Model(s) => Clean(m)'
  BY <1>r, <1>1 DEF Clean
<1> QED
  BY <1>3, <1>4

LEMMA BytesStep ==
  ASSUME CacheTypeOK, BytesInv, NEW s \in Starters, Moves(s)
  PROVE  BytesInv'
<1>r. UNCHANGED <<objects, rows>>
  BY DirKinds DEF registry
<1>p. Model(s) \in Specs /\ at[s] \in 1 .. Len(Models) /\ Len(Models) \in Nat \ {0}
  BY CachePosition, CacheConstants
<1>1. DirectoryInv'
  <2> SUFFICES ASSUME NEW m \in Specs, dest'[m] # NoDir
               PROVE  /\ rows[m] # Absent
                      /\ \A f \in Names : dest'[m][f] \in {Absent, Bad} \/ Own(m, f, dest'[m][f])
    BY <1>r DEF DirectoryInv, Own
  <2>1. CASE Installs(s) /\ m = Model(s)
    <3>1. Clean(m)'
      BY <2>1, CleanStays DEF BytesInv
    <3>2. rows[m] # Absent
      BY <2>1 DEF BytesInv, Installs, LookedUpInv, Resolving, Row
    <3> QED
      BY <1>r, <3>1, <3>2 DEF Clean, Own
  <2>2. CASE dest'[m] = dest[m]
    BY <2>2 DEF BytesInv, DirectoryInv
  <2>3. CASE Removes(s) /\ m = Model(s)
    <3>1. dest[m] \in Dir /\ dest[m] # NoDir
      BY <2>3, CachePosition DEF Removes, Cached
    <3>2. PICK g \in Names : dest' = [dest EXCEPT ![m][g] = Absent]
      BY <2>3 DEF Removes, CacheTypeOK
    <3>3. \A f \in Names : dest'[m][f] = IF f = g THEN Absent ELSE dest[m][f]
      BY <3>1, <3>2 DEF CacheTypeOK, Dir
    <3> QED
      BY <3>1, <3>3 DEF BytesInv, DirectoryInv
  <2> QED
    BY <1>p, <2>1, <2>2, <2>3, DirKinds DEF Removes, Installs, CacheTypeOK
<1>2. LookedUpInv'
  <2>1. phase'[s] \in Resolving \cup {"check"} =>
          /\ at'[s] = at[s]
          /\ phase[s] \in Resolving \cup {"check"} \/ Row(s) # Absent
    BY <1>p DEF Moves, Startup, Boot, Lookup, CheckCache, DownloadManifest, DownloadFile,
       VerifyStaging, TestExists, ListDest, RemoveEntry, RemoveDir, Install, VerifyDest, LoadFile,
       FinishLoad, StartupFails, Crash, StepTo, Stop, Fail, Proceed, Resolved, registry, disk,
       CacheTypeOK, Resolving
  <2> QED
    BY <1>r, <2>1, OtherProcesses DEF BytesInv, LookedUpInv, Row, Model
<1>3. StagingInv'
  <2>1. /\ phase'[s] \in Resolving \ {"manifest"} => staging'[s][Manifest] = Row(s)'
        /\ phase'[s] \in Resolving \ {"manifest", "files"} => Verified(staging'[s])
    <3> USE <1>r, <1>p DEF Resolving, Row, Model
    <3>1. ASSUME NEW l \in {"off", "failed"}, Stop(s, l) PROVE phase'[s] \notin Resolving
      BY <3>1 DEF Stop, StepTo, CacheTypeOK
    <3>2. CASE Resolved(s)
      BY <3>2 DEF Resolved, Proceed, StepTo, CacheTypeOK
    <3>3. CASE DownloadManifest(s)
      BY <3>1, <3>3, CacheConstants DEF DownloadManifest, Fail, StepTo, CacheTypeOK, Dir
    <3>4. ASSUME NEW f \in Files, DownloadFile(s, f)
          PROVE  /\ phase'[s] \in {"files"} \/ phase'[s] \notin Resolving
                 /\ phase'[s] = "files" => staging'[s][Manifest] = Row(s)'
      <4>1. CASE Fail(s)
        BY <3>1, <4>1 DEF Fail
      <4>2. CASE ~Fail(s)
        <5>1. /\ phase[s] = "files" /\ UNCHANGED <<phase, at>>
              /\ staging' = [staging EXCEPT ![s][f] = objects[Model(s)][f]]
              /\ f # Manifest
          BY <3>4, <4>2, CacheAssumption, ArtifactAssumption DEF DownloadFile
        <5>2. staging'[s][Manifest] = staging[s][Manifest]
          BY <5>1 DEF CacheTypeOK
        <5> QED
          BY <5>1, <5>2 DEF BytesInv, StagingInv
      <4> QED
        BY <4>1, <4>2
    <3>5. CASE VerifyStaging(s)
      BY <3>1, <3>5 DEF VerifyStaging, Fail, StepTo, CacheTypeOK, BytesInv, StagingInv, disk
    <3>6. CASE ~(\/ \E f \in Files : DownloadFile(s, f)
                 \/ DownloadManifest(s)
                 \/ VerifyStaging(s)
                 \/ Resolved(s))
      <4>1. phase'[s] \in Resolving \ {"manifest"} =>
              /\ phase[s] \in {"exists", "list", "remove"} /\ UNCHANGED <<staging, at>>
              /\ phase'[s] \notin {"manifest", "files"}
        BY <3>6 DEF Moves, Startup, Boot, Lookup, CheckCache, TestExists, ListDest, RemoveEntry,
           RemoveDir, Install, VerifyDest, LoadFile, FinishLoad, StartupFails, Crash, StepTo, Stop,
           Fail, Proceed, registry, disk, CacheTypeOK
      <4> QED
        BY <4>1 DEF BytesInv, StagingInv
    <3> QED
      BY <3>2, <3>3, <3>4, <3>5, <3>6
  <2> QED
    BY <1>r, <2>1, OtherProcesses DEF BytesInv, StagingInv, Row, Model
<1>4. ReadInv'
  <2>1. phase'[s] = "load" => /\ at'[s] = at[s]
                              /\ phase[s] = "load" \/ Verified(Cached(s))
    BY <1>p DEF Moves, Startup, Boot, Lookup, CheckCache, DownloadManifest, DownloadFile,
       VerifyStaging, TestExists, ListDest, RemoveEntry, RemoveDir, Install, VerifyDest, LoadFile,
       FinishLoad, StartupFails, Crash, StepTo, Stop, Fail, Proceed, Resolved, registry, disk,
       CacheTypeOK
  <2>2. phase'[s] = "load" => Clean(Model(s))
    BY <1>p, <2>1, VerifiedIsValid DEF BytesInv, ReadInv, Cached
  <2> SUFFICES ASSUME NEW t \in Starters, phase'[t] = "load"
               PROVE  \E m \in Specs : m = Model(t)' /\ Clean(m)'
    BY DEF ReadInv
  <2>3. Model(t)' = Model(t) /\ Clean(Model(t))
    BY <2>1, <2>2, OtherProcesses DEF BytesInv, ReadInv, Model
  <2>4. Model(t) \in Specs
    BY CachePosition
  <2> QED
    BY <2>3, <2>4, CleanStays DEF BytesInv
<1>5. MemoryInv'
  <2> SUFFICES ASSUME NEW t \in Starters, NEW m \in Specs, NEW f \in Names,
                      memory'[t][m][f] # Absent
               PROVE  Own(m, f, memory'[t][m][f])
    BY <1>r DEF MemoryInv, Own
  <2>1. CASE memory'[t] = memory[t]
    BY <2>1 DEF BytesInv, MemoryInv
  <2>2. CASE t = s /\ memory' = [memory EXCEPT ![s] = [n \in Specs |-> Empty]]
    BY <2>2 DEF CacheTypeOK, Empty
  <2>3. ASSUME t = s, NEW g \in Names, LoadFile(s, g), ~Fail(s)
        PROVE  Own(m, f, memory'[t][m][f])
    <3>1. /\ phase[s] = "load" /\ Holds(s, g)
          /\ memory' = [memory EXCEPT ![s][Model(s)][g] = Cached(s)[g]]
      BY <2>3 DEF LoadFile
    <3>2. Own(Model(s), g, Cached(s)[g])
      BY <1>p, <3>1 DEF BytesInv, ReadInv, Clean, Cached, Holds
    <3>3. CASE m = Model(s) /\ f = g
      BY <2>3, <3>1, <3>2, <3>3 DEF CacheTypeOK, Dir
    <3>4. CASE ~(m = Model(s) /\ f = g)
      <4>1. memory'[t][m][f] = memory[t][m][f]
        BY <2>3, <1>p, <3>1, <3>4 DEF CacheTypeOK, Dir
      <4> QED
        BY <4>1 DEF BytesInv, MemoryInv
    <3> QED
      BY <3>3, <3>4
  <2>4. CASE t = s
    BY <2>1, <2>2, <2>3, <2>4 DEF Moves, Startup, Boot, Lookup, CheckCache, DownloadManifest,
       DownloadFile, VerifyStaging, TestExists, ListDest, RemoveEntry, RemoveDir, Install,
       VerifyDest, LoadFile, FinishLoad, StartupFails, Crash, Stop, Fail
  <2> QED
    BY <2>1, <2>4, OtherProcesses
<1>6. LoadedInv'
  <2>1. /\ phase'[s] \in Loading =>
             \A i \in 1 .. at'[s] - 1 : \A f \in Names : memory'[s][Models[i]][f] # Absent
        /\ phase'[s] = "serving" => \A m \in Specs : \A f \in Names : memory'[s][m][f] # Absent
    <3> USE <1>p DEF Loading
    <3>1. CASE FinishLoad(s)
      <4>1. \A f \in Names : memory[s][Model(s)][f] # Absent
        BY <3>1 DEF FinishLoad
      <4>2. \A i \in 1 .. at[s] : \A f \in Names : memory[s][Models[i]][f] # Absent
        BY <4>1, <3>1 DEF FinishLoad, BytesInv, LoadedInv, Model
      <4>3. CASE at[s] < Len(Models)
        <5>1. at'[s] - 1 = at[s] /\ phase'[s] = "verify" /\ UNCHANGED memory
          BY <3>1, <4>3 DEF FinishLoad, Proceed, StepTo, CacheTypeOK
        <5> QED
          BY <4>2, <5>1
      <4>4. CASE ~(at[s] < Len(Models))
        <5>1. at[s] = Len(Models) /\ phase'[s] = "serving" /\ UNCHANGED memory
          BY <3>1, <4>4 DEF FinishLoad, Proceed, StepTo, CacheTypeOK
        <5>2. \A m \in Specs : \A f \in Names : memory[s][m][f] # Absent
          BY <4>2, <5>1, CacheConstants
        <5> QED
          BY <5>1, <5>2
      <4> QED
        BY <4>3, <4>4
    <3>2. ASSUME NEW g \in Names, LoadFile(s, g), ~Fail(s)
          PROVE  /\ phase[s] = "load" /\ phase'[s] = "load" /\ at'[s] = at[s]
                 /\ \A m \in Specs : \A f \in Names :
                      memory[s][m][f] # Absent => memory'[s][m][f] # Absent
      <4>1. /\ phase[s] = "load" /\ UNCHANGED <<phase, at>>
            /\ Cached(s)[g] # Absent
            /\ memory' = [memory EXCEPT ![s][Model(s)][g] = Cached(s)[g]]
        BY <3>2 DEF LoadFile, Holds
      <4>2. memory \in [Starters -> [Specs -> [Names -> Contents \cup {Bad, Absent}]]]
        BY DEF CacheTypeOK, Dir
      <4> QED
        BY <4>1, <4>2
    <3>3. CASE VerifyDest(s) /\ ~Fail(s)
      BY <3>3 DEF VerifyDest, StepTo, CacheTypeOK, BytesInv, LoadedInv
    <3>4. CASE Resolved(s)
      BY <3>4 DEF Resolved, Proceed, StepTo, CacheTypeOK
    <3>5. CASE phase'[s] \notin Loading \cup {"serving"}
      BY <3>5
    <3>6. phase'[s] \in Loading \cup {"serving"} =>
            \/ FinishLoad(s)
            \/ Resolved(s)
            \/ VerifyDest(s) /\ ~Fail(s)
            \/ \E g \in Names : LoadFile(s, g) /\ ~Fail(s)
      BY DEF Moves, Startup, Boot, Lookup, CheckCache, DownloadManifest, DownloadFile,
         VerifyStaging, TestExists, ListDest, RemoveEntry, RemoveDir, Install, VerifyDest,
         LoadFile, StartupFails, Crash, StepTo, Stop, Fail, registry, disk, CacheTypeOK
    <3>7. ASSUME NEW g \in Names, LoadFile(s, g), ~Fail(s)
          PROVE  \A i \in 1 .. at'[s] - 1 : \A f \in Names : memory'[s][Models[i]][f] # Absent
      <4>1. phase[s] = "load" /\ at'[s] = at[s]
        BY <3>2, <3>7
      <4>2. \A i \in 1 .. at[s] - 1 : i \in 1 .. Len(Models) /\ Models[i] \in Specs
        <5>1. \A i \in 1 .. at[s] - 1 : i \in 1 .. Len(Models)
          BY <1>p
        <5> QED
          BY <5>1, CacheConstants
      <4>3. \A i \in 1 .. at[s] - 1 : \A f \in Names : memory[s][Models[i]][f] # Absent
        BY <4>1 DEF BytesInv, LoadedInv
      <4> QED
        BY <3>2, <3>7, <4>1, <4>2, <4>3
    <3> QED
      BY <3>1, <3>2, <3>3, <3>4, <3>5, <3>6, <3>7
  <2> QED
    BY <2>1, OtherProcesses DEF BytesInv, LoadedInv
<1> QED
  BY <1>1, <1>2, <1>3, <1>4, <1>5, <1>6 DEF BytesInv

-----------------------------------------------------------------------------
(* A cache without other users                                                *)

\* Where a step takes a process.
LEMMA MoveKinds ==
  ASSUME CacheTypeOK, NEW s \in Starters, Moves(s)
  PROVE  \/ phase'[s] \in {"off", "failed"} /\ at'[s] = 1
         \/ phase[s] \in {"off", "failed"} /\ phase'[s] = "lookup" /\ at'[s] = at[s]
         \/ /\ phase[s] \in Resolving \cup Checking /\ phase'[s] \in Resolving \cup Checking
            /\ at'[s] = at[s]
            /\ phase[s] \in Resolving \/ phase'[s] \notin Resolving \/ ~CacheIsValid(Model(s))
            /\ phase[s] \in Checking => UNCHANGED dest
            /\ phase[s] \in Resolving => phase'[s] \in Resolving /\ ~Installs(s)
         \/ /\ phase[s] \in Resolving \cup Checking
            /\ Resolved(s)
            /\ \/ CacheIsValid(Model(s)) /\ UNCHANGED dest
               \/ Installs(s)
         \/ /\ phase[s] \in Loading \cup {"serving"} /\ phase'[s] \in Loading \cup {"serving"}
            /\ UNCHANGED dest
<1> USE CachePosition DEF CacheTypeOK, StepTo, registry, disk, Resolving, Checking, Loading
<1>1. ASSUME NEW l \in {"off", "failed"}, Stop(s, l) PROVE phase'[s] \in {"off", "failed"} /\ at'[s] = 1
  BY <1>1 DEF Stop
<1>2. CASE Boot(s) \/ Lookup(s) \/ StartupFails(s) \/ Crash(s)
  BY <1>1, <1>2 DEF Boot, Lookup, StartupFails, Crash, Fail
<1>3. CASE CheckCache(s)
  BY <1>3 DEF CheckCache
<1>4. CASE \/ DownloadManifest(s) \/ (\E f \in Files : DownloadFile(s, f)) \/ VerifyStaging(s)
           \/ TestExists(s) \/ ListDest(s)
  BY <1>1, <1>4 DEF DownloadManifest, DownloadFile, VerifyStaging, TestExists, ListDest, Fail,
     Installs
<1>5. CASE (\E f \in Names : RemoveEntry(s, f)) \/ RemoveDir(s)
  BY <1>1, <1>5 DEF RemoveEntry, RemoveDir, Fail, Installs
<1>6. CASE Install(s)
  BY <1>1, <1>6 DEF Install, Fail, Installs
<1>7. CASE VerifyDest(s) \/ (\E f \in Names : LoadFile(s, f)) \/ FinishLoad(s)
  BY <1>1, <1>7 DEF VerifyDest, LoadFile, FinishLoad, Proceed, Fail
<1> QED
  BY <1>2, <1>3, <1>4, <1>5, <1>6, <1>7 DEF Moves, Startup

LEMMA DeploymentStep ==
  ASSUME CacheTypeOK, DeploymentInv, NEW s \in sharers, Moves(s)
  PROVE  DeploymentInv'
<1>1. s \in Starters /\ sharers' = sharers
  BY DirKinds DEF CacheTypeOK, registry
<1>2. phase'[s] \in {"off", "failed"} => at'[s] = 1
  BY <1>1, MoveKinds DEF Resolved, Proceed, StepTo, CacheTypeOK, Resolving, Checking, Loading
<1> QED
  BY <1>1, <1>2, OtherProcesses DEF DeploymentInv

LEMMA CachedStep ==
  ASSUME CacheTypeOK, BytesInv, DeploymentInv, CachedInv, NEW s \in sharers, Moves(s)
  PROVE  CachedInv'
<1>0. /\ s \in Starters /\ sharers' = sharers /\ rows' = rows
      /\ Model(s) \in Specs /\ at[s] \in 1 .. Len(Models) /\ Len(Models) \in Nat \ {0}
      /\ CacheTypeOK'
  BY DirKinds, CachePosition, CacheConstants, CacheTypeStep DEF CacheTypeOK, registry
<1> SUFFICES ASSUME Alone PROVE CachedInv'
  BY <1>0 DEF CachedInv, Alone
<1>1. sharers = {s}
  <2>1. IsFiniteSet(sharers)
    BY FS_Subset, CacheAssumption, ArtifactAssumption DEF CacheTypeOK
  <2>2. PICK t : sharers = {t}
    BY <2>1, FS_Singleton DEF Alone
  <2> QED
    BY <2>2
<1>2. ASSUME NEW m \in Specs, CacheIsValid(m) PROVE CacheIsValid(m)'
  <2>1. CASE dest'[m] = dest[m]
    BY <1>0, <1>2, <2>1 DEF CacheIsValid, Verified
  <2>2. CASE dest'[m] # dest[m]
    <3>1. m = Model(s) /\ phase[s] \in Resolving
      BY <1>0, <2>2, DirKinds DEF Removes, Installs, Resolving, CacheTypeOK
    <3> QED
      BY <1>2, <3>1 DEF CachedInv
  <2> QED
    BY <2>1, <2>2
<1>3. ASSUME Installs(s), NEW m \in Specs, m = Model(s) PROVE CacheIsValid(m)'
  <2>1. Verified(staging[s]) /\ staging[s][Manifest] = rows[m]
    BY <1>0, <1>3 DEF BytesInv, StagingInv, Installs, Resolving, Row
  <2>2. dest'[m] = staging[s]
    BY <1>0, <1>3 DEF Installs, CacheTypeOK
  <2> QED
    BY <1>0, <2>1, <2>2, VerifiedIsWhole DEF CacheIsValid, Verified
<1>4. ASSUME Removes(s), NEW m \in Specs, m = Model(s) PROVE ~CacheIsValid(m)'
  <2>1. dest[m] \in Dir /\ dest[m] # NoDir
    BY <1>0, <1>4, CachePosition DEF Removes, Cached
  <2>2. CASE dest' = [dest EXCEPT ![Model(s)] = NoDir]
    BY <1>0, <1>4, <2>2 DEF CacheIsValid, CacheTypeOK
  <2>3. ASSUME NEW f \in Names, dest' = [dest EXCEPT ![Model(s)][f] = Absent]
        PROVE  ~CacheIsValid(m)'
    <3>1. dest'[m][f] = Absent
      BY <1>0, <1>4, <2>1, <2>3 DEF CacheTypeOK, Dir
    <3> QED
      BY <3>1, CacheDigests DEF CacheIsValid, Verified
  <2> QED
    BY <1>4, <2>2, <2>3 DEF Removes
<1>5. phase'[s] \in Resolving \cup Checking => \A i \in 1 .. at'[s] - 1 : CacheIsValid(Models[i])'
  <2> SUFFICES ASSUME phase'[s] \in Resolving \cup Checking, NEW i \in 1 .. at'[s] - 1
               PROVE  CacheIsValid(Models[i])'
    OBVIOUS
  <2>0. at'[s] \in 1 .. Len(Models) /\ Models[i] \in Specs
    BY <1>0, CacheConstants DEF CacheTypeOK
  <2>1. ASSUME phase[s] \in Resolving \cup Checking, i \in 1 .. at[s] - 1
        PROVE  CacheIsValid(Models[i])'
    BY <1>2, <2>0, <2>1 DEF CachedInv
  <2>2. CASE Resolved(s) /\ phase[s] \in Resolving \cup Checking
    <3>1. at'[s] = at[s] + 1
      BY <1>0, <2>2 DEF Resolved, Proceed, StepTo, CacheTypeOK, Resolving, Checking
    <3>2. CASE i = at[s]
      <4>1. Models[i] = Model(s)
        BY <3>2 DEF Model
      <4>2. CASE CacheIsValid(Model(s))
        BY <1>2, <2>0, <4>1, <4>2
      <4>3. CASE Installs(s)
        BY <1>3, <2>0, <4>1, <4>3
      <4>4. CacheIsValid(Model(s)) \/ Installs(s)
        BY <1>0, <2>2, <3>1, MoveKinds DEF Resolving, Checking, Loading
      <4> QED
        BY <4>2, <4>3, <4>4
    <3>3. CASE i # at[s]
      <4>1. i \in 1 .. at[s] - 1
        BY <1>0, <3>1, <3>3
      <4> QED
        BY <2>1, <2>2, <4>1
    <3> QED
      BY <3>2, <3>3
  <2>3. CASE ~(Resolved(s) /\ phase[s] \in Resolving \cup Checking)
    <3>1. CASE phase[s] \in Resolving \cup Checking
      BY <1>0, <2>1, <2>3, <3>1, MoveKinds DEF Resolving, Checking, Loading
    <3>2. CASE phase[s] \notin Resolving \cup Checking
      <4>1. at'[s] = 1
        BY <1>0, <3>2, MoveKinds DEF DeploymentInv, Resolving, Checking, Loading
      <4> QED
        BY <4>1
    <3> QED
      BY <3>1, <3>2
  <2> QED
    BY <2>2, <2>3
<1>6. phase'[s] \in Resolving => \A m \in Specs : m = Model(s)' => ~CacheIsValid(m)'
  <2> SUFFICES ASSUME phase'[s] \in Resolving, NEW m \in Specs, m = Model(s)'
               PROVE  ~CacheIsValid(m)'
    OBVIOUS
  <2>1. /\ at'[s] = at[s]
        /\ ~Installs(s)
        /\ phase[s] \in Resolving \/ (~CacheIsValid(Model(s)) /\ UNCHANGED dest)
    BY <1>0, MoveKinds
    DEF Resolving, Checking, Loading, Resolved, Proceed, StepTo, CacheTypeOK, Installs
  <2>2. m = Model(s) /\ ~CacheIsValid(m)
    BY <2>1 DEF Model, CachedInv
  <2>3. CASE UNCHANGED dest
    BY <1>0, <2>2, <2>3 DEF CacheIsValid, Verified
  <2> QED
    BY <1>0, <1>4, <2>1, <2>2, <2>3, DirKinds
<1>7. phase'[s] \in Loading \cup {"serving"} => \A m \in Specs : CacheIsValid(m)'
  <2> SUFFICES ASSUME phase'[s] \in Loading \cup {"serving"}, NEW m \in Specs
               PROVE  CacheIsValid(m)'
    OBVIOUS
  <2>1. CASE phase[s] \in Loading \cup {"serving"}
    BY <1>2, <2>1 DEF CachedInv
  <2>2. CASE phase[s] \notin Loading \cup {"serving"}
    <3>1. /\ phase[s] \in Resolving \cup Checking
          /\ Resolved(s)
          /\ CacheIsValid(Model(s)) \/ Installs(s)
      BY <1>0, <2>2, MoveKinds DEF Resolving, Checking, Loading
    <3>2. at[s] = Len(Models)
      BY <1>0, <3>1 DEF Resolved, Proceed, StepTo, CacheTypeOK, Loading
    <3>3. PICK i \in 1 .. Len(Models) : m = Models[i]
      BY CacheConstants
    <3>4. CASE i = at[s]
      BY <1>2, <1>3, <3>1, <3>3, <3>4 DEF Model
    <3>5. CASE i # at[s]
      <4>1. i \in 1 .. at[s] - 1
        BY <1>0, <3>2, <3>5
      <4> QED
        BY <1>2, <3>1, <3>3, <4>1 DEF CachedInv
    <3> QED
      BY <3>4, <3>5
  <2> QED
    BY <2>1, <2>2
<1>8. Model(s)' \in Specs
  BY <1>0, CacheConstants DEF CacheTypeOK, Model
<1> QED
  BY <1>0, <1>1, <1>5, <1>6, <1>7, <1>8 DEF CachedInv

-----------------------------------------------------------------------------
(* The theorems                                                               *)

\* A startup keeps the invariant.
LEMMA StartupStep ==
  ASSUME CacheInv, NEW s \in sharers, Moves(s)
  PROVE  CacheInv'
<1>1. s \in Starters
  BY DEF CacheInv, CacheTypeOK
<1> QED
  BY <1>1, CacheTypeStep, BytesStep, DeploymentStep, CachedStep DEF CacheInv

\* So does whatever happens to the store, as long as a registered row is final:
\* uploads go on while processes start.
LEMMA UploadStep ==
  ASSUME CacheInv,
         objects' \in [Specs -> [Names -> Contents \cup {Absent}]],
         rows' \in [Specs -> Contents \cup {Absent}],
         \A m \in Specs : rows[m] # Absent => rows'[m] = rows[m],
         UNCHANGED <<sharers, disk, phase, at, memory, crashes>>
  PROVE  CacheInv'
<1> USE DEF disk
<1>1. CacheTypeOK'
  BY DEF CacheInv, CacheTypeOK
<1>2. ASSUME NEW m \in Specs, NEW f \in Names, NEW c, Own(m, f, c) PROVE Own(m, f, c)'
  BY <1>2, OwnIsUnique DEF Own
<1>3. \A m \in Specs : dest[m] # NoDir => rows'[m] = rows[m]
  BY DEF CacheInv, BytesInv, DirectoryInv
<1>4. BytesInv'
  <2>1. DirectoryInv'
    BY <1>2, <1>3 DEF CacheInv, BytesInv, DirectoryInv
  <2>2. \A s \in Starters : Row(s) # Absent => Row(s)' = Row(s)
    BY CachePosition DEF CacheInv, Row, Model
  <2>3. LookedUpInv' /\ StagingInv'
    BY <2>2 DEF CacheInv, BytesInv, LookedUpInv, StagingInv, Verified, Resolving
  <2>4. \A m \in Specs : Clean(m) => Clean(m)'
    BY <1>2 DEF Clean
  <2>5. ReadInv'
    BY <2>4, CachePosition DEF CacheInv, BytesInv, ReadInv, Clean, Model
  <2>6. MemoryInv' /\ LoadedInv'
    BY <1>2 DEF CacheInv, BytesInv, MemoryInv, LoadedInv
  <2> QED
    BY <2>1, <2>3, <2>5, <2>6 DEF BytesInv
<1>5. DeploymentInv'
  BY DEF CacheInv, DeploymentInv
<1>6. CachedInv'
  <2>1. \A m \in Specs : CacheIsValid(m)' <=> CacheIsValid(m)
    BY <1>3 DEF CacheIsValid, Verified
  <2>2. \A s \in sharers : /\ Model(s) \in Specs /\ Model(s)' = Model(s)
                           /\ \A i \in 1 .. at[s] - 1 : Models[i] \in Specs
    BY CachePosition, CacheConstants DEF CacheInv, CacheTypeOK, Model
  <2> QED
    BY <2>1, <2>2 DEF CacheInv, CachedInv, Alone
<1> QED
  BY <1>1, <1>4, <1>5, <1>6 DEF CacheInv

LEMMA CacheInitially == CacheInit => CacheInv
<1> SUFFICES ASSUME CacheInit PROVE CacheInv
  OBVIOUS
<1>1. CacheTypeOK
  <2>1. objects \in [Specs -> [Names -> Contents \cup {Absent}]]
    BY DEF CacheInit, Uploaded
  <2>2. rows \in [Specs -> Contents \cup {Absent}]
    BY CacheConstants, CacheDigests DEF CacheInit
  <2>3. dest \in [Specs -> Dir \cup {NoDir}]
    BY DEF CacheInit, Leftover
  <2>4. at \in [Starters -> 1 .. Len(Models)] /\ crashes \in 0 .. MaxCrashes
    BY CacheConstants, CacheAssumption, ArtifactAssumption DEF CacheInit, Off
  <2>5. memory \in [Starters -> [Specs -> Dir]]
    BY EmptyIsDir DEF CacheInit, Off
  <2> QED
    BY <2>1, <2>2, <2>3, <2>4, <2>5 DEF CacheInit, Off, CacheTypeOK
<1>2. BytesInv
  <2>1. DirectoryInv
    <3> SUFFICES ASSUME NEW m \in Specs, dest[m] # NoDir
                 PROVE  /\ rows[m] # Absent
                        /\ \A f \in Names : dest[m][f] \in {Absent, Bad} \/ Own(m, f, dest[m][f])
      BY DEF DirectoryInv
    <3>1. PICK b \in Builds : /\ Content[Manifest][b] = rows[m]
                              /\ \A f \in Names : dest[m][f] \in {Content[f][b], Bad, Absent}
      BY DEF CacheInit, Leftover
    <3> QED
      BY <3>1, CacheDigests, CacheConstants DEF Own
  <2>2. LookedUpInv /\ StagingInv /\ ReadInv /\ LoadedInv
    BY DEF CacheInit, Off, LookedUpInv, StagingInv, ReadInv, LoadedInv, Resolving, Loading
  <2>3. MemoryInv
    BY DEF CacheInit, Off, MemoryInv, Empty
  <2> QED
    BY <2>1, <2>2, <2>3 DEF BytesInv
<1>3. DeploymentInv
  BY DEF CacheInit, Off, DeploymentInv
<1>4. CachedInv
  BY DEF CacheInit, Off, CachedInv, Resolving, Loading, Checking
<1> QED
  BY <1>1, <1>2, <1>3, <1>4 DEF CacheInv

LEMMA CacheInductive == CacheInv /\ [CacheNext]_cacheVars => CacheInv'
<1> SUFFICES ASSUME CacheInv, [CacheNext]_cacheVars PROVE CacheInv'
  OBVIOUS
<1>1. CASE CacheNext
  BY <1>1, StartupStep DEF CacheNext, Moves
<1>2. CASE UNCHANGED cacheVars
  BY <1>2, UploadStep DEF cacheVars, registry, disk, CacheInv, CacheTypeOK
<1> QED
  BY <1>1, <1>2

LEMMA CacheInvariance == CacheSpec => []CacheInv
BY CacheInitially, CacheInductive, PTL DEF CacheSpec

\* What has been loaded is whole, and of the registered build.
LEMMA ServesRegistered == CacheInv => LoadedIsRegistered
<1> SUFFICES ASSUME CacheInv, NEW s \in Starters, phase[s] = "serving", NEW m \in Specs
             PROVE  \E b \in Builds : /\ rows[m] = Content[Manifest][b]
                                      /\ memory[s][m] = [f \in Names |-> Content[f][b]]
  BY DEF LoadedIsRegistered
<1>1. \A f \in Names : Own(m, f, memory[s][m][f])
  BY DEF CacheInv, BytesInv, LoadedInv, MemoryInv
<1>2. PICK b \in Builds : rows[m] = Content[Manifest][b]
  BY <1>1, CacheConstants DEF Own
<1>3. \A f \in Names : memory[s][m][f] = Content[f][b]
  <2>1. \A f \in Names : Own(m, f, Content[f][b])
    BY <1>2 DEF Own
  <2> QED
    BY <1>1, <2>1, OwnIsUnique
<1>4. memory[s][m] \in [Names -> Contents \cup {Bad, Absent}]
  BY DEF CacheInv, CacheTypeOK, Dir
<1> QED
  BY <1>2, <1>3, <1>4

\* Types; a process has a staging directory exactly between the failed cache check
\* and the rename.
THEOREM CacheTyped == CacheSpec => []CacheTypeOK
BY CacheInvariance, PTL DEF CacheInv

\* A process serves exactly the bytes the registered digests cover, whatever is in
\* the bucket and in the cache, and while other startups remove and rename the
\* directories it reads.
THEOREM ServesRegisteredBytes == CacheSpec => []LoadedIsRegistered
BY CacheInvariance, ServesRegistered, PTL

\* A process that has its cache to itself leaves it valid.
THEOREM LeavesCacheValid == CacheSpec => []ServedIsCached
<1>1. CacheInv => ServedIsCached
  BY DEF CacheInv, ServedIsCached, CachedInv, DeploymentInv
<1> QED
  BY <1>1, CacheInvariance, PTL
=============================================================================
