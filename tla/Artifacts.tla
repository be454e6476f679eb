------------------------------ MODULE Artifacts -----------------------------
(* The model artifacts, and where they are published: the bucket, and the      *)
(* model_versions table.  The upload scripts (ArtifactPublish) write both, the *)
(* startups of API processes (ArtifactCache) read them.                        *)
EXTENDS Integers, Sequences

CONSTANTS
  Models,   \* MODEL_ARTIFACTS, in order
  Manifest, \* manifest.json
  Files,    \* the files its checksums name
  Builds,   \* the contents a model can have
  Content,  \* Content[f][b]: the digest of file f in build b
  Absent

Specs    == {Models[i] : i \in DOMAIN Models}
Names    == Files \cup {Manifest}
Contents == UNION {{Content[f][b] : b \in Builds} : f \in Names}

\* The manifest digest covers every file: builds that share it are equal.
ASSUME ArtifactAssumption ==
  /\ Models \in Seq(Specs) /\ Len(Models) > 0
  /\ Manifest \notin Files
  /\ Content \in [Names -> [Builds -> Contents]]
  /\ \A a, b \in Builds :
       Content[Manifest][a] = Content[Manifest][b]
         => \A f \in Names : Content[f][a] = Content[f][b]
  /\ Absent \notin Contents

VARIABLES
  objects, \* the objects of each model, with their sha256 metadata
  rows     \* model_versions: the manifest checksum registered for each model
=============================================================================
