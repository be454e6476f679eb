--------------------------- MODULE ArtifactPublish --------------------------
(* scripts/upload_models_to_minio.py and S3ArtifactStore.upload_model: runs of *)
(* the upload script publish the files of every model to the bucket, one       *)
(* object at a time, and register the model in PostgreSQL when its objects are *)
(* in place.  Runs may overlap, be interrupted and be started again.           *)
EXTENDS Artifacts

CONSTANTS
  Uploaders, \* terminals in which the script can run
  Filenames  \* the sorted names of the files of a model

ASSUME PublishAssumption ==
  /\ Filenames \in Seq(Names)
  /\ \A f \in Names : \E i \in DOMAIN Filenames : f = Filenames[i]

VARIABLES
  bucket,  \* "absent", "plain", or "versioned"
  pc,      \* per run: what it does next
  build,   \* per run: the build in its local directories
  model,   \* per run: the position in MODEL_ARTIFACTS
  file,    \* per run: the position in the sorted filenames
  mixed    \* history: runs with different bytes have overlapped

store == <<bucket, objects, rows>>
local == <<build, mixed>>
vars  == <<store, local, pc, model, file>>

Spec1(u) == Models[model[u]]
Name(u)  == Filenames[file[u]]
Local(u) == Content[Name(u)][build[u]]
Goto(u, label) == pc' = [pc EXCEPT ![u] = label]

Init ==
  /\ bucket = "absent"
  /\ objects = [m \in Specs |-> [f \in Names |-> Absent]]
  /\ rows = [m \in Specs |-> Absent]
  /\ pc = [u \in Uploaders |-> "off"]
  /\ build \in [Uploaders -> Builds]
  /\ model = [u \in Uploaders |-> 1]
  /\ file = [u \in Uploaders |-> 1]
  /\ mixed = FALSE

\* The run ends, and with it its position.
End(u, label) ==
  /\ Goto(u, label)
  /\ model' = [model EXCEPT ![u] = 1]
  /\ file'  = [file EXCEPT ![u] = 1]

Active(u) == pc[u] \notin {"off", "done", "failed", "refused"}

\* The script is started, after an earlier run of this terminal or not.
Start(u, b) ==
  /\ ~Active(u)
  /\ build' = [build EXCEPT ![u] = b]
  /\ mixed' = (mixed \/ \E v \in Uploaders : Active(v) /\ build[v] # b)
  /\ Goto(u, "head_bucket")
  /\ UNCHANGED <<store, model, file>>

-----------------------------------------------------------------------------
(* ensure_bucket()                                                            *)

\* Mutant: versioning is enabled only on a bucket this run creates.
HeadBucketTrusting(u) ==
  /\ pc[u] = "head_bucket"
  /\ Goto(u, IF bucket = "absent" THEN "create_bucket" ELSE "head_object")
  /\ UNCHANGED <<store, local, model, file>>

HeadBucket(u) ==
  /\ pc[u] = "head_bucket"
  /\ Goto(u, IF bucket = "absent" THEN "create_bucket" ELSE "versioning")
  /\ UNCHANGED <<store, local, model, file>>

\* Another run may have created it meanwhile, which the server may refuse.
CreateBucket(u) ==
  /\ pc[u] = "create_bucket"
  /\ \/ /\ bucket' = IF bucket = "absent" THEN "plain" ELSE bucket
        /\ Goto(u, "versioning")
        /\ UNCHANGED <<model, file>>
     \/ /\ bucket # "absent"
        /\ End(u, "failed")
        /\ UNCHANGED bucket
  /\ UNCHANGED <<objects, rows, local>>

EnableVersioning(u) ==
  /\ pc[u] = "versioning"
  /\ bucket' = "versioned"
  /\ Goto(u, "head_object")
  /\ UNCHANGED <<objects, rows, local, model, file>>

-----------------------------------------------------------------------------
(* upload_model()                                                             *)

\* Mutant: the last file is left out.
NextFileButLast(u) ==
  /\ IF file[u] < Len(Filenames) - 1
     THEN /\ file' = [file EXCEPT ![u] = @ + 1]
          /\ Goto(u, "head_object")
     ELSE /\ file' = [file EXCEPT ![u] = 1]
          /\ Goto(u, "select_row")
  /\ UNCHANGED model

NextFile(u) ==
  /\ IF file[u] < Len(Filenames)
     THEN /\ file' = [file EXCEPT ![u] = @ + 1]
          /\ Goto(u, "head_object")
     ELSE /\ file' = [file EXCEPT ![u] = 1]
          /\ Goto(u, "select_row")
  /\ UNCHANGED model

\* Mutant: an object that exists is taken for the file without comparing digests.
HeadObjectIgnoringDigest(u) ==
  /\ pc[u] = "head_object"
  /\ \/ /\ objects[Spec1(u)][Name(u)] = Absent
        /\ Goto(u, "put_object")
        /\ UNCHANGED <<model, file>>
     \/ /\ objects[Spec1(u)][Name(u)] # Absent
        /\ NextFile(u)
  /\ UNCHANGED <<store, local>>

\* _object_exists_with_checksum(): absent, equal, or a refusal.
HeadObject(u) ==
  /\ pc[u] = "head_object"
  /\ LET object == objects[Spec1(u)][Name(u)]
     IN \/ /\ object = Absent
           /\ Goto(u, "put_object")
           /\ UNCHANGED <<model, file>>
        \/ /\ object = Local(u)
           /\ NextFile(u)
        \/ /\ object \notin {Absent, Local(u)}
           /\ End(u, "refused")
  /\ UNCHANGED <<store, local>>

\* upload_file(): the object appears whole, whatever is there by now.
PutObject(u) ==
  /\ pc[u] = "put_object"
  /\ objects' = [objects EXCEPT ![Spec1(u)][Name(u)] = Local(u)]
  /\ NextFile(u)
  /\ UNCHANGED <<bucket, rows, local>>

\* The object is stored but the response is lost, and the script raises.
PutObjectUnacknowledged(u) ==
  /\ pc[u] = "put_object"
  /\ objects' = [objects EXCEPT ![Spec1(u)][Name(u)] = Local(u)]
  /\ End(u, "failed")
  /\ UNCHANGED <<bucket, rows, local>>

-----------------------------------------------------------------------------
(* The registration transaction of main()                                     *)

Checksum(u) == Content[Manifest][build[u]]

\* Mutant: the run does not stop at the last model.
NextModelTooFar(u) ==
  /\ model' = [model EXCEPT ![u] = @ + 1]
  /\ Goto(u, "head_object")
  /\ UNCHANGED file

NextModel(u) ==
  IF model[u] < Len(Models)
  THEN /\ model' = [model EXCEPT ![u] = @ + 1]
       /\ Goto(u, "head_object")
       /\ UNCHANGED file
  ELSE End(u, "done")

\* Mutant: an existing row is accepted whatever its checksum.
SelectRowAnyChecksum(u) ==
  /\ pc[u] = "select_row"
  /\ \/ /\ rows[Spec1(u)] = Absent
        /\ Goto(u, "insert_row")
        /\ UNCHANGED <<model, file>>
     \/ /\ rows[Spec1(u)] # Absent
        /\ NextModel(u)
  /\ UNCHANGED <<store, local>>

\* The SELECT for the version: none, the same, or a refusal.  The URI and the
\* framework follow from the model and never differ.
SelectRow(u) ==
  /\ pc[u] = "select_row"
  /\ LET row == rows[Spec1(u)]
     IN \/ /\ row = Absent
           /\ Goto(u, "insert_row")
           /\ UNCHANGED <<model, file>>
        \/ /\ row = Checksum(u)
           /\ NextModel(u)
        \/ /\ row \notin {Absent, Checksum(u)}
           /\ End(u, "refused")
  /\ UNCHANGED <<store, local>>

\* The INSERT and its commit; uq_model_version rejects a second row.
InsertRow(u) ==
  /\ pc[u] = "insert_row"
  /\ \/ /\ rows[Spec1(u)] = Absent
        /\ rows' = [rows EXCEPT ![Spec1(u)] = Checksum(u)]
        /\ NextModel(u)
     \/ /\ rows[Spec1(u)] # Absent
        /\ End(u, "failed")
        /\ UNCHANGED rows
  /\ UNCHANGED <<bucket, objects, local>>

\* The row is committed, the acknowledgement is lost, and the script raises.
InsertRowUnacknowledged(u) ==
  /\ pc[u] = "insert_row"
  /\ rows[Spec1(u)] = Absent
  /\ rows' = [rows EXCEPT ![Spec1(u)] = Checksum(u)]
  /\ End(u, "failed")
  /\ UNCHANGED <<bucket, objects, local>>

\* A local directory that fails verification, an error of the store or of the
\* database, or the end of the process: what is done stays done.
Interrupt(u) ==
  /\ Active(u)
  /\ End(u, "failed")
  /\ UNCHANGED <<store, local>>

\* What the script does by itself, and how it ends otherwise.
Work(u) ==
  \/ HeadBucket(u)
  \/ CreateBucket(u)
  \/ EnableVersioning(u)
  \/ HeadObject(u)
  \/ PutObject(u)
  \/ SelectRow(u)
  \/ InsertRow(u)

Break(u) ==
  \/ PutObjectUnacknowledged(u)
  \/ InsertRowUnacknowledged(u)
  \/ Interrupt(u)

Run(u) == Work(u) \/ Break(u)

Next == \E u \in Uploaders : Run(u) \/ \E b \in Builds : Start(u, b)

Spec == Init /\ [][Next]_vars

-----------------------------------------------------------------------------
(* Properties                                                                 *)

\* Types; the positions of a run stay within the models and the files.
TypeOK ==
  /\ bucket \in {"absent", "plain", "versioned"}
  /\ objects \in [Specs -> [Names -> Contents \cup {Absent}]]
  /\ rows \in [Specs -> Contents \cup {Absent}]
  /\ pc \in [Uploaders -> {"off", "head_bucket", "create_bucket", "versioning",
                           "head_object", "put_object", "select_row", "insert_row",
                           "done", "failed", "refused"}]
  /\ build \in [Uploaders -> Builds]
  /\ model \in [Uploaders -> 1 .. Len(Models)]
  /\ file \in [Uploaders -> 1 .. Len(Filenames)]
  /\ mixed \in BOOLEAN

\* A registered model is complete: the objects under its prefix are exactly the
\* files its registered manifest digest covers, also after interrupted runs, and
\* when runs that publish the same bytes overlap.
RegisteredIsPublished ==
  ~mixed => \A m \in Specs : rows[m] # Absent =>
    \E b \in Builds : /\ rows[m] = Content[Manifest][b]
                      /\ objects[m] = [f \in Names |-> Content[f][b]]

\* Overlapping runs with different bytes: a row is still never ahead of the
\* objects.  Every file of a registered model exists, in a bucket that keeps the
\* versions replaced since.
RegisteredIsStored ==
  \A m \in Specs : rows[m] # Absent =>
    bucket = "versioned" /\ \A f \in Names : objects[m][f] # Absent

\* A run that reports success leaves every model registered with its own
\* manifest, although another run may register between its steps.
DoneIsRegistered ==
  \A u \in Uploaders : pc[u] = "done" =>
    \A m \in Specs : rows[m] = Content[Manifest][build[u]]

\* A run is refused only for bytes that differ from its own: starting it again
\* after an interruption, or twice at once, is never refused when all bytes match.
RefusedForOtherBytes ==
  ~mixed => \A u \in Uploaders : pc[u] = "refused" =>
    \E m \in Specs :
      \/ rows[m] \notin {Absent, Content[Manifest][build[u]]}
      \/ \E f \in Names : objects[m][f] \notin {Absent, Content[f][build[u]]}

\* How a run ends tells the truth: its success that all it has is registered, its
\* refusal that something else is there.
OutcomesAreTrue == DoneIsRegistered /\ RefusedForOtherBytes

\* docs/MODEL_REGISTRY.md: the upload "refuses to replace an object or database
\* version with different bytes".
ObjectsImmutable ==
  [][\A m \in Specs, f \in Names :
       objects[m][f] # Absent => objects'[m][f] = objects[m][f]]_vars
=============================================================================
