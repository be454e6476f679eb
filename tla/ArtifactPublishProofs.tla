------------------------ MODULE ArtifactPublishProofs -----------------------
(* Proofs about ArtifactPublish for any terminals, models, files and builds.    *)
EXTENDS ArtifactPublish, TLAPS

Uploading   == {"head_object", "put_object"}
Registering == {"select_row", "insert_row"}
Resting     == {"off", "done", "failed", "refused"}
Opening     == {"head_bucket", "create_bucket", "versioning"}

\* The files of its current model a run has found or put.
Passed(u) ==
  IF pc[u] \in Registering THEN Names
  ELSE IF pc[u] \in Uploading THEN {Filenames[i] : i \in 1 .. file[u] - 1} ELSE {}

\* A run walks the files of one model after the other, from the first.
PositionInv ==
  \A u \in Uploaders : /\ pc[u] \in Resting \cup Opening => model[u] = 1
                       /\ pc[u] \notin Uploading => file[u] = 1

\* No run writes before it has switched versioning on.
VersionedInv ==
  \A u \in Uploaders : pc[u] \in Uploading \cup Registering => bucket = "versioned"

\* What a run has passed exists, whatever other runs do.
PassedInv ==
  \A u \in Uploaders : \A f \in Passed(u) : objects[Spec1(u)][f] # Absent

\* The models a run is done with are registered with its manifest.
BehindInv ==
  \A u \in Uploaders : Active(u) =>
    \A i \in 1 .. model[u] - 1 : rows[Models[i]] = Checksum(u)

StoreInv == PositionInv /\ VersionedInv /\ PassedInv /\ RegisteredIsStored
               /\ BehindInv /\ DoneIsRegistered

\* Until runs are mixed, those that overlap carry the same bytes, ...
SameInv ==
  ~mixed => \A u, v \in Uploaders : Active(u) /\ Active(v) => build[u] = build[v]

\* ... so that what a run is about to put is not there with other bytes, ...
PendingInv ==
  ~mixed => \A u \in Uploaders :
    pc[u] = "put_object" => objects[Spec1(u)][Name(u)] \in {Absent, Local(u)}

\* ... and what it has passed is there with its own.
SeenInv ==
  ~mixed => \A u \in Uploaders : \A f \in Passed(u) :
    objects[Spec1(u)][f] = Content[f][build[u]]

PureInv == SameInv /\ PendingInv /\ SeenInv /\ RegisteredIsPublished /\ RefusedForOtherBytes

IInv == TypeOK /\ StoreInv /\ PureInv

-----------------------------------------------------------------------------
(* The constants                                                              *)

\* The positions of the models and of the files, and what they hold.
LEMMA Constants ==
  /\ Len(Models) \in Nat \ {0}
  /\ \A i \in 1 .. Len(Models) : Models[i] \in Specs
  /\ \A m \in Specs : \E i \in 1 .. Len(Models) : m = Models[i]
  /\ Len(Filenames) \in Nat \ {0}
  /\ \A i \in 1 .. Len(Filenames) : Filenames[i] \in Names
  /\ \A f \in Names : \E i \in 1 .. Len(Filenames) : f = Filenames[i]
<1>1. DOMAIN Models = 1 .. Len(Models) /\ Len(Models) \in Nat \ {0}
  BY ArtifactAssumption
<1>2. DOMAIN Filenames = 1 .. Len(Filenames) /\ Len(Filenames) \in Nat
  BY PublishAssumption
<1>3. \A f \in Names : \E i \in 1 .. Len(Filenames) : f = Filenames[i]
  BY <1>2, PublishAssumption
<1>4. Len(Filenames) # 0
  BY <1>2, <1>3 DEF Names
<1> QED
  BY <1>1, <1>2, <1>3, <1>4, PublishAssumption DEF Specs

\* Digests are told apart from the absence of an object or a row.
LEMMA Digests ==
  ASSUME NEW f \in Names, NEW b \in Builds
  PROVE  Content[f][b] \in Contents /\ Content[f][b] # Absent /\ Manifest \in Names
BY ArtifactAssumption DEF Names

\* What a run is at.
LEMMA Position ==
  ASSUME TypeOK, NEW u \in Uploaders
  PROVE  /\ Spec1(u) \in Specs
         /\ Name(u) \in Names
         /\ Local(u) \in Contents /\ Local(u) # Absent
         /\ Checksum(u) \in Contents /\ Checksum(u) # Absent
BY Constants, Digests, ArtifactAssumption DEF TypeOK, Spec1, Name, Local, Checksum

-----------------------------------------------------------------------------
(* What a step changes                                                        *)

LEMMA Initially == Init => IInv
<1> SUFFICES ASSUME Init PROVE IInv
  OBVIOUS
<1>a. mixed \in BOOLEAN
  BY DEF Init
<1>b. /\ 1 \in 1 .. Len(Models) /\ model \in [Uploaders -> 1 .. Len(Models)]
      /\ file \in [Uploaders -> 1 .. Len(Filenames)]
  BY Constants DEF Init
<1>1. TypeOK
  BY <1>a, <1>b DEF Init, TypeOK
<1>2. \A u \in Uploaders : Passed(u) = {} /\ ~Active(u)
  BY DEF Init, Passed, Registering, Uploading, Active
<1>3. StoreInv
  BY <1>2 DEF Init, StoreInv, PositionInv, VersionedInv, PassedInv, RegisteredIsStored, BehindInv,
     DoneIsRegistered, Uploading, Registering
<1>4. PureInv
  BY <1>2 DEF Init, PureInv, SameInv, PendingInv, SeenInv, RegisteredIsPublished,
     RefusedForOtherBytes
<1> QED
  BY <1>1, <1>3, <1>4 DEF IInv

-----------------------------------------------------------------------------
(* What the steps have in common                                              *)

\* The run finds or puts its object and goes on to the next file.
Advances(u) ==
  pc[u] \in Uploading /\ objects'[Spec1(u)][Name(u)] = Local(u) /\ NextFile(u)

\* The run finds or inserts its row and goes on to the next model.
Completes(u) ==
  pc[u] \in Registering /\ rows'[Spec1(u)] = Checksum(u) /\ NextModel(u)

\* The run ends early; refused, it has met something else than its own bytes.
Stops(u) ==
  \/ End(u, "failed")
  \/ /\ End(u, "refused")
     /\ UNCHANGED <<store, local>>
     /\ \/ objects[Spec1(u)][Name(u)] \notin {Absent, Local(u)}
        \/ rows[Spec1(u)] \notin {Absent, Checksum(u)}

\* The run goes on to another step without moving to another file.
Stays(u) ==
  /\ UNCHANGED <<model, file>>
  /\ \/ ~Active(u) /\ pc'[u] = "head_bucket"
     \/ pc[u] \in Opening /\ pc'[u] \in Opening
     \/ pc[u] \in Opening /\ pc'[u] = "head_object" /\ bucket' = "versioned"
     \/ pc[u] = "head_object" /\ pc'[u] = "put_object" /\ objects[Spec1(u)][Name(u)] = Absent
     \/ pc[u] = "select_row" /\ pc'[u] = "insert_row"

\* The only step that touches an object puts the bytes of the run there, ...
Puts(u) ==
  /\ pc[u] = "put_object"
  /\ objects' = [objects EXCEPT ![Spec1(u)][Name(u)] = Local(u)]
  /\ UNCHANGED <<bucket, rows, local>>

\* ... the only one that touches a row inserts the checksum of the run.
Inserts(u) ==
  /\ pc[u] = "insert_row"
  /\ rows[Spec1(u)] = Absent
  /\ rows' = [rows EXCEPT ![Spec1(u)] = Checksum(u)]
  /\ UNCHANGED <<bucket, objects, local>>

\* What a step is, for the run that takes it and for the store.
LEMMA StepKinds ==
  ASSUME TypeOK, NEW u \in Uploaders, Run(u) \/ \E b \in Builds : Start(u, b)
  PROVE  /\ Stays(u) \/ Advances(u) \/ Completes(u) \/ Stops(u)
         /\ UNCHANGED <<objects, rows>> \/ Puts(u) \/ Inserts(u)
         /\ bucket = "versioned" => bucket' = "versioned"
         /\ \/ UNCHANGED local /\ Active(u)
            \/ ~Active(u) /\ (\E b \in Builds : Start(u, b)) /\ pc'[u] = "head_bucket"
<1> USE Position DEF TypeOK
<1>1. CASE \E b \in Builds : Start(u, b)
  BY <1>1 DEF Start, Stays, Goto, store
<1>2. CASE HeadBucket(u) \/ CreateBucket(u) \/ EnableVersioning(u)
  BY <1>2 DEF HeadBucket, CreateBucket, EnableVersioning, Stays, Stops, Goto, Opening, Active,
     store, local
<1>3. CASE HeadObject(u)
  BY <1>3 DEF HeadObject, Stays, Advances, Stops, Goto, Uploading, Active, store, local
<1>4. CASE PutObject(u) \/ PutObjectUnacknowledged(u)
  <2>1. Puts(u) /\ Active(u)
    BY <1>4 DEF PutObject, PutObjectUnacknowledged, Puts, Active
  <2>2. objects'[Spec1(u)][Name(u)] = Local(u)
    BY <2>1 DEF Puts
  <2> QED
    BY <1>4, <2>1, <2>2 DEF PutObject, PutObjectUnacknowledged, Advances, Stops, Uploading, Puts,
       local
<1>5. CASE SelectRow(u)
  BY <1>5 DEF SelectRow, Stays, Completes, Stops, Goto, Registering, Active, store, local
<1>6. CASE InsertRow(u) \/ InsertRowUnacknowledged(u)
  <2>1. CASE Inserts(u)
    <3>1. rows'[Spec1(u)] = Checksum(u)
      BY <2>1 DEF Inserts
    <3> QED
      BY <1>6, <2>1, <3>1 DEF InsertRow, InsertRowUnacknowledged, Completes, Stops, Registering,
         Inserts, Active, local
  <2>2. CASE ~Inserts(u)
    BY <1>6, <2>2 DEF InsertRow, InsertRowUnacknowledged, Stops, Inserts, Active, local
  <2> QED
    BY <2>1, <2>2
<1>7. CASE Interrupt(u)
  BY <1>7 DEF Interrupt, Stops, store, local
<1> QED
  BY <1>1, <1>2, <1>3, <1>4, <1>5, <1>6, <1>7 DEF Run, Work, Break

\* Types are kept.
LEMMA TypeStep ==
  ASSUME TypeOK, PositionInv, NEW u \in Uploaders, Run(u) \/ \E b \in Builds : Start(u, b)
  PROVE  TypeOK'
<1> DEFINE Labels == {"off", "head_bucket", "create_bucket", "versioning", "head_object",
                      "put_object", "select_row", "insert_row", "done", "failed", "refused"}
<1>1. mixed' \in BOOLEAN
  BY DEF TypeOK, Run, Work, Break, Start, HeadBucket, CreateBucket, EnableVersioning, HeadObject,
     PutObject, SelectRow, InsertRow, PutObjectUnacknowledged, InsertRowUnacknowledged,
     Interrupt, local
<1>2. build' \in [Uploaders -> Builds]
  BY DEF TypeOK, Run, Work, Break, Start, HeadBucket, CreateBucket, EnableVersioning, HeadObject,
     PutObject, SelectRow, InsertRow, PutObjectUnacknowledged, InsertRowUnacknowledged,
     Interrupt, local
<1>3. bucket' \in {"absent", "plain", "versioned"}
  BY DEF TypeOK, Run, Work, Break, Start, HeadBucket, CreateBucket, EnableVersioning, HeadObject,
     PutObject, SelectRow, InsertRow, PutObjectUnacknowledged, InsertRowUnacknowledged,
     Interrupt, store
<1>4. rows' \in [Specs -> Contents \cup {Absent}]
  BY Position DEF TypeOK, Run, Work, Break, Start, HeadBucket, CreateBucket, EnableVersioning,
     HeadObject, PutObject, SelectRow, InsertRow, PutObjectUnacknowledged,
     InsertRowUnacknowledged, Interrupt, store
<1>5. objects' \in [Specs -> [Names -> Contents \cup {Absent}]]
  <2>1. CASE Puts(u)
    <3>1. /\ Spec1(u) \in Specs /\ Name(u) \in Names /\ Local(u) \in Contents
          /\ objects[Spec1(u)] \in [Names -> Contents \cup {Absent}]
      BY Position DEF TypeOK
    <3>2. [objects[Spec1(u)] EXCEPT ![Name(u)] = Local(u)] \in [Names -> Contents \cup {Absent}]
      BY <3>1
    <3> QED
      BY <2>1, <3>1, <3>2 DEF Puts, TypeOK
  <2> QED
    BY <2>1, StepKinds DEF TypeOK, Inserts
<1>6. pc' \in [Uploaders -> Labels]
  BY DEF TypeOK, Run, Work, Break, Start, HeadBucket, CreateBucket, EnableVersioning, HeadObject,
     PutObject, SelectRow, InsertRow, PutObjectUnacknowledged, InsertRowUnacknowledged,
     Interrupt, Goto, End, NextFile, NextModel
<1>7. /\ model' \in [Uploaders -> 1 .. Len(Models)]
      /\ file' \in [Uploaders -> 1 .. Len(Filenames)]
  <2>1. /\ Len(Models) \in Nat \ {0} /\ Len(Filenames) \in Nat \ {0}
        /\ model \in [Uploaders -> 1 .. Len(Models)] /\ file \in [Uploaders -> 1 .. Len(Filenames)]
        /\ model[u] \in 1 .. Len(Models) /\ file[u] \in 1 .. Len(Filenames)
    BY Constants DEF TypeOK
  <2>a. CASE UNCHANGED <<model, file>>
    BY <2>1, <2>a
  <2>2. ASSUME NEW l, End(u, l)
        PROVE  /\ model' \in [Uploaders -> 1 .. Len(Models)]
               /\ file' \in [Uploaders -> 1 .. Len(Filenames)]
    BY <2>1, <2>2 DEF End
  <2>3. CASE NextFile(u)
    BY <2>1, <2>3 DEF NextFile
  <2>4. CASE NextModel(u)
    BY <2>1, <2>2, <2>4 DEF NextModel
  <2> QED
    BY <2>a, <2>2, <2>3, <2>4, StepKinds DEF Stays, Advances, Completes, Stops
<1> QED
  BY <1>1, <1>2, <1>3, <1>4, <1>5, <1>6, <1>7 DEF TypeOK

\* A run moves no other one.
LEMMA Others ==
  ASSUME TypeOK, NEW u \in Uploaders, Run(u) \/ \E b \in Builds : Start(u, b),
         NEW v \in Uploaders, v # u
  PROVE  pc'[v] = pc[v] /\ model'[v] = model[v] /\ file'[v] = file[v] /\ build'[v] = build[v]
<1> USE DEF TypeOK, store, local, Goto, End
<1>1. CASE \E b \in Builds : Start(u, b)
  BY <1>1 DEF Start
<1>2. CASE HeadBucket(u) \/ CreateBucket(u) \/ EnableVersioning(u) \/ Interrupt(u)
  BY <1>2 DEF HeadBucket, CreateBucket, EnableVersioning, Interrupt
<1>3. CASE HeadObject(u)
  BY <1>3 DEF HeadObject, NextFile
<1>4. CASE PutObject(u) \/ PutObjectUnacknowledged(u)
  BY <1>4 DEF PutObject, PutObjectUnacknowledged, NextFile
<1>5. CASE SelectRow(u)
  BY <1>5 DEF SelectRow, NextModel
<1>6. CASE InsertRow(u) \/ InsertRowUnacknowledged(u)
  BY <1>6 DEF InsertRow, InsertRowUnacknowledged, NextModel
<1> QED
  BY <1>1, <1>2, <1>3, <1>4, <1>5, <1>6 DEF Run, Work, Break

\* What is stored stays: an object never goes away, and a row is final.
LEMMA Kept ==
  ASSUME TypeOK, NEW u \in Uploaders, Run(u) \/ \E b \in Builds : Start(u, b)
  PROVE  /\ \A m \in Specs, f \in Names : objects[m][f] # Absent => objects'[m][f] # Absent
         /\ \A m \in Specs : rows[m] # Absent => rows'[m] = rows[m]
<1>1. CASE UNCHANGED <<objects, rows>>
  BY <1>1
<1>2. CASE Puts(u)
  BY <1>2, Position DEF Puts, TypeOK
<1>3. CASE Inserts(u)
  BY <1>3 DEF Inserts, TypeOK
<1> QED
  BY <1>1, <1>2, <1>3, StepKinds

\* A step takes a run past no file but the one it has just found or put.
LEMMA PassedStep ==
  ASSUME TypeOK, PositionInv, NEW u \in Uploaders, Run(u) \/ \E b \in Builds : Start(u, b),
         NEW f \in Passed(u)'
  PROVE  /\ f \in Names /\ UNCHANGED local
         /\ Spec1(u)' = Spec1(u)
         /\ f \in Passed(u) \/ (f = Name(u) /\ objects'[Spec1(u)][f] = Local(u))
<1> USE DEF Uploading, Registering, Opening, Resting
<1>1. /\ pc'[u] \in Uploading \cup Registering
      /\ f \in Names
      /\ TypeOK'
  BY TypeStep, Constants DEF Passed, TypeOK
<1>2. UNCHANGED local /\ pc[u] \notin Resting
  BY <1>1, StepKinds DEF Active
<1>3. CASE Stays(u)
  <2>1. Passed(u)' \subseteq Passed(u)
    BY <1>1, <1>2, <1>3 DEF Stays, Active, Passed, PositionInv, TypeOK
  <2>2. Spec1(u)' = Spec1(u)
    BY <1>3 DEF Stays, Spec1
  <2> QED
    BY <2>1, <2>2, <1>1, <1>2
<1>4. CASE Advances(u)
  <2>1. Spec1(u)' = Spec1(u)
    BY <1>4 DEF Advances, NextFile, Spec1
  <2>2. f \in Passed(u) \/ f = Name(u)
    <3>1. /\ file[u] \in 1 .. Len(Filenames) /\ Len(Filenames) \in Nat
          /\ file \in [Uploaders -> 1 .. Len(Filenames)] /\ pc = [v \in Uploaders |-> pc[v]]
      BY Constants DEF TypeOK
    <3>2. PICK i \in 1 .. file[u] : f = Filenames[i]
      BY <1>4, <3>1, Constants DEF Advances, NextFile, Goto, Passed
    <3> QED
      BY <1>4, <3>1, <3>2 DEF Advances, Passed, Name
  <2>3. objects'[Spec1(u)][Name(u)] = Local(u)
    BY <1>4 DEF Advances
  <2> QED
    BY <1>1, <1>2, <2>1, <2>2, <2>3
<1>5. CASE Completes(u)
  <2>1. pc'[u] = "head_object" /\ file'[u] = 1
    BY <1>1, <1>5 DEF Completes, NextModel, Goto, End, PositionInv, TypeOK
  <2> QED
    BY <2>1 DEF Passed
<1>6. CASE Stops(u)
  BY <1>1, <1>6 DEF Stops, End, Goto, TypeOK
<1> QED
  BY <1>3, <1>4, <1>5, <1>6, StepKinds

-----------------------------------------------------------------------------
(* A row is never ahead of the objects                                        *)

LEMMA StoreStep ==
  ASSUME TypeOK, StoreInv, NEW u \in Uploaders, Run(u) \/ \E b \in Builds : Start(u, b)
  PROVE  StoreInv'
<1> USE DEF Uploading, Registering, Opening, Resting
<1>t. TypeOK' /\ PositionInv
  BY TypeStep DEF StoreInv
<1>1. PositionInv'
  <2>1. /\ pc'[u] \in Resting \cup Opening => model'[u] = 1
        /\ pc'[u] \notin Uploading => file'[u] = 1
    <3>1. CASE Stays(u)
      BY <1>t, <3>1 DEF Stays, Active, PositionInv, TypeOK
    <3>2. CASE Advances(u)
      BY <1>t, <3>2 DEF Advances, NextFile, Goto, PositionInv, TypeOK
    <3>3. CASE Completes(u)
      BY <1>t, <3>3 DEF Completes, NextModel, Goto, End, PositionInv, TypeOK
    <3>4. CASE Stops(u)
      BY <3>4 DEF Stops, End, TypeOK
    <3> QED
      BY <3>1, <3>2, <3>3, <3>4, StepKinds
  <2> QED
    BY <1>t, <2>1, Others DEF PositionInv
<1>2. VersionedInv'
  <2>1. pc'[u] \in Uploading \cup Registering => bucket' = "versioned"
    <3>1. pc'[u] \in Uploading \cup Registering =>
            pc[u] \in Uploading \cup Registering \/ bucket' = "versioned"
      BY <1>t, StepKinds DEF Stays, Active, Advances, Completes, Stops, End, Goto, TypeOK
    <3> QED
      BY <3>1, StepKinds DEF StoreInv, VersionedInv
  <2> QED
    BY <2>1, Others, StepKinds DEF StoreInv, VersionedInv
<1>3. PassedInv'
  <2> SUFFICES ASSUME NEW v \in Uploaders, NEW f \in Passed(v)'
               PROVE  objects'[Spec1(v)'][f] # Absent
    BY DEF PassedInv
  <2>1. CASE v = u
    BY <1>t, <2>1, PassedStep, Position, Kept DEF StoreInv, PassedInv
  <2>2. CASE v # u
    <3>1. f \in Passed(v) /\ Spec1(v)' = Spec1(v)
      BY <2>2, Others DEF Passed, Spec1
    <3>2. f \in Names
      BY <3>1, Constants DEF Passed, TypeOK
    <3> QED
      BY <3>1, <3>2, Position, Kept DEF StoreInv, PassedInv
  <2> QED
    BY <2>1, <2>2
<1>4. RegisteredIsStored'
  <2> SUFFICES ASSUME NEW m \in Specs, rows'[m] # Absent, NEW f \in Names
               PROVE  bucket' = "versioned" /\ objects'[m][f] # Absent
    BY Constants, PublishAssumption DEF RegisteredIsStored
  <2>1. CASE rows[m] # Absent
    BY <2>1, Kept, StepKinds DEF StoreInv, RegisteredIsStored
  <2>2. CASE rows[m] = Absent
    <3>1. Inserts(u) /\ m = Spec1(u)
      BY <2>2, StepKinds DEF Puts, Inserts, TypeOK
    <3> QED
      BY <3>1, Position, Kept, StepKinds DEF Inserts, StoreInv, VersionedInv, PassedInv, Passed
  <2> QED
    BY <2>1, <2>2
<1>5. BehindInv'
  <2> SUFFICES ASSUME NEW v \in Uploaders, Active(v)', NEW i \in 1 .. model'[v] - 1
               PROVE  rows'[Models[i]] = Checksum(v)'
    BY DEF BehindInv
  <2>1. ASSUME NEW w \in Uploaders, Active(w), build'[w] = build[w], i \in 1 .. model[w] - 1
        PROVE  rows'[Models[i]] = Checksum(w)'
    <3>1. rows[Models[i]] = Checksum(w) /\ Checksum(w) # Absent /\ Checksum(w)' = Checksum(w)
      BY <2>1, Position DEF StoreInv, BehindInv, Checksum
    <3>2. Models[i] \in Specs
      BY <2>1, Constants DEF TypeOK
    <3> QED
      BY <3>1, <3>2, Kept
  <2>2. CASE v # u
    BY <2>1, <2>2, Others DEF Active
  <2>3. CASE v = u
    <3>1. Active(u) /\ build'[u] = build[u]
      BY <1>t, <1>1, <2>3, StepKinds DEF PositionInv, local
    <3>2. CASE Completes(u)
      <4>1. model'[u] = model[u] + 1 /\ model[u] \in Nat \ {0}
        BY <2>3, <3>2 DEF Completes, NextModel, Goto, End, Active, TypeOK
      <4>2. CASE i = model[u]
        BY <2>3, <3>1, <3>2, <4>2 DEF Completes, Spec1, Checksum
      <4>3. CASE i # model[u]
        BY <2>1, <2>3, <3>1, <4>1, <4>3
      <4> QED
        BY <4>2, <4>3
    <3>3. CASE Stays(u) \/ Advances(u)
      BY <2>1, <2>3, <3>1, <3>3 DEF Stays, Advances, NextFile
    <3>4. CASE Stops(u)
      BY <2>3, <3>4 DEF Stops, End, Goto, Active, TypeOK
    <3> QED
      BY <3>2, <3>3, <3>4, StepKinds
  <2> QED
    BY <2>2, <2>3
<1>6. DoneIsRegistered'
  <2> SUFFICES ASSUME NEW v \in Uploaders, pc'[v] = "done", NEW m \in Specs
               PROVE  rows'[m] = Checksum(v)'
    BY DEF DoneIsRegistered, Checksum
  <2>1. CASE v # u
    BY <2>1, Others, Kept, Position DEF StoreInv, DoneIsRegistered, Checksum
  <2>2. CASE v = u
    <3>1. Completes(u) /\ ~(model[u] < Len(Models))
      BY <2>2, StepKinds DEF Stays, Advances, NextFile, Completes, NextModel, Stops, End, Goto,
         TypeOK, Active
    <3>2. Active(u) /\ build'[u] = build[u] /\ Checksum(u)' = Checksum(u)
      BY <2>2, StepKinds DEF local, Checksum
    <3>3. PICK i \in 1 .. Len(Models) : m = Models[i]
      BY Constants
    <3>4. CASE i = model[u]
      BY <2>2, <3>1, <3>2, <3>3, <3>4 DEF Completes, Spec1
    <3>5. CASE i # model[u]
      <4>1. i \in 1 .. model[u] - 1
        BY <3>1, <3>5, Constants DEF TypeOK
      <4>2. rows[m] = Checksum(u)
        BY <3>2, <3>3, <4>1 DEF StoreInv, BehindInv
      <4> QED
        BY <2>2, <3>2, <4>2, Position, Kept
    <3> QED
      BY <3>4, <3>5
  <2> QED
    BY <2>1, <2>2
<1> QED
  BY <1>1, <1>2, <1>3, <1>4, <1>5, <1>6 DEF StoreInv

-----------------------------------------------------------------------------
(* While the runs that overlap carry the same bytes                           *)

\* Runs do not come apart again.
LEMMA Unmixed ==
  ASSUME NEW u \in Uploaders, TypeOK, Run(u) \/ \E b \in Builds : Start(u, b), ~mixed'
  PROVE  ~mixed
<1>1. CASE UNCHANGED local
  BY <1>1 DEF local
<1>2. CASE \E b \in Builds : Start(u, b)
  BY <1>2 DEF Start
<1> QED
  BY <1>1, <1>2, StepKinds

\* No object is ever replaced by other bytes.
LEMMA Unreplaced ==
  ASSUME TypeOK, PendingInv, ~mixed, NEW u \in Uploaders,
         Run(u) \/ \E b \in Builds : Start(u, b),
         NEW m \in Specs, NEW f \in Names, objects[m][f] # Absent
  PROVE  objects'[m][f] = objects[m][f]
<1>1. CASE UNCHANGED <<objects, rows>> \/ Inserts(u)
  BY <1>1 DEF Inserts
<1>2. CASE Puts(u)
  <2>1. objects[Spec1(u)][Name(u)] \in {Absent, Local(u)}
    BY <1>2 DEF Puts, PendingInv
  <2> QED
    BY <1>2, <2>1, Position DEF Puts, TypeOK
<1> QED
  BY <1>1, <1>2, StepKinds

LEMMA PureStep ==
  ASSUME TypeOK, StoreInv, PureInv, NEW u \in Uploaders, Run(u) \/ \E b \in Builds : Start(u, b)
  PROVE  PureInv'
<1> SUFFICES ASSUME ~mixed' PROVE PureInv'
  BY DEF PureInv, SameInv, PendingInv, SeenInv, RegisteredIsPublished, RefusedForOtherBytes
<1>t. /\ TypeOK' /\ PositionInv /\ StoreInv'
      /\ ~mixed
      /\ SameInv /\ PendingInv /\ SeenInv
  BY TypeStep, StoreStep, Unmixed DEF StoreInv, PureInv
<1>1. SameInv'
  <2> SUFFICES ASSUME NEW v \in Uploaders, NEW w \in Uploaders, Active(v)', Active(w)'
               PROVE  build'[v] = build'[w]
    BY DEF SameInv
  <2>1. CASE UNCHANGED local /\ Active(u)
    BY <1>t, <2>1, Others DEF local, SameInv, Active
  <2>2. ASSUME NEW b \in Builds, Start(u, b) PROVE build'[v] = build'[w]
    <3>1. \A x \in Uploaders : x # u /\ Active(x)' => build'[x] = b
      <4>1. \A x \in Uploaders : Active(x) => build[x] = b
        BY <2>2 DEF Start
      <4> QED
        BY <4>1, Others DEF Active
    <3>2. build'[u] = b
      BY <2>2 DEF Start, TypeOK
    <3> QED
      BY <3>1, <3>2
  <2> QED
    BY <2>1, <2>2, StepKinds
<1>2. PendingInv'
  <2> SUFFICES ASSUME NEW v \in Uploaders, pc'[v] = "put_object"
               PROVE  objects'[Spec1(v)'][Name(v)'] \in {Absent, Local(v)'}
    BY DEF PendingInv
  <2>1. CASE v = u
    <3>1. Stays(u) /\ pc[u] = "head_object" /\ objects[Spec1(u)][Name(u)] = Absent
      BY <2>1, StepKinds DEF Stays, Advances, NextFile, Completes, NextModel, Stops, End, Goto,
         TypeOK, Opening
    <3>2. UNCHANGED objects
      BY <3>1, StepKinds DEF Puts, Inserts
    <3>3. Spec1(u)' = Spec1(u) /\ Name(u)' = Name(u)
      BY <3>1 DEF Stays, Spec1, Name
    <3> QED
      BY <2>1, <3>1, <3>2, <3>3
  <2>2. CASE v # u
    <3>1. /\ Spec1(v)' = Spec1(v) /\ Name(v)' = Name(v) /\ Local(v)' = Local(v)
          /\ pc[v] = "put_object"
          /\ Spec1(v) \in Specs /\ Name(v) \in Names
      BY <2>2, Others, Position DEF Spec1, Name, Local
    <3>2. objects[Spec1(v)][Name(v)] \in {Absent, Local(v)}
      BY <1>t, <3>1 DEF PendingInv
    <3>3. CASE UNCHANGED <<objects, rows>> \/ Inserts(u)
      BY <3>1, <3>2, <3>3 DEF Inserts
    <3>4. CASE Puts(u)
      <4>1. build[u] = build[v]
        BY <1>t, <3>1, <3>4 DEF Puts, SameInv, Active
      <4>2. CASE Spec1(u) = Spec1(v) /\ Name(u) = Name(v)
        <5>1. objects'[Spec1(v)][Name(v)] = Local(v)
          BY <3>1, <3>4, <4>1, <4>2 DEF Puts, Local, TypeOK
        <5> QED
          BY <3>1, <5>1
      <4>3. CASE ~(Spec1(u) = Spec1(v) /\ Name(u) = Name(v))
        <5>1. objects'[Spec1(v)][Name(v)] = objects[Spec1(v)][Name(v)]
          BY <3>1, <3>4, <4>3 DEF Puts, TypeOK
        <5> QED
          BY <3>1, <3>2, <5>1
      <4> QED
        BY <4>2, <4>3
    <3> QED
      BY <3>3, <3>4, StepKinds
  <2> QED
    BY <2>1, <2>2
<1>3. SeenInv'
  <2> SUFFICES ASSUME NEW v \in Uploaders, NEW f \in Passed(v)'
               PROVE  objects'[Spec1(v)'][f] = Content[f][build'[v]]
    BY DEF SeenInv
  <2>1. ASSUME NEW w \in Uploaders, f \in Passed(w), f \in Names
        PROVE  objects'[Spec1(w)][f] = Content[f][build[w]]
    <3>1. objects[Spec1(w)][f] = Content[f][build[w]] /\ Content[f][build[w]] # Absent
      BY <1>t, <2>1, Digests DEF SeenInv, TypeOK
    <3> QED
      BY <1>t, <2>1, <3>1, Unreplaced, Position
  <2>2. CASE v = u
    BY <1>t, <2>1, <2>2, PassedStep DEF local, Local
  <2>3. CASE v # u
    <3>1. f \in Passed(v) /\ Spec1(v)' = Spec1(v) /\ build'[v] = build[v]
      BY <2>3, Others DEF Passed, Spec1
    <3>2. f \in Names
      BY <3>1, Constants DEF Passed, TypeOK
    <3> QED
      BY <2>1, <3>1, <3>2
  <2> QED
    BY <2>2, <2>3
<1>4. RegisteredIsPublished'
  <2> SUFFICES ASSUME NEW m \in Specs, rows'[m] # Absent
               PROVE  \E b \in Builds : /\ rows'[m] = Content[Manifest][b]
                                        /\ objects'[m] = [f \in Names |-> Content[f][b]]
    BY DEF RegisteredIsPublished
  <2>0. ASSUME NEW b \in Builds, \A f \in Names : objects[m][f] = Content[f][b]
        PROVE  objects'[m] = [f \in Names |-> Content[f][b]]
    <3>1. \A f \in Names : objects'[m][f] = Content[f][b]
      BY <1>t, <2>0, Unreplaced, Digests
    <3>2. objects'[m] \in [Names -> Contents \cup {Absent}]
      BY <1>t DEF TypeOK
    <3> QED
      BY <3>1, <3>2
  <2>1. CASE rows[m] # Absent
    <3>1. PICK b \in Builds : /\ rows[m] = Content[Manifest][b]
                              /\ objects[m] = [f \in Names |-> Content[f][b]]
      BY <1>t, <2>1 DEF PureInv, RegisteredIsPublished
    <3>2. rows'[m] = Content[Manifest][b]
      BY <2>1, <3>1, Kept
    <3> QED
      BY <2>0, <3>1, <3>2
  <2>2. CASE rows[m] = Absent
    <3>1. Inserts(u) /\ m = Spec1(u)
      BY <2>2, StepKinds DEF Puts, Inserts, TypeOK
    <3>2. \A f \in Names : objects[m][f] = Content[f][build[u]]
      BY <1>t, <3>1 DEF Inserts, SeenInv, Passed, Registering
    <3>3. rows'[m] = Content[Manifest][build[u]] /\ build[u] \in Builds
      BY <3>1 DEF Inserts, Checksum, TypeOK
    <3> QED
      BY <2>0, <3>2, <3>3
  <2> QED
    BY <2>1, <2>2
<1>5. RefusedForOtherBytes'
  <2> SUFFICES ASSUME NEW v \in Uploaders, pc'[v] = "refused"
               PROVE  \E m \in Specs :
                        \/ rows'[m] \notin {Absent, Content[Manifest][build'[v]]}
                        \/ \E f \in Names : objects'[m][f] \notin {Absent, Content[f][build'[v]]}
    BY DEF RefusedForOtherBytes
  <2>1. CASE v = u
    <3>1. /\ UNCHANGED <<store, local>>
          /\ \/ objects[Spec1(u)][Name(u)] \notin {Absent, Local(u)}
             \/ rows[Spec1(u)] \notin {Absent, Checksum(u)}
      BY <2>1, StepKinds DEF Stays, Advances, NextFile, Completes, NextModel, Stops, End, Goto,
         TypeOK, Opening
    <3> QED
      BY <2>1, <3>1, Position DEF store, local, Local, Checksum
  <2>2. CASE v # u
    <3>1. build'[v] = build[v] /\ pc[v] = "refused"
      BY <2>2, Others
    <3>2. PICK m \in Specs :
            \/ rows[m] \notin {Absent, Content[Manifest][build[v]]}
            \/ \E f \in Names : objects[m][f] \notin {Absent, Content[f][build[v]]}
      BY <1>t, <3>1 DEF PureInv, RefusedForOtherBytes
    <3> QED
      BY <1>t, <3>1, <3>2, Kept, Unreplaced
  <2> QED
    BY <2>1, <2>2
<1> QED
  BY <1>1, <1>2, <1>3, <1>4, <1>5 DEF PureInv

-----------------------------------------------------------------------------
(* The theorems                                                               *)

LEMMA Inductive == IInv /\ [Next]_vars => IInv'
<1> SUFFICES ASSUME IInv, [Next]_vars PROVE IInv'
  OBVIOUS
<1>1. CASE Next
  BY <1>1, TypeStep, StoreStep, PureStep DEF IInv, StoreInv, Next
<1>2. CASE UNCHANGED vars
  <2>1. TypeOK'
    BY <1>2 DEF vars, store, local, IInv, TypeOK
  <2>2. StoreInv'
    BY <1>2 DEF vars, store, local, IInv, StoreInv, PositionInv, VersionedInv, PassedInv, Passed,
       RegisteredIsStored, BehindInv, DoneIsRegistered, Spec1, Checksum, Active
  <2>3. PureInv'
    BY <1>2 DEF vars, store, local, IInv, PureInv, SameInv, PendingInv, SeenInv, Passed,
       RegisteredIsPublished, RefusedForOtherBytes, Spec1, Name, Local, Active
  <2> QED
    BY <2>1, <2>2, <2>3 DEF IInv
<1> QED
  BY <1>1, <1>2

LEMMA Invariance == Spec => []IInv
BY Initially, Inductive, PTL DEF Spec

\* Types, and with them the positions of every run: no run steps past the last of
\* MODEL_ARTIFACTS or the last of its files.
THEOREM Typed == Spec => []TypeOK
BY Invariance, PTL DEF IInv

\* The row is committed only when every object is there, however many runs of the
\* upload script overlap, whatever bytes they carry and wherever they break off.
THEOREM StoredFirst == Spec => []RegisteredIsStored
<1>1. IInv => RegisteredIsStored
  BY DEF IInv, StoreInv
<1> QED
  BY <1>1, Invariance, PTL

\* As long as the runs that overlap carry the same bytes, the objects of a
\* registered model are those its manifest digest covers.
THEOREM PublishedWhole == Spec => []RegisteredIsPublished
<1>1. IInv => RegisteredIsPublished
  BY DEF IInv, PureInv
<1> QED
  BY <1>1, Invariance, PTL

\* How a run of the script ends tells the truth.
THEOREM EndsTruthfully == Spec => []OutcomesAreTrue
<1>1. IInv => OutcomesAreTrue
  BY DEF IInv, StoreInv, PureInv, OutcomesAreTrue
<1> QED
  BY <1>1, Invariance, PTL

\* "refuses to replace an object or database version with different bytes": of the
\* rows this is true of every step, of the objects as long as the bytes of the runs
\* that overlap are the same.
FinalRows == \A m \in Specs : rows[m] # Absent => rows'[m] = rows[m]

FinalObjects ==
  ~mixed' => \A m \in Specs, f \in Names : objects[m][f] # Absent => objects'[m][f] = objects[m][f]

\* The version registered for a model is never replaced, and neither is an object
\* until runs with different bytes have overlapped: the replacement that a run finds
\* takes such an overlap.
THEOREM NothingReplaced == Spec => [][FinalRows /\ FinalObjects]_vars
<1>1. IInv /\ [Next]_vars => [FinalRows /\ FinalObjects]_vars
  BY Kept, Unmixed, Unreplaced DEF IInv, PureInv, Next, FinalRows, FinalObjects
<1> QED
  BY <1>1, Invariance, PTL DEF Spec
=============================================================================
