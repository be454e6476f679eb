----------------------------- MODULE ModelRelease ----------------------------
(* What the registry promises, apart from how it is kept: a model version is   *)
(* registered once and for all with the checksum of one build, and an API      *)
(* process serves, for every model, that build or nothing.                     *)

CONSTANTS
  Specs,     \* the models
  Checksums, \* the manifest checksums of the builds
  Absent,
  Starters   \* API processes

VARIABLES
  registered, \* the checksum of each model, or Absent
  served      \* per process: the checksum of the build it serves of each model

vars == <<registered, served>>

Nothing == [m \in Specs |-> Absent]

Init ==
  /\ registered = Nothing
  /\ served = [s \in Starters |-> Nothing]

Register(m, checksum) ==
  /\ registered[m] = Absent
  /\ registered' = [registered EXCEPT ![m] = checksum]
  /\ UNCHANGED served

Serve(s) ==
  /\ \A m \in Specs : registered[m] # Absent
  /\ served[s] = Nothing
  /\ served' = [served EXCEPT ![s] = registered]
  /\ UNCHANGED registered

Stop(s) ==
  /\ served' = [served EXCEPT ![s] = Nothing]
  /\ UNCHANGED registered

Next ==
  \/ \E m \in Specs, checksum \in Checksums : Register(m, checksum)
  \/ \E s \in Starters : Serve(s) \/ Stop(s)

Spec == Init /\ [][Next]_vars
=============================================================================
