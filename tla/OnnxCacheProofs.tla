--------------------------- MODULE OnnxCacheProofs --------------------------
(* Proofs about OnnxCache for any set of processes and any bound on failures.   *)
EXTENDS OnnxCache, TLAPS

\* What is being published is complete: a temporary graph that is about to be
\* renamed, and temporary metadata that is about to be renamed.
DraftInv ==
  \A p \in Loaders : /\ pc[p] = "replace" => draft[p] = "whole"
                     /\ pc[p] = "publish" => note[p] = "whole"

\* A graph appears whole and never goes away again: a process that has seen one,
\* or has put its own into place, may rely on it at every later step.
GraphInv ==
  /\ graph \in {"absent", "whole"}
  /\ \A p \in Loaders :
       pc[p] \in {"metadata?", "note", "publish", "open"} => graph = "whole"

IInv == TypeOK /\ DraftInv /\ GraphInv /\ MetadataVouches

LEMMA Initially == Init => IInv
BY LoaderAssumption DEF Init, IInv, TypeOK, DraftInv, GraphInv, MetadataVouches, States

\* The steps that touch neither file of the cache.
LEMMA PrivateStep ==
  ASSUME IInv, NEW p \in Loaders,
         \/ Start(p) \/ TestGraph(p) \/ TestMetadata(p) \/ BeginExport(p)
         \/ FinishExport(p) \/ WriteMetadata(p) \/ OpenSession(p)
  PROVE  IInv'
<1> USE DEF IInv, TypeOK, States, cache, Goto
<1>1. TypeOK'
  BY DEF Start, TestGraph, TestMetadata, BeginExport, FinishExport, WriteMetadata, OpenSession
<1>2. DraftInv'
  BY DEF DraftInv, Start, TestGraph, TestMetadata, BeginExport, FinishExport, WriteMetadata,
     OpenSession
<1>3. GraphInv'
  BY DEF GraphInv, MetadataVouches, Start, TestGraph, TestMetadata, BeginExport, FinishExport,
     WriteMetadata, OpenSession
<1>4. MetadataVouches'
  BY DEF MetadataVouches, Start, TestGraph, TestMetadata, BeginExport, FinishExport,
     WriteMetadata, OpenSession
<1> QED
  BY <1>1, <1>2, <1>3, <1>4

\* The two renames into the cache.
LEMMA RenameStep ==
  ASSUME IInv, NEW p \in Loaders, ReplaceGraph(p) \/ ReplaceMetadata(p)
  PROVE  IInv'
<1> USE DEF IInv, TypeOK, States, Goto
<1>1. TypeOK'
  BY DEF ReplaceGraph, ReplaceMetadata
<1>2. DraftInv'
  BY DEF DraftInv, ReplaceGraph, ReplaceMetadata
<1>3. GraphInv'
  BY DEF DraftInv, GraphInv, ReplaceGraph, ReplaceMetadata
<1>4. MetadataVouches'
  BY DEF DraftInv, GraphInv, MetadataVouches, ReplaceGraph, ReplaceMetadata
<1> QED
  BY <1>1, <1>2, <1>3, <1>4

\* A failure or a crash takes what is temporary, and nothing of the cache.
LEMMA FailureStep ==
  ASSUME IInv, NEW p \in Loaders, ExportFails(p) \/ Crash(p)
  PROVE  IInv'
<1> USE DEF IInv, TypeOK, States, cache, Goto
<1>1. TypeOK'
  BY LoaderAssumption DEF ExportFails, Crash
<1>2. DraftInv'
  BY DEF DraftInv, ExportFails, Crash
<1>3. GraphInv' /\ MetadataVouches'
  BY DEF GraphInv, MetadataVouches, ExportFails, Crash
<1> QED
  BY <1>1, <1>2, <1>3

LEMMA Inductive == IInv /\ [Next]_vars => IInv'
<1> SUFFICES ASSUME IInv, [Next]_vars PROVE IInv'
  OBVIOUS
<1>1. ASSUME NEW p \in Loaders, Load(p) PROVE IInv'
  BY <1>1, PrivateStep, RenameStep DEF Load
<1>2. ASSUME NEW p \in Loaders, ExportFails(p) \/ Crash(p) PROVE IInv'
  BY <1>2, FailureStep
<1>3. CASE UNCHANGED vars
  BY <1>3 DEF vars, cache, IInv, TypeOK, DraftInv, GraphInv, MetadataVouches
<1> QED
  BY <1>1, <1>2, <1>3 DEF Next

LEMMA Invariance == Spec => []IInv
BY Initially, Inductive, PTL DEF Spec

\* Types; temporary files exist only while their process exports.
THEOREM Typed == Spec => []TypeOK
<1>1. IInv => TypeOK
  BY DEF IInv
<1> QED
  BY <1>1, Invariance, PTL

\* Whichever process exported the pair and wherever another one stopped, metadata
\* in the cache stands beside a whole graph.
THEOREM MetadataStandsByGraph == Spec => []MetadataVouches
<1>1. IInv => MetadataVouches
  BY DEF IInv
<1> QED
  BY <1>1, Invariance, PTL

\* No process that exports can take the graph away from one about to open it.
THEOREM GraphStays == Spec => []SessionOpens
<1>1. IInv => SessionOpens
  BY DEF IInv, GraphInv, SessionOpens
<1> QED
  BY <1>1, Invariance, PTL
=============================================================================
