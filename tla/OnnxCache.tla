------------------------------ MODULE OnnxCache -----------------------------
(* load_onnx_text_classifier (models/onnx_runtime.py): the derived graph of a  *)
(* verified model is exported once into a cache directory named after the      *)
(* source manifest and the library versions, and later startups reuse it.      *)
(* API processes that share the directory export, crash and start again at     *)
(* any point.                                                                  *)
EXTENDS Integers

CONSTANTS
  Loaders,    \* API processes that share the cache directory
  MaxFailures \* bound: crashes and failed exports

ASSUME LoaderAssumption == MaxFailures \in Nat

VARIABLES
  graph,     \* model.onnx: "absent", or "whole"; "part" must never be seen
  metadata,  \* export.json: "absent", "part" or "whole"
  draft,     \* per process: its temporary graph, model-*.onnx
  note,      \* per process: its temporary metadata, export-*.json.tmp
  pc,        \* per process: what it does next
  session,   \* per process: the graph its InferenceSession was opened on
  failures

cache == <<graph, metadata>>
vars  == <<cache, draft, note, pc, session, failures>>

States == {"absent", "part", "whole"}

Goto(p, label) == pc' = [pc EXCEPT ![p] = label]

Init ==
  /\ graph \in {"absent", "whole"}
  /\ metadata = IF graph = "absent" THEN "absent" ELSE "whole"
  /\ draft = [p \in Loaders |-> "absent"]
  /\ note = [p \in Loaders |-> "absent"]
  /\ pc = [p \in Loaders |-> "off"]
  /\ session = [p \in Loaders |-> "absent"]
  /\ failures = 0

\* The source artifact is verified and the directory created before this.
Start(p) ==
  /\ pc[p] = "off"
  /\ Goto(p, "graph?")
  /\ UNCHANGED <<cache, draft, note, session, failures>>

TestGraph(p) ==
  /\ pc[p] = "graph?"
  /\ Goto(p, IF graph = "absent" THEN "draft" ELSE "metadata?")
  /\ UNCHANGED <<cache, draft, note, session, failures>>

TestMetadata(p) ==
  /\ pc[p] = "metadata?"
  /\ Goto(p, IF metadata = "absent" THEN "draft" ELSE "open")
  /\ UNCHANGED <<cache, draft, note, session, failures>>

\* mkstemp(), and the exporter begins to write.
BeginExport(p) ==
  /\ pc[p] = "draft"
  /\ draft' = [draft EXCEPT ![p] = "part"]
  /\ Goto(p, "export")
  /\ UNCHANGED <<cache, note, session, failures>>

\* Mutant: the exporter writes the cached file itself.
ExportInPlace(p) ==
  /\ pc[p] = "export"
  /\ draft' = [draft EXCEPT ![p] = "whole"]
  /\ graph' = "part"
  /\ Goto(p, "replace")
  /\ UNCHANGED <<metadata, note, session, failures>>

\* The export is complete and passes the checker.
FinishExport(p) ==
  /\ pc[p] = "export"
  /\ draft' = [draft EXCEPT ![p] = "whole"]
  /\ Goto(p, "replace")
  /\ UNCHANGED <<cache, note, session, failures>>

\* Mutant: the graph is copied, and the temporary file stays.
CopyGraph(p) ==
  /\ pc[p] = "replace"
  /\ graph' = draft[p]
  /\ Goto(p, "note")
  /\ UNCHANGED <<metadata, draft, note, session, failures>>

\* os.replace() of the graph.
ReplaceGraph(p) ==
  /\ pc[p] = "replace"
  /\ graph' = draft[p]
  /\ draft' = [draft EXCEPT ![p] = "absent"]
  /\ Goto(p, "note")
  /\ UNCHANGED <<metadata, note, session, failures>>

\* Mutant: the metadata is written where it is read.
WriteMetadataInPlace(p) ==
  /\ pc[p] = "note"
  /\ metadata' = "part"
  /\ note' = [note EXCEPT ![p] = "whole"]
  /\ Goto(p, "publish")
  /\ UNCHANGED <<graph, draft, session, failures>>

WriteMetadata(p) ==
  /\ pc[p] = "note"
  /\ note' = [note EXCEPT ![p] = IF @ = "absent" THEN "part" ELSE "whole"]
  /\ Goto(p, IF note[p] = "absent" THEN "note" ELSE "publish")
  /\ UNCHANGED <<cache, draft, session, failures>>

\* os.replace() of the metadata; the finally block finds nothing left to remove.
ReplaceMetadata(p) ==
  /\ pc[p] = "publish"
  /\ metadata' = note[p]
  /\ note' = [note EXCEPT ![p] = "absent"]
  /\ Goto(p, "open")
  /\ UNCHANGED <<graph, draft, session, failures>>

\* An export, a check or a write that raises: the finally block removes the
\* temporary files and the startup fails; the service starts it again.
ExportFails(p) ==
  /\ pc[p] \in {"export", "replace", "note", "publish"}
  /\ failures < MaxFailures
  /\ failures' = failures + 1
  /\ draft' = [draft EXCEPT ![p] = "absent"]
  /\ note' = [note EXCEPT ![p] = "absent"]
  /\ Goto(p, "off")
  /\ UNCHANGED <<cache, session>>

\* InferenceSession() on the cached graph; an unreadable graph ends the startup.
OpenSession(p) ==
  /\ pc[p] = "open"
  /\ \/ /\ graph = "whole"
        /\ session' = [session EXCEPT ![p] = graph]
        /\ Goto(p, "serving")
     \/ /\ graph # "whole"
        /\ Goto(p, "off")
        /\ UNCHANGED session
  /\ UNCHANGED <<cache, draft, note, failures>>

\* The process dies between any two steps; its temporary files stay behind under
\* names that are never used again.
Crash(p) ==
  /\ pc[p] # "off"
  /\ failures < MaxFailures
  /\ failures' = failures + 1
  /\ draft' = [draft EXCEPT ![p] = "absent"]
  /\ note' = [note EXCEPT ![p] = "absent"]
  /\ session' = [session EXCEPT ![p] = "absent"]
  /\ Goto(p, "off")
  /\ UNCHANGED cache

Load(p) ==
  \/ Start(p)
  \/ TestGraph(p)
  \/ TestMetadata(p)
  \/ BeginExport(p)
  \/ FinishExport(p)
  \/ ReplaceGraph(p)
  \/ WriteMetadata(p)
  \/ ReplaceMetadata(p)
  \/ OpenSession(p)

Next == \E p \in Loaders : Load(p) \/ ExportFails(p) \/ Crash(p)

\* The processes are scheduled, and the service restarts them when they exit.
Spec == Init /\ [][Next]_vars /\ \A p \in Loaders : WF_vars(Load(p))

-----------------------------------------------------------------------------
(* Properties                                                                 *)

\* Types; a process has temporary files only while it exports.
TypeOK ==
  /\ graph \in States
  /\ metadata \in States
  /\ draft \in [Loaders -> States]
  /\ note \in [Loaders -> States]
  /\ pc \in [Loaders -> {"off", "graph?", "metadata?", "draft", "export", "replace", "note",
                         "publish", "open", "serving"}]
  /\ session \in [Loaders -> States]
  /\ failures \in 0 .. MaxFailures
  /\ \A p \in Loaders : draft[p] # "absent" => pc[p] \in {"export", "replace"}

\* Metadata in the cache vouches for a whole graph, whichever process of several
\* exported it and wherever another one stopped: what lets a startup reuse the
\* pair without opening either file.
MetadataVouches == metadata # "absent" => metadata = "whole" /\ graph = "whole"

\* A startup that reaches the session finds a whole graph: no other process that
\* exports into the same directory can take it away in between.
SessionOpens == \A p \in Loaders : pc[p] = "open" => graph = "whole"

\* However many processes start together and wherever they are interrupted, all
\* of them end up serving.
AllServe == <>[](\A p \in Loaders : pc[p] = "serving")
=============================================================================
