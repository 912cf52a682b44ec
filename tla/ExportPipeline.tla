---------------------------- MODULE ExportPipeline ----------------------------
(***************************************************************************)
(* leapp.compile_graph() and the export directory.  Once a session has     *)
(* stopped, compile_graph() compiles each node with its backend, builds    *)
(* the graph, writes the initial values, saves the artifacts, writes the   *)
(* YAML and validates the compiled models.  Any of these steps may raise;  *)
(* the user calls again, or starts another session of the same name, which *)
(* exports to the same directory.  A deployer loads what the directory     *)
(* holds at that moment.                                                   *)
(*                                                                         *)
(* The content of a model file is the trace it was compiled from and the   *)
(* inputs it takes; its checksum is its content.                           *)
(***************************************************************************)
EXTENDS Integers, Sequences, FiniteSets, SequencesExt

CONSTANTS NumNodes,    \* nodes of the graph, in the order of the manager
          Kinds,       \* what a node may be, see NodeKinds
          MaxSessions, \* bound: sessions that export to the directory
          MaxCalls,    \* bound: compile_graph() calls in a session
          MaxFaults    \* bound: steps that raise for an outside reason

Nodes == 1 .. NumNodes
Types == {"jit", "pt2", "onnx"}

(***************************************************************************)
(* A node.  A name is a word and a suffix: <<"x", "in">> stands for x_in,  *)
(* <<"x", "plain">> for x.  What an input shares with an output is plain.  *)
(* `drops` are the inputs the ONNX exporter optimizes away (external).     *)
(* `model` is how the exported model compares to the traced program:       *)
(*   "exact"     it computes the same                                      *)
(*   "constant"  what the first pass saw was inlined                       *)
(*   "declared"  it counts its calls in a registered buffer                *)
(*   "counter"   it counts its calls in a place nobody declared            *)
(*   "parity"    as "counter", but only odd and even differ                *)
(* A node exported with None may refer to a model file of the user's: its  *)
(* name, where 0 is one that does not exist, its type, and whether to copy *)
(* it into the export directory.                                           *)
(***************************************************************************)
Stems == 0 .. NumNodes + 1
Words == <<"u", "x", "y">>            \* in alphabetical order
Named == ToSet(Words) \X {"plain", "in", "out"}
NodeKinds ==
    [backend : Types \cup {"none"}, inputs : Seq(Named), outputs : Seq(Named),
     drops : SUBSET Named, samples : Nat,
     model : {"exact", "constant", "declared", "counter", "parity"},
     own : {<<>>} \cup (Stems \X Types), copied : BOOLEAN]

ASSUME ExportAssumption ==
    /\ NumNodes \in Nat \ {0}
    /\ MaxSessions \in Nat /\ MaxCalls \in Nat /\ MaxFaults \in Nat
    /\ Kinds # {} /\ Kinds \subseteq NodeKinds
    /\ \A k \in Kinds : \A x \in ToSet(k.inputs) \cap ToSet(k.outputs) : x[2] = "plain"

Phases == {"idle", "compile", "graph", "initial", "save", "describe", "dump", "validate"}
Outcomes == {"none", "raised", "returned", "validated"}  \* the last: validated strictly
Modes  == {"off", "lenient", "strict"}   \* validate=False, strict=False, strict=True

\* Files: the export directory and the user's own.
Files   == {"out", "own"} \X Stems \X Types
NoFile  == <<"none", 0, "none">>

Content(s, n, inputs) == [trace |-> <<s, n>>, inputs |-> inputs]
Nothing  == Content(0, 0, <<>>)
Unopened == Content(-1, 0, <<>>)      \* a program whose file does not exist

VARIABLES
    session,  \* sessions traced so far
    kind,     \* the nodes of the session
    dry,      \* the session is a dry run
    names,    \* node.inputs and node.outputs, by name
    model,    \* export_backend.compiled_model
    saved,    \* node.model_path and node.sha256sum
    pipeline, \* the names the pipeline description uses
    disk,     \* the content of the files
    initial,  \* the session whose initial values are on disk, or 0
    yaml,     \* the YAML file
    phase,    \* the step compile_graph() is at
    at,       \* the node that step is at
    mode,     \* how the call validates
    passed,   \* nodes that passed in this call
    outcome,  \* how the last call of the session ended, see Outcomes
    calls,    \* calls in this session
    faults    \* faults so far

vars == <<session, kind, dry, names, model, saved, pipeline, disk, initial, yaml,
          phase, at, mode, passed, outcome, calls, faults>>

NoModels == [n \in Nodes |-> Nothing]
Unsaved  == [n \in Nodes |-> [file |-> NoFile, sha |-> Nothing]]
Declared(k) == [n \in Nodes |-> [inputs |-> k[n].inputs, outputs |-> k[n].outputs]]

NoYaml  == [status |-> "none", session |-> 0, nodes |-> <<>>, pipeline |-> <<>>]

Init == /\ session = 0 /\ dry = FALSE
        /\ kind = [n \in Nodes |-> CHOOSE k \in Kinds : TRUE]
        /\ names = Declared(kind)
        /\ model = NoModels /\ saved = Unsaved /\ pipeline = names
        /\ disk = [f \in Files |-> IF f[1] = "own" /\ f[2] # 0
                                   THEN Content(0, f[2], <<>>) ELSE Nothing]
        /\ initial = 0 /\ yaml = NoYaml
        /\ phase = "idle" /\ at = 1 /\ mode = "off" /\ passed = {}
        /\ outcome = "none" /\ calls = 0 /\ faults = 0

-----------------------------------------------------------------------------
(* The session *)

\* leapp.start(), the passes and leapp.stop(): new nodes with what they declare.
\* A dry run exports every node with None.
Trace(k, d) ==
    /\ phase = "idle"
    /\ session < MaxSessions
    /\ session' = session + 1
    /\ kind' = [n \in Nodes |-> IF d THEN [k[n] EXCEPT !.backend = "none", !.own = <<>>]
                                     ELSE k[n]]
    /\ dry' = d
    /\ names' = Declared(k)
    /\ model' = NoModels
    /\ saved' = Unsaved
    /\ calls' = 0
    /\ outcome' = "none"
    /\ UNCHANGED <<pipeline, disk, initial, yaml, phase, at, mode, passed, faults>>

\* leapp.compile_graph().
CompileGraph(m) ==
    /\ phase = "idle"
    /\ session > 0 /\ calls < MaxCalls
    /\ calls' = calls + 1
    /\ mode' = m
    /\ passed' = {}
    /\ outcome' = "none"
    /\ phase' = IF dry THEN "graph" ELSE "compile"
    /\ at' = 1
    /\ UNCHANGED <<session, kind, dry, names, model, saved, pipeline, disk, initial,
                   yaml, faults>>

\* compile_graph() ends, and its locals with it.
Ends(how) == phase' = "idle" /\ at' = 1 /\ mode' = "off" /\ passed' = {} /\ outcome' = how
Raised == Ends("raised")

\* Fault: the loop goes one node too far.
OnwardPast(next) ==
    IF at <= NumNodes THEN at' = at + 1 /\ phase' = phase
                      ELSE at' = 1 /\ phase' = next

\* A step that goes over the nodes is done with this one.
Onward(next) ==
    IF at < NumNodes THEN at' = at + 1 /\ phase' = phase
                     ELSE at' = 1 /\ phase' = next

-----------------------------------------------------------------------------
(* ExportBackend.compile *)

\* Fault: names are compared with those the program declared.
OverlapsDeclared(n) ==
    ToSet(kind[n].inputs) \cap ToSet(kind[n].outputs)

\* Names an input shares with an output.
Overlaps(n) == ToSet(names[n].inputs) \cap ToSet(names[n].outputs)

With(name, suffix) == <<name[1], suffix>>
Renamed(seq, which, suffix) ==
    [i \in DOMAIN seq |-> IF seq[i] \in which THEN With(seq[i], suffix) ELSE seq[i]]

\* _handle_duplicate_io_names: x becomes x_in and x_out, word after word, and
\* the first name with one of these taken raises; those before it are renamed.
Place(name) == CHOOSE i \in DOMAIN Words : Words[i] = name[1]
Clashes(which, io) ==
    LET used == ToSet(io.inputs) \cup ToSet(io.outputs)
    IN  {x \in which : {With(x, "in"), With(x, "out")} \cap used # {}}
Clashing(n) == Clashes(Overlaps(n), names[n])
Separable(n) == {x \in Overlaps(n) : \A y \in Clashing(n) : Place(x) < Place(y)}
Separated(n) ==
    [inputs  |-> Renamed(names[n].inputs, Separable(n), "in"),
     outputs |-> Renamed(names[n].outputs, Separable(n), "out")]

\* The names of a list that are in a set.
Filtered(list, set) ==
    LET Prefix[i \in 0 .. Len(list)] ==
            IF i = 0 THEN <<>>
            ELSE IF list[i] \in set THEN Append(Prefix[i-1], list[i]) ELSE Prefix[i-1]
    IN  Prefix[Len(list)]

\* The inputs of the program the ONNX exporter makes (external).
Taken(n, io) == Filtered(io.inputs, {x \in Named : With(x, "plain") \notin kind[n].drops})

\* _sync_inputs_with_onnx: the node forgets the inputs the program lacks.
Synced(n, io) == [io EXCEPT !.inputs = Filtered(@, ToSet(Taken(n, io)))]

\* The module takes every declared input: the source of a function names
\* them all, and the graph of a traced node has them as placeholders.  A node
\* that has forgotten one cannot be exported again.
Complete(n) == Len(names[n].inputs) = Len(kind[n].inputs)

Compilation(ok, io, m) == [ok |-> ok, names |-> io, model |-> m]

CompiledOnnx(n) ==
    LET io == Separated(n)
    IN  IF Complete(n) /\ Clashing(n) = {}
        THEN Compilation(TRUE, Synced(n, io), Content(session, n, Taken(n, io)))
        ELSE Compilation(FALSE, io, model[n])

\* Torch backends and torch.export.
CompiledTorch(n) ==
    Compilation(TRUE, names[n], Content(session, n, names[n].inputs))

Path(dir, n) == <<dir, kind[n].own[1], kind[n].own[2]>>
OwnFile(n) == Path("own", n)
OwnContent(n) == disk[OwnFile(n)]

\* NoneExportBackend: a file is loaded to validate it.  ONNX files are opened
\* on the first call only, and .pt2 files are not supported here.
CompiledNone(n) ==
    IF kind[n].own = <<>> THEN Compilation(TRUE, names[n], model[n])
    ELSE CASE kind[n].own[2] = "onnx" ->
                Compilation(TRUE, names[n],
                    IF OwnContent(n) = Nothing THEN Unopened ELSE OwnContent(n))
           [] kind[n].own[2] = "jit" ->
                Compilation(OwnContent(n) # Nothing, names[n], OwnContent(n))
           [] kind[n].own[2] = "pt2" -> Compilation(FALSE, names[n], model[n])

Compiled(n) == CASE kind[n].backend = "onnx" -> CompiledOnnx(n)
                 [] kind[n].backend = "none" -> CompiledNone(n)
                 [] OTHER                    -> CompiledTorch(n)

\* compile_models: one node; what was compiled or renamed before a failure stays.
CompileNode ==
    /\ phase = "compile"
    /\ LET c == Compiled(at)
       IN  /\ names' = [names EXCEPT ![at] = c.names]
           /\ IF c.ok
              THEN /\ model' = [model EXCEPT ![at] = c.model]
                   /\ Onward("graph")
                   /\ UNCHANGED <<mode, passed, outcome>>
              ELSE Raised /\ UNCHANGED model
    /\ UNCHANGED <<session, kind, dry, saved, pipeline, disk, initial, yaml, calls, faults>>

-----------------------------------------------------------------------------
(* LeappGraph and the files *)

\* The connections are described by the names the nodes have now.
BuildGraph ==
    /\ phase = "graph"
    /\ pipeline' = names
    /\ phase' = IF dry THEN "describe" ELSE "initial"
    /\ UNCHANGED <<session, kind, dry, names, model, saved, disk, initial, yaml, at,
                   mode, passed, outcome, calls, faults>>

\* save_feedback_initial_values; every graph here has a feedback input.
SaveInitialValues ==
    /\ phase = "initial"
    /\ initial' = session
    /\ phase' = "save"
    /\ UNCHANGED <<session, kind, dry, names, model, saved, pipeline, disk, yaml, at,
                   mode, passed, outcome, calls, faults>>

Artifact(n) == <<"out", n, kind[n].backend>>

\* Where a node's model file is once it is saved: NoneExportBackend.save copies
\* only when it is asked to, and has nothing to copy when the file is missing.
SavedFile(n) ==
    IF kind[n].backend # "none" THEN Artifact(n)
    ELSE IF kind[n].own = <<>> THEN NoFile
    ELSE IF ~kind[n].copied THEN OwnFile(n)
    ELSE IF OwnContent(n) = Nothing THEN NoFile
    ELSE Path("out", n)

\* The checksum is that of the file just written, or of the user's file.
SavedContent(n) ==
    IF kind[n].backend # "none" THEN model[n]
    ELSE IF kind[n].own = <<>> THEN Nothing ELSE OwnContent(n)

Written(n) == IF SavedFile(n)[1] = "out"
              THEN [disk EXCEPT ![SavedFile(n)] = SavedContent(n)] ELSE disk

\* save_models: one node.
SaveNode ==
    /\ phase = "save"
    /\ disk' = Written(at)
    /\ saved' = [saved EXCEPT ![at] = [file |-> SavedFile(at), sha |-> SavedContent(at)]]
    /\ Onward("describe")
    /\ UNCHANGED <<session, kind, dry, names, model, pipeline, initial, yaml, mode,
                   passed, outcome, calls, faults>>

\* The image is drawn and the YAML file opened for writing.
OpenYaml ==
    /\ phase = "describe"
    /\ yaml' = [NoYaml EXCEPT !.status = "partial"]
    /\ phase' = "dump"
    /\ UNCHANGED <<session, kind, dry, names, model, saved, pipeline, disk, initial,
                   at, mode, passed, outcome, calls, faults>>

TypeOfModel(n) == IF kind[n].backend # "none" THEN kind[n].backend
                  ELSE IF kind[n].own = <<>> THEN "none" ELSE kind[n].own[2]

\* get_io_descriptions: what the YAML says of the nodes.
Description ==
    [status |-> "complete", session |-> session, pipeline |-> pipeline,
     nodes  |-> [n \in Nodes |-> [file |-> saved[n].file, sha |-> saved[n].sha,
                                  backend |-> TypeOfModel(n), io |-> names[n]]]]

\* The YAML is complete; what is left is to validate.
DumpYaml ==
    /\ phase = "dump"
    /\ yaml' = Description
    /\ IF dry \/ mode = "off" THEN Ends("returned")
       ELSE phase' = "validate" /\ UNCHANGED <<at, mode, passed, outcome>>
    /\ UNCHANGED <<session, kind, dry, names, model, saved, pipeline, disk, initial,
                   calls, faults>>

-----------------------------------------------------------------------------
(* Validation *)

\* Whether a model that has been called t times since its state was last set
\* gives the recorded outputs on a sample.
Answers(k, sample, t) ==
    CASE k.model = "exact"    -> TRUE
      [] k.model = "constant" -> sample = 0
      [] k.model = "parity"   -> sample % 2 = t % 2
      [] OTHER                -> sample = t

\* Fault: the samples are run once.
PassesOnce(k) == \A s \in 0 .. k.samples : Answers(k, s, s)

\* validate_compiled_model: every sample in the order it was recorded, then
\* sample 0 again with the registered buffers as they were.
Passes(k) ==
    /\ \A s \in 0 .. k.samples : Answers(k, s, s)
    /\ Answers(k, 0, IF k.model = "declared" THEN 0 ELSE k.samples + 1)

\* A node without a compiled model passes; one that cannot run does not.
PassesNode(n) == \/ model[n] = Nothing
                 \/ model[n] # Unopened /\ Passes(kind[n])

\* validate_all_models: one node, whose compiled model is released, and the
\* verdict after the last.
ValidateNode ==
    /\ phase = "validate"
    /\ model' = [model EXCEPT ![at] = Nothing]
    /\ LET results == IF PassesNode(at) THEN passed \cup {at} ELSE passed
       IN  IF at < NumNodes
           THEN at' = at + 1 /\ passed' = results /\ UNCHANGED <<phase, mode, outcome>>
           ELSE Ends(IF mode = "lenient" THEN "returned"
                     ELSE IF results = Nodes THEN "validated" ELSE "raised")
    /\ UNCHANGED <<session, kind, dry, names, saved, pipeline, disk, initial, yaml,
                   calls, faults>>

-----------------------------------------------------------------------------
(* A step raises for an outside reason: an exporter refuses the model, the *)
(* graph is not valid, the disk is full, the user interrupts.  Part of its *)
(* effect may be done, and the YAML may be complete already.               *)
Fault ==
    /\ phase # "idle"
    /\ faults < MaxFaults
    /\ faults' = faults + 1
    /\ Raised
    /\ \/ UNCHANGED <<names, disk, yaml>>
       \/ /\ phase = "compile" /\ kind[at].backend = "onnx" /\ Clashing(at) = {}
          /\ \E io \in {Separated(at), Synced(at, Separated(at))} :
                 names' = [names EXCEPT ![at] = io]
          /\ UNCHANGED <<disk, yaml>>
       \/ phase = "save" /\ disk' = Written(at) /\ UNCHANGED <<names, yaml>>
       \/ phase = "dump" /\ yaml' = Description /\ UNCHANGED <<names, disk>>
    /\ UNCHANGED <<session, kind, dry, model, saved, pipeline, initial, calls>>

-----------------------------------------------------------------------------
(* InferenceManager: loading what is on disk *)

\* Fault: a file is loaded without comparing its checksum.
SoundUnchecked(e) ==
    /\ e.backend \in Types
    /\ e.file # NoFile
    /\ e.backend = "onnx" \/ disk[e.file] # Nothing

\* ExportBackend.load: the checksum of the file, and for all but ONNX the
\* file itself.
Sound(e) ==
    /\ e.backend \in Types
    /\ e.file # NoFile
    /\ disk[e.file] = e.sha
    /\ e.backend = "onnx" \/ disk[e.file] # Nothing

\* A complete YAML, models that load, connections between names they have.
Accepted ==
    /\ yaml.status = "complete"
    /\ \A n \in Nodes : Sound(yaml.nodes[n]) /\ yaml.pipeline[n] = yaml.nodes[n].io

-----------------------------------------------------------------------------
Step == CompileNode \/ BuildGraph \/ SaveInitialValues \/ SaveNode \/ OpenYaml
        \/ DumpYaml \/ ValidateNode

Next == \/ \E k \in [Nodes -> Kinds], d \in BOOLEAN : Trace(k, d)
        \/ \E m \in Modes : CompileGraph(m)
        \/ Step
        \/ Fault

\* A call of compile_graph() goes on until it returns or raises.
Spec == Init /\ [][Next]_vars /\ WF_vars(Step)

-----------------------------------------------------------------------------
IO       == [inputs : Seq(Named), outputs : Seq(Named)]
Contents == [trace : Int \X Int, inputs : Seq(Named)]
Paths    == Files \cup {NoFile}
Entries  == [file : Paths, sha : Contents, backend : Types \cup {"none"}, io : IO]

(* The type of every variable.  The nodes on which compile_graph() works    *)
(* exist, and no output is lost by renaming.                                *)
TypeOK ==
    /\ session \in 0 .. MaxSessions /\ calls \in 0 .. MaxCalls
    /\ faults \in 0 .. MaxFaults /\ initial \in 0 .. session
    /\ phase \in Phases /\ at \in Nodes /\ mode \in Modes /\ passed \subseteq Nodes
    /\ outcome \in Outcomes /\ dry \in BOOLEAN
    /\ kind \in [Nodes -> NodeKinds]
    /\ names \in [Nodes -> IO] /\ pipeline \in [Nodes -> IO]
    /\ \A n \in Nodes : Len(names[n].outputs) = Len(kind[n].outputs)
    /\ model \in [Nodes -> Contents]
    /\ saved \in [Nodes -> [file : Paths, sha : Contents]]
    /\ disk \in [Files -> Contents]
    /\ \/ yaml \in {NoYaml, [NoYaml EXCEPT !.status = "partial"]}
       \/ yaml \in [status : {"complete"}, session : 1 .. session,
                    nodes : [Nodes -> Entries], pipeline : [Nodes -> IO]]

(* At any moment, what a deployer would load is one export: every model is *)
(* there, has the content the YAML gave the checksum of, was traced in the *)
(* session that wrote the YAML unless it is the user's own, and takes the  *)
(* inputs the YAML lists - whatever exports are under way, have raised or  *)
(* were repeated (ExportBackend._load_onnx and _load_torchscript,          *)
(* InferenceManager._create_nodes, _sync_inputs_with_onnx).                *)
AcceptedIsOneExport ==
    Accepted => \A n \in Nodes :
        LET e == yaml.nodes[n]
            m == disk[e.file]
        IN  /\ m = e.sha /\ m # Nothing
            /\ m.trace[1] # 0 => /\ m.trace = <<yaml.session, n>>
                                 /\ m.inputs = e.io.inputs

(* What strict validation lets through repeats every recorded sample       *)
(* whatever was called before, its registered buffers aside, and the YAML  *)
(* describes the session validated (leapp_node.validate_compiled_model).   *)
Repeats(k) == \A s \in 0 .. k.samples, t \in 0 .. k.samples + 1 :
                 Answers(k, s, IF k.model = "declared" THEN s ELSE t)
ValidatedRepeats ==
    outcome = "validated" =>
        /\ yaml.session = session
        /\ \A n \in Nodes : yaml.nodes[n].backend = "none" \/ Repeats(kind[n])

(* Once no outside fault interferes, a call of compile_graph() leaves a    *)
(* bundle of its session that a deployer can load, whatever earlier calls  *)
(* left in the nodes and on disk.  This is of nodes that can be exported   *)
(* at all: no placeholder, no missing or unsupported model file, none      *)
(* copied over another's artifact, no ONNX names that clash, and no input  *)
(* the ONNX exporter drops, after which a node cannot be exported a second *)
(* time.                                                                   *)
Exportable(k) ==
    IF k.backend = "none"
    THEN k.own # <<>> /\ k.own[1] = NumNodes + 1 /\ k.own[2] # "pt2"
    ELSE k.backend = "onnx" =>
            k.drops = {} /\ Clashes(ToSet(k.inputs) \cap ToSet(k.outputs), k) = {}
Recovers ==
    (/\ phase = "compile" /\ at = 1 /\ faults = MaxFaults
     /\ \A n \in Nodes : Exportable(kind[n]))
    ~> (phase = "idle" /\ yaml.session = session /\ Accepted)
=============================================================================
