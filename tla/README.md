# LEAPP in TLA+

LEAPP traces an annotated PyTorch / NumPy / Warp policy, exports each annotated
node as a model, and writes a YAML that says how the models are connected;
`InferenceManager` replays the result. This directory models the protocol parts
of it: the tracing session, the samples and sources a node collects while the
program loops, the tensors and Warp regions it records on the way, the patches
that make recording possible, the graph assembled from the nodes, the export of
that graph to a directory, and the runtime that moves values along it. Numbers
are never modelled: a value is what it was computed from.

## The system

| part | code | state | operations | model |
|---|---|---|---|---|
| session | `leapp.py`, `export_manager.py`, `utils/tracing_lock.py` | `_interpret_graph`, node registry, completion counter, lock | `start`, `stop`, `compile_graph` | `LeappSession`; the inside of `compile_graph` in `ExportPipeline` |
| annotations | `export_manager.py` | the nodes | `input_tensors`, `output_tensors`, `state_tensors`, `update_state`, `register_buffer`, `module`, `method`, `warp_op` | `LeappSession` (who may call what when), `NodeSamples` (what a call records), `WarpRegion` (`warp_op`) |
| buffer tracker | `buffer_tracker.py` | injected buffers, what the attributes of the model hold | `inject`, `collect`, `restore` | `LeappSession` |
| node | `leapp_graph/leapp_node.py`, `traced_node.py` | interface, cached samples, write index, state pairs, FX graph, Warp queue | declaration, re-entry validation, `compile_trace`, pruning, validation of the exported model | `NodeSamples`, `FeedbackGraph`, `TracedCarriers`, `WarpRegion`, `ExportPipeline` |
| decorator node | `function_decorator_node.py`, `backends/module_builder.py` | interface, formats, samples, ports | `_method`, the generated `forward()` | `FunctionNode`; lock and completion in `LeappSession` |
| traced carriers | `datatypes/traced_data.py`, `datatypes/torch`, `numpy`, `primitives` | graph, proxy and port of each value | dispatch, promotion, aliasing, writes | `TracedCarriers` |
| Warp regions | `leapp_graph/warp_op.py`, `datatypes/warp/` | active region, pause, queue of segments | begin, end, discovery, capture | `WarpRegion`, `WarpTwoPasses` |
| patches | `datatypes/patching.py` and each library's `patching.py` | undo entries | `install`, `uninstall` | `TracingPatcher`; installed or not, in `LeappSession` |
| graph | `leapp_graph/leapp_graph.py` | connections, feedback connections, graph inputs and outputs | built once by `compile_graph` | `FeedbackGraph` |
| backends | `backends/` | compiled model, names, files | compile, save, load, validate | `ExportPipeline` |
| runtime | `inference_manager.py` | `value_dict` | `run_policy`, `set_input_value`, `reset`; loading | `FeedbackGraph` (values), `InferenceManager` (storage), `ExportPipeline` (what a load accepts) |
| descriptions | `utils/tensor_description.py`, `semantics.py` | names, dtypes, ports | `describe_io`, packing and unpacking | `FunctionNode` |
| FX rewrites, custom operators, Warp runtime, visualization, logging, YAML | the rest | none that outlives a call | output | not modelled |

Interaction. The program calls annotations between `start()` and `stop()`; each
call acts on the process-wide `ExportManager`, which passes it to the node of
that name. `module()` puts traced tensors into the buffers of a torch module, so
the forward pass of code LEAPP does not own changes state LEAPP will read back
in `output_tensors()`. A traced output carries its node and port to whichever
node consumes it, on this pass of the loop or on a later one; that is the only
way the graph learns its edges. `compile_graph()` reads the nodes, assigns edge
directions from the completion numbers, and writes files; `InferenceManager`
knows only these files. Between the annotations nothing is called explicitly:
patched functions and the dispatch of the carriers record what the program does,
and any of them may close a Warp region that is open.

What is hard here:

* calls are legal in almost any order: restarts, nested functions, failing
  calls, passes cut short by an exception, nodes captured twice;
* state borrowed from someone else's object must be given back on every path;
* edges, their direction and the feedback values are inferred from one or more
  executions of the loop, never declared;
* a recorded graph must follow memory: aliases, views and in-place writes;
* Warp launches are recorded by region, in one pass to discover them and one to
  capture them, and much of what closes a region is not visible in the program;
* an export is many files, written by steps that may fail and be tried again;
* run time moves references instead of values.

`PROJECT.json` lists each hazard at its line with the properties that watch it.

## Modules

`LeappSession` (with `MCLeappSession`). One action per entry point: `Start`,
`StartFails`, `Stop`, `StopFails`, `InputTensors`, `WarpSegment`, `Module`,
`ModuleFails`, `OutputTensors`, `OutputTensorsFails`, `CollectFails`,
`RestoreFails`, `EnterMethod`, `MethodRefused`, `LeaveMethod`, `CompileGraph`,
plus `Forward`: the program assigns to a buffer attribute, borrowed or not, at any
time, a plain tensor or a traced value of any node there is. The three parts of
`leapp.stop()` happen in its order: interpretation ends, the trackers restore,
the patches are uninstalled. `Stop(TRUE)` is one whose uninstalling raises, so
that the patches count as installed; in `StopFails` an attribute cannot be given
back and uninstalling is never reached; `stopRaised` is the history of both. The
first lines of `compile_trace` have three outcomes as well: `collect()` raises
and the tracker is as before (`CollectFails`), `restore()` raises half way
(`RestoreFails`), or both end (`CollectAndRestore`), after which the call may
still fail. Nodes are objects named `<<session, name>>`: after a restart the old
ones live on in call frames and buffers. What a buffer attribute holds is a
record: the owner of the value (`Nobody` if plain), whether it still is the very
tensor injected, which is what `collect()` tests with `is`, and the lender, the
node whose `module()` borrowed the attribute. The properties of buffers speak of
those lent (`Lent`); a traced value the program itself put into another attribute
is its own affair. A frame on `frames` is a `_method` wrapper that is executing its
function. `Usage` names what a program may do beyond the documented use; the runs
choose it.

`LoopProgram` describes the programs that are traced, as dataflow: for each input
of each node an origin, an age in iterations, and what stands in for the value
before there is one. `EagerLoop` is the abstract specification: in iteration t
every node reads exactly what the program would give it. `FeedbackGraph` follows
a program through tracing (`TraceNode`, `NextPass`: sources are learned as in
`publish_output_port` and `validate_io_and_update_sources`), `CompileGraph`
(`_build_connections`, feedback initial values) and replay (`RunPolicy`,
`RunNode`, `Reset`), and implements `EagerLoop` under the mapping `Eager`.
Nodes are numbered by completion order, each with one output.

`NodeSamples` is one node seen from its samples: first values, the cache slots,
the write index; passes may end anywhere, one may be a Warp capture pass. A
value is known by the pass it belongs to. `completed` is a history variable.

`InferenceManager` is `value_dict` seen as storage: which tensor each slot refers
to, what each contains, which ones the caller holds. Models may write into their
inputs or return one; the caller may write into what it holds and pass it again.
The routing table is a constant; `MCInferenceManager` gives a three-node pipeline
with a fan-out to two nodes and a final output, and a feedback edge that is a
final output as well.

`WarpRegion` follows the Warp calls of one or two nodes through
`WarpTraceSession`: `WarpCall` and `WarpReturn` are the two halves of
`__warp_function__` (the session is paused between them), `EnterBlock` and
`ExitBlock` the `with warp_op()` block, `InputTensors` and `OutputTensors` the
pass, and `TorchOperation`, `Synchronize` and `CudaWork` the boundaries; the last
is the CUPTI callback and may happen between any two steps, also during a call.
`LoseArchive` is a captured region whose archive Warp will fail to save, which
ends the capture and raises when the region closes. An open region knows the
arrays it touched (`refs`) and those it took with a producer of their own
(`ins`); only the latter are checked against the graph, as in the code.
What they share is passed along as a record (`Region`, `Becomes`) through
`Begin`, `Close`, `Terminate` and `Marker`, the functions of the code they are
named for. `prov` is the producer an array has in the graph, `writer`, a history
variable, the region that really wrote it. `WarpTwoPasses` runs the same actions
as a loop body executed twice: `First` records the labels of the first iteration,
`Second` repeats them.

`TracingPatcher` is the four registries of undo entries and what each attribute
is bound to, a sequence of wrappers. `Start` and `Stop` install and uninstall
everything, entry by entry, stopping where an assignment is refused; the Warp
backend may be unavailable or raise as a whole, before its first patch or after
some (`WarpInstalls`). Between them the program rebinds attributes (`Rebind`,
`Unbind`) and attributes begin or cease to refuse assignment (`Freeze`).

`TracedCarriers` is one node's FX graph beside the memory of the program. Every
storage has two parts; an object covers both or the first, so that objects may be
aliases and views of each other. A value is the set of what it was computed
from. `Declare` is `create_input`, at any time while the node is traced: bytes
declared under another name keep their placeholder; a plain tensor, a carrier of
a replaced graph, a carrier of this one and a published value get a fresh one. In
the last two cases the code warns, and what had the carrier's old handle is
rebound (`Rebound`, for `_input_rebindings`, which the code follows at the next
use). Declarations after the first recorded call, and redeclarations of carriers,
count as calls of the bound. The other actions are the kinds of call the
carriers dispatch: `Call` (an allocating operator), `Alias`, `Narrow`, `Convert`,
`Clone`, `Uncaptured` (a NumPy call that cannot be lowered), `InPlace`, `Assign`
and `AssignPlain` (item assignment and `copy_` on a carrier, on a plain tensor),
`Output` (compile and publish) and `ReplaceGraph` (a capture pass). In phase
`done` the same actions are what happens to values in transit between nodes.
`Run` says what the graph computes on data other than the traced; `Prune` is
`_prune_graph`.

`ExportPipeline` is `compile_graph()` step by step and the export directory: a
phase, the node it is at, and what is in files. `CompileNode`, `BuildGraph`,
`SaveInitialValues`, `SaveNode`, `OpenYaml`, `DumpYaml` and `ValidateNode` are
the steps; `Fault` makes any of them raise, with its effect, part of it or none,
after a complete YAML and during validation too. ONNX names that cannot be told
apart make compilation raise with the names before the first clash already
renamed (`Separated`). `CompileGraph` begins a call, also after one that raised,
and `Trace` another session over the same directory. `Accepted` is the loader's
verdict on what is on disk at that moment.

`FunctionNode` is a node made by `annotate.method()` whose arguments and results
are nested. A nested value maps paths to leaves; a flat name is a sequence of
words, so that names clash exactly where the joined names of the code do. `Call`
is the whole wrapper: `Capture` the first time, `Reenter` afterwards, `Refused`
for good when the capture never learned where the function is. `RecordOne` is what
happens to one argument or result, and `Recorded` to all of them until one raises.
`Forward` is the text `ModuleBuilder` generates: `PackCode` and `UnpackCode` are its
assignments, which `Executed` runs one by one around the call of the body
(`Called`). `Compile` is the renaming an ONNX backend does. `IsProgram` says what an
annotated function is, and `NamesApart` for which names the generated assignments do
not overwrite each other; all 59 programs of `MCFunctionNode` satisfy it.

In every module an operator commented `Fault:` stands just before the definition
it is a wrong version of. The specification never uses it; it records how that
definition could plausibly be wrong, and `PROJECT.json` ("mutants") says which
property notices.

## Runs

| run | shows | bounds |
|---|---|---|
| `session` | lock, completion numbers, trackers against buffers under documented use, every order and every failure of the calls | 2 names, 1 buffer, 2 sessions, 1 Warp segment per node |
| `session_buffers` | what is borrowed is given back and what is reassigned exported, with several buffers to a tracker | 2 names, 2 buffers, 1 session, 1 Warp segment per node |
| `session_every_usage` | patches outlive interpretation only if `stop()` raised, objects are numbered once, whatever the program does | 1 name, 1 buffer, 2 sessions |
| `feedback` | for all programs of 3 nodes with 2 inputs each whose values are at most one iteration old: the graph is the program's dataflow and the replay is the loop | 2 or 3 passes, 3 runs between resets |
| `samples` | samples are whole iterations, none is passed over | 7 passes, 3 samples |
| `inference` | sharing of tensors is never visible to models, caller or feedback, also after a model raised | 3 nodes, 2 runs, 1 caller write, 2 tensors per place |
| `warp` | what a node exports follows the regions; the capture pass records the discovery; blocks keep their region; the CUDA stream leaves capture mode, also when an archive is lost | 1 node, 2 arrays, 2 sites, 2 regions a pass, 2 passes |
| `warp_two_passes` | two passes suffice: an iteration repeated is accepted step by step and leaves nothing to capture | 2 nodes, 1 array, 8 steps |
| `patches` | uninstalling gives all originals back and none of the program's bindings away, also when the Warp backend failed to start; a session intercepts all it should | 2 sessions, 6 attributes, 3 of which may refuse |
| `carriers` | the graph, whole and pruned, computes what the program computed; ports name what was published; carriers share a cell exactly if they share memory, declared late or repeatedly included | 3 calls, 2 passes, 4 allocations, 3 named tensors and a temporary |
| `export` | what a loader accepts is one export; strict validation means repeatable; a call repeated without faults ends in a loadable bundle | 2 nodes of 7 kinds, 2 sessions, 2 calls each, 1 fault |
| `function` | the generated `forward()` is the function on all samples; ports name the leaves returned | 4 calls, 3 samples, 59 programs in 7 families |

Why the bounds suffice. In `LeappSession` a property relates at most two nodes
(same number, one buffer refused because of the other), and nothing survives two
restarts that does not survive one. What a tracker leaves behind half way needs a
second buffer and no second session (`session_buffers`), what a session leaves to
the next needs no second buffer (`session`); the theorems are for any number of
both. Three nodes are the least with an edge that
skips a node; two inputs the least with a duplicate source; two passes are what
the documentation asks for and a third shows that nothing learned is lost; the
third run shows feedback of feedback. Three samples are sample 0, a first and a
last slot; seven passes leave room for a failed pass in each of them and for the
capture pass. A tensor place needs a second generation because a clone is made
while the previous one may still be referred to.

A Warp queue of two regions has an order to get wrong, and two sites a boundary
that moves; the effect of a second node on a region shows with eight steps:
input, call, return and output of each. Two starts are enough for a wrapper of
an old session under one of a new. A fault of the carriers needs three calls: one
to make an alias, one to write, one to read; two temporaries or four calls add
states and no new violation under the mutants or the habits. Two nodes make a
partial export, two sessions make stale files, and the fault may fall into either.
Two nested parameters and two results are the least whose generated assignments
can meet; three samples as above.

`session` uses symmetry over names, `session_buffers` over names and buffers, which
no definition tells apart, `warp` over sites.
Deadlock is not checked: each system stops at its bounds, and a program may stop
calling LEAPP at any time.

Fairness. `ExportPipeline` assumes weak fairness of `Step`, the disjunction of
the steps inside `compile_graph()`: they run in one thread without waiting for
anybody, so a call goes on until it returns or raises. Nothing is assumed of the
user (`Trace`, `CompileGraph` are not fair: a call may never be made), and
`Fault` is neither fair nor unbounded: `Recovers` speaks of calls made when the
faults are used up. No other module claims liveness: a program may stop calling
at any point, and every other operation ends by itself.

## Findings

No run is expected to fail: nothing the documentation says of programs within its
limits was found false of the code. What lies outside these limits follows.

## Known deviations

Behaviours met while modelling, which the constants of the runs leave out. Where
a module can show one, the change to its configuration is given.

Session and samples:

* `start()` while interpreting resets the registry (`leapp.py:98`) and not the
  buffers injected by a pending `module()`: `Usage <- Restarting` in `Session.cfg`
  violates `BorrowedByTracker`, and `TracingMutex` by the reset of the lock.
* `module()` twice on one node loses the first tracker (`export_manager.py:697`); a
  `module()` that fails on a later buffer leaves the earlier ones promoted, known
  to no tracker; an attribute that refuses to be given back leaves the ones after
  it borrowed (`buffer_tracker.py:241`), and `stop()` raises before it uninstalls
  anything. `Usage <- SecondModule`, `<- PartialInject` and `<- Unrestorable` in
  `SessionBuffers.cfg` violate `BuffersRestored` and `ReassignedExported` each.
* A traced value the forward pass assigns to a buffer no tracker holds, because it
  is outside `buffer_names` or a failed `output_tensors()` gave the buffers back
  already, stays there after `stop()`: `Forward` allows it, and the properties,
  which are about buffers lent, say nothing of it.
* When uninstalling raises the session has ended and the patches stay
  (`leapp.py:125-130`): `PatchedWhileInterpreting` allows exactly that.
* State values of `module()` buffers are zeros in all samples but the first
  (`buffer_tracker.py:112`; `SamplesHaveStates` is violated), and a pass that leaves
  out an input still makes a sample (`Skips` against `SamplesAreIterations`).
* `compile_graph()` accepts a node whose Warp capture pass consumed its segments
  and never reached `output_tensors()`: it kept the index of the discovery pass.
* `max_cached_io = 0` still keeps sample 0.

Graph and runtime:

* Feedback is inferred only from later nodes to earlier ones, as `graph.rst:156-163`
  says: last iteration's value, read by a node that completes after its source, is
  exported as this iteration's (`leapp_graph.py:288`). `DelayedForward = TRUE` in
  `Feedback.cfg` violates `PipelineIsProgram`; so does `MaxDelay = 2`, a value two
  iterations old, which is exported as one iteration old.
* Re-entry does not notice a changed source: `InitFrom <- FirstNode` violates
  `PipelineIsProgram` as well.
* A model that returns its input makes a feedback slot alias the caller's tensor:
  `Usage <- PassingThrough` in `Inference.cfg` violates `FeedbackPersists`.
* `set_input_value()` copies into a tensor that two slots share when the caller
  passed one tensor for both.

Patches and Warp:

* A session started after a `stop()` that raised installs nothing (`clean` in
  `TracingPatcher`); `start()` on an active session ignores new `patching`. The
  Warp registry drops entries whose restoration is refused. A program that saved
  a wrapper and restores it after `stop()` keeps a stale wrapper.
  `caching_allocator_enable(False)` (`warp/patching.py:107`) is never undone.
* A third pass after an abandoned one may capture other regions than were
  discovered (`traced_node.py:122-129`); `CapturedAsDiscovered` therefore speaks
  of graphs made in two passes. What closing a region raises inside the CUPTI
  callback is swallowed (`cupti_oracle.py:128-138`; `Usage` `"callback_diverges"`),
  torch may write what an open block has written (`"torch_inside"`), and
  `output_tensors()` inside a `with warp_op()` block is accepted
  (`"output_inside"`): each violates `OutputsFollowRegions`, the last
  `CapturedAsDiscovered` as well.
* A Warp array no node has traced, used first inside the open region of one node
  and promoted later by another, breaks `TwoPassesSuffice` from 10 steps on.
* Not reached by the model: a stream capture that raises while it is entered
  (`warp_op.py:361-367`), `stop()` inside a region (`warp/patching.py:194`).

Carriers. The habits a program is not given in the run:

* `"slice"`: two overlapping slices declared separately are two inputs, and a
  write through one does not reach the other (documented in
  `torch_limitations.rst`; `traced_tensor.py:545`). `Habits = {"slice"}`,
  `Named <- MCSliced`, `Start <- MCStartSliced`, two allocations, both live, two
  calls and one pass violate `TraceFaithful`. A slice taken before tracing and
  promoted by a first write has a cell of its own as well once its base is fully
  assigned: `AssignPlain` asks for the habit when bytes of this graph are shared
  and no destination is known.
* `"split"`: bytes are declared once more, as a carrier, as a published value or
  under the name they have, while a view, an undeclared alias or a published value
  of this graph still refers to them. The second placeholder is a cell of its own
  (`traced_node.py:470-476, 499-511, 569-578`; `test_shared_memory_arrays.py:204-260`
  does it with published values), and what is written through one carrier no
  longer reaches the other: `Habits = {"split"}` in `Carriers.cfg` violates
  `TraceFaithful`, `OutputFaithful` and `AliasesShareCells`.
  `_validate_declared_input_aliases` refuses an output whose declared carrier
  survives under another root, and nothing else.
* `"bare"`: an in-place operation on a plain alias of a carrier, one that is
  gone included, records its value as a constant, and violates the same three.
  `"stale"`: assigning a value of a replaced graph; it violates `TraceFaithful`
  and `GraphClosed`. `"shared"`: a write to a value in transit through one alias
  leaves the port of the other.
* Plain operands are constants held by reference; NumPy carriers of a replaced
  graph are never shed.

Export:

* `export_with=None` with a `.pt2` model file always raises
  (`export_backend.py:558`), though `guides/export.rst` promises it; a missing
  ONNX file of the user's is accepted, its checksum being `None` on both sides.
* Copying the user's file may overwrite the artifact of another node. A node that
  lost an input to the ONNX exporter cannot be compiled again. Initial values and
  external ONNX data have no checksum. A dry run overwrites a real YAML. A strict
  validation that fails raises after the bundle is on disk.
* Hidden state of the exported model that returns to its start after exactly the
  samples replayed passes validation; a second `validate_all_models()` passes
  vacuously, since compiled models are released.

Decorator node:

* A nested parameter or result followed by one that has a leaf of its name is
  overwritten by the generated assignments; so is a nested result `[t]` returned
  beside a variable that has the name it gets by default (`output1`,
  `utils/utils.py:252`).
* Names that clash only on a later call go unnoticed (the second leaf is stored
  over the first), and so do fewer leaves. A capture refused for its result names
  passes as re-entry the next time, and is never numbered. A capture that raised
  over its inputs makes the node refuse every later call.
* In an `output_tensors()` payload two leaves with one flat name lose an output
  before names are compared (`tensor_description.py:491`).

## Proofs

Every theorem is for all values of the constants that satisfy the assumptions of
the module, plus the hypotheses named here. A hypothesis is there because TLC
finds the conclusion false without it; what it leaves out is under "Known
deviations". Each inductive invariant was checked by TLC, as an invariant of the
run of its module, before it was proved. Inductions over lists and passes use the
well-foundedness of `<` on `Nat` for a set (`UpTo` in `ExportPipeline_proofs`,
`Least` and `UpTo` in `Nodes_proofs` and `TracedCarriers_proofs`), since the induction
theorems of the library take an operator as parameter.

### Session

`LeappSession_proofs` proves, for any names, buffers and bounds, `TypeOK` for every
`Usage`; under `Usage = {}` (the program restarts no active
session, calls `module()` once per trace, and no `module()` fails half way):

* `BorrowedAlways`: `BorrowedByTracker`, inductive with `TrackerInv`, which says
  that a tracker with buffers to give back is of a tracing node, uncollected, and
  lists states of that node (`BufferInv`). Whatever the program assigns (`Forward`)
  touches neither lender nor tracker; a `collect()` that raises keeps both;
* `RestoredAlways`: `BuffersRestored`, from the same: a buffer lent outside a
  session would contradict `BorrowedByTracker`, and `Stop` has given back what every
  tracker listed before uninstalling can raise;
* `ReassignedAlways`: `ReassignedExported`, an action property, from the same;
* `MutexAlways`: `TracingMutex`, by `FrameInv`;
* `OrderAlways`: `CompletionOrder`, by `OrderInv`, which also needs `FreshInv`
  (nodes of sessions to come are absent) and that the frame on the stack is
  the only one to complete a `_method` node;
* `CompiledAlways`: `CompiledAtRest`, by `RestInv`: the two invariants above
  and `AcceptedInv`, that an accepted session is stopped and its nodes numbered;

and for every `Usage`:

* `PatchedAlways`: `PatchedWhileInterpreting`, `patched => interpreting \/
  stopRaised`. What it excludes is a `start()` that fails over the patches of an
  earlier one: it can raise only where it installs (`StartFails` needs
  `Installs`), and then none are there, also after a restart and after a
  `stop()` that raised;
* `NumberedAlways`: `NumberedOnce`, an action property, by `HeldInv`: what a
  call frame refers to is never a forgotten node, so the number given when the
  call returns goes to an object that has none.

`BorrowedByTracker` is not inductive alone: `OutputTensors` gives back only if the
tracker is not collected yet, and `Module` replaces a tracker, so one has to know
that one with buffers in it is neither collected nor of a captured node. `Start`
forgets trackers, and finds none pending since no buffer is lent when no session
runs.

### Feedback graph and samples

`FeedbackGraph_proofs` proves `TypeOK` for every program, and two theorems for
the programs LEAPP's feedback detection is made for (`OneBack`): a feedback
value is one iteration old, the node that reads it does not complete after its
source, what stands in for it on the first pass is a plain tensor, and the loop
is traced at least twice. The number of nodes, ports, passes and runs is
arbitrary.

* `PipelineAlways`: `PipelineIsProgram`. It is not inductive, since it speaks of
  the phase after capture only. `LearnedInv` says what capture has learned so
  far: an input has no source but the program's, and has it from the first
  pass on which a published value of the right age reached it (`Seen`).
* `ReplayImplements`: `ReplaysEager`, the refinement of `EagerLoop`. It needs
  what the slots of the running pipeline hold (`SlotInv`): a forward input the
  value of this run once its source has run, a feedback input that of the
  previous run until then, or its initial value on the first run. From it each
  step of replay is a step of the loop, or a stutter.

The run `feedback` satisfies `OneBack`. TLC finds both conclusions false as soon as
the run drops a conjunct: on the age (`MaxDelay = 2`), on the order
(`DelayedForward = TRUE`), on initial values (`InitFrom <- FirstNode`).

`Nodes_proofs` proves `TypeOK` and `KeptAlways` (`SamplesKept`) with no
assumption, `BoundAlways` (`SampleBound`) for `max_cached_io >= 1`, and
`SamplesAlways` (`SamplesAreIterations`) if no pass that completes leaves out an
annotation (`Skips = {}`; otherwise a sample may mix iterations). The
first two rest on `IndexInv`, which ties the write index to the passes that
completed. `SamplesAlways` adds what the slots hold: the first sample is pass 1
(`FirstInv`), each finished slot is the pass it was completed by
(`FinishedInv`), and the slot under the write index holds the pass under way
wherever the pass has got to (`UnderWayInv`), which is what makes the step that
finishes it preserve the property.

### Decorator nodes

The second part of `Nodes_proofs` is about `FunctionNode`, for any set of programs
(signatures, structures of arguments and results, bodies), any number of calls and
of samples, and every call that fails on the way:

* `FunctionTypeCorrect`: `FunctionTyped`, what the node's descriptions, formats and
  slots look like after any call, and that the index stays within the slots;
* `PortsAlways`: `PortsNameOutputs`, with no hypothesis. Ports are assigned by the
  first call alone, from descriptions whose structure was recorded to its end, and
  a rename changes names but no port.
* `ReplayAlways`: `ReplaysCalls`, for programs whose names are apart (`NamesApart`).

`NamesApart` concerns only interfaces whose flat names differ, since others are
refused at the first call. It asks that a nested argument is not assigned to the
variable of a later argument's leaf, plain or with the suffix of a rename; that a
nested result shares its name with no other result nor with an output assigned
earlier; and that no structure given to a later call has two leaves with one
name of the interface. The proof needs each of these, and so does the property:
for each there is a small function that breaks it, such as
`f(x_0={"a": t}, x=[u])`, whose body gets the dictionary as the element of `x`.

The invariant is `SamplesInv`. Once the node has its number there is a structure
`s` of the arguments, that of the call which captured it, such that:

* `Interfaced`: formats and descriptions correspond one to one, in order, and
  their names, renamed or not, keep the assignments out of each other's way;
* `Agree`, for each sample up to the index: the leaf of a result is the leaf of the
  argument the body takes it from;
* `FirstNames`: until the rename, a description has the flat name of its leaf, which
  is how a later call with another structure finds its slots.

The first conjunct relates the interface to code that is generated later and the
second speaks of recorded values only, so `ReplaysCalls` follows from them with no
reference to the calls (`ForwardReplays`). The argument goes from bottom to top:

* `AddLeaves` and its like say what one argument or result does to the interface, and
  `RecordedDef` gives the recursive function in `Recorded` its equation, so that
  `CaptureAll` and `StoreAll` go from argument to argument;
* `Kept`: a call that fails half way has written nothing but the slot past the
  index, which no property reads and the next call overwrites (`KeptAgree`,
  `NewAgree`);
* `RenamedInterface`: a suffix not in use keeps names distinct and apart;
* `ExecutedDef` does for the assignments what `RecordedDef` does for arguments;
  then each nested argument is packed from inputs no assignment has touched
  (`PackedIn`), and each output unpacked while its result is still held
  (`UnpackedIn`, `HeldResults`).

### Inference manager

`InferenceManager_proofs` proves `TypeOK` for every routing, and, if no model
returns one of its inputs (`"pass_through" \notin Usage`; models may write into
them, and the caller into what it holds), that a node reads what this run computed
(`ForwardAlways`), the caller gets it (`ReturnedAlways`), and what the caller does
to its tensors never reaches the feedback (`FeedbackAlways`). The argument is
ownership (`SlotsOwned`): the tensor of a routed slot was allocated for that very
slot, that of a slot the caller fills is its first one or one the caller was
given, and the caller holds only tensors of final outputs and its own. So no write
of a model or the caller hits a slot that was delivered and is still to be read
(`ForwardInv`), nor a final output of this run (`FinalInv`). The module assumes of
its constants that sources run before the nodes they feed forward
(`RoutingAssumption`) and that its bounds are natural numbers.

### Warp regions

`WarpRegion_proofs` proves `TypeOK`, `BlockAlways` (`BlockKeepsRegion`) and
`StreamAlways` (`StreamCaptured`) for any nodes, arrays, calls, sites and bounds
and every `Usage`, so also for programs whose capture pass diverges or which
return outputs inside a block. `NoneAssumption` says that `None` is neither a node
nor an open region. A step of this module passes a record from operator to
operator, and so does the proof: one lemma for each of `Marker`,
`TerminateDiscovery`, `TerminateCapture`, `Terminate`, `Close`, `Opened`, `Begin`
and `Resolve` says what it does to a well-formed record, and one lemma for each
action joins them. The invariant is inductive only with `NextQueued`: the region
being captured is the head of its node's queue; without it, ending a region could
remove another one from the queue.

* `OutputsAlways`: `OutputsFollowRegions`, for programs within the documented
  use (`Usage = {}`). `FlowInv` has three parts. The books: producers and
  writers are of passes that have begun, and the open region is the last one
  begun (`Dated`, `Begun`, `Latest`). Unless the pass has raised, every array of
  a node being traced has a producer of this pass no older than its last
  writer, or belongs to the open region and gets one when that closes (`Flow`).
  And a call under way has its region open, unless its node is not tracing, and
  its arrays are raw or of the current pass of its node (`Executing`), so that the
  return of a call does not undo what a boundary inside it did.
* `CapturedAlways`: `CapturedAsDiscovered`, unless `output_tensors()` is called
  inside a block (`"output_inside" \notin Usage`). `QueueInv` counts: in the
  first pass every recorded region is queued, in order; in the second the queue
  is what is left of the list and the runners of the graph are the regions
  before it, call for call, without the empty ones (`Replays`). Everything that
  closes a region moves one from the queue to the runners, or diverges, or has
  lost its archive (`LoseArchive`), and raises.

### Carriers

`TracedCarriers_proofs` proves for any program variables, allocations and
bounds: `TypeOK`, which includes that a carrier's proxy names a recorded node
for the very part of the storage it covers, for every habit of the program;
`ClosedAlways` (`GraphClosed`) if the program assigns nothing traced in a graph
since replaced (`"stale" \notin Habits`); `PortAlways` (`PortTruthful`) if it
writes no bytes another output was published from (`"shared" \notin Habits`).
The inductive invariant is `CarrierInv`: what each variable is (`Variable`),
what the index of layouts refers to (`IndexInv`: a carrier of this pass that
still covers its layout and is no output). `PortTruthful` needs besides a frame:
a step writes no bytes but those of the object it is called on, and drops the
ports of all its aliases.

`TraceAlways` and `OutputAlways` are what the tracer is for: `TraceFaithful` and
`OutputFaithful`; `AliasesAlways` is `AliasesShareCells`, on which both rest.
They hold if the program has none of the habits `"bare"`, `"slice"`, `"split"`
and `"stale"` (`Honest`; what they are is under "Known deviations", and TLC
violates `TraceFaithful` with each of them alone). `torch_limitations.rst:14`
excludes the first two: aliases must be represented in the captured graph; of
the third the code warns where a carrier or a published value is declared again.
What is left is still any number of declarations of the same bytes, late or
repeated, and a carrier declared again whose every alias is rebound with it. The
invariant added is `FaithInv`: while a node is traced, its graph mirrors the
memory. `Mirrors` says of everything in `Held` (the handle of each carrier of
the pass, and each node that stands for a whole allocation, which a plain tensor
may be promoted onto later) that its cell holds what the storage does, unless it
is tainted by a failed capture, and that two of them have one cell exactly if
they are of one storage. The second part is why a `copy_` recorded through one
view is right for all the others, and what `TraceFaithful` alone lacks to be
inductive; it is kept since an allocation reuses storage only after every node
that stood for it forgot it (`Forget`, the weak layouts), and since a second
placeholder for bytes takes every handle of the first along (`RebindsHandles`:
the other carriers keep theirs or follow). Nodes of a layout that is declared no
longer count as standing for it (`Standing`): a plain tensor over those bytes is
promoted onto what is declared, not onto them. The argument goes from bottom to
top:

* `CellDef`, `TrailDef` and `NeedDef` give the recursive functions `CellOf`, `Run` and
  `Reached` their equations (each exists by an induction, `UpTo`, over a set of
  numbers);
* `TrailBegins`: nodes recorded later do not change what earlier ones compute, and
  with `CellsAppended` and `TaintSpreads` a graph `Continues` another;
* one lemma per kind of node says what it computes (`CallComputes`, `PutComputes`,
  `RefComputes` ...), and `MirrorsNew`, `MirrorsView`, `MirrorsWrite` what it does to
  the mirror;
* one lemma per action (`CallFaithful` ... `DeclareFaithful`) that it keeps
  `FaithInv`;
* `KeptRun`: a pruned graph which keeps every write and is closed under arguments
  (`PruneFacts`) computes for its nodes what the whole graph does.

### Patches

`TracingPatcher_proofs` proves, for any attributes, wherever they overlap, any
number of sessions and any attributes that come to refuse assignment: `TypeOK`,
`OriginalsAlways` (`OriginalsBack`), `InterceptedAlways` (`Intercepted`) and
`KeptAlways` (`ProgramKept`, an action property). There are no hypotheses but
that the attributes are finitely many. The invariant is `PatchInv`. Its heart is
`Undoable`: laid end to end in the order the backends install, the four
registries are one stack (`Stack`), and for every attribute the stack is a chain
(`Chain`) from what it is bound to down to what had no wrapper of LEAPP; under
each entry lies what the next one of the same attribute had put there. Install
pushes on this stack and uninstall pops from it (`StackPush`, `StackPop`), so a
pop finds the wrapper it looks for. That holds only if a group is touched while
those above it are empty (`Topmost`), which is why the order of `UninstallAll`
matters and `Uninstalled` must skip a backend that is not ready. Attributes left
out (not `Free`) are those the program rebound over a wrapper and those of Warp
that refuse: their entries are dropped with the wrapper in place. A failing
`start()` comes back to nothing because no attribute it has patched refuses
(`Loose`).

### Export

`ExportPipeline_proofs` proves `TypeOK`, and that no export ever writes a file
of the user's (`OwnFilesIntact`), for any nodes, kinds, sessions, calls and
faults; `AcceptedAlways`: `AcceptedIsOneExport`, if an ONNX model named by the
user and not copied exists (`Deployable`: the YAML gives no checksum for one
that is missing); `ValidatedAlways`: `ValidatedRepeats`, if hidden state of an
exported model is not back where it started once the samples have been run
(`NoCycle`). The invariants say what the phases of a call have already replaced:
nodes before `at` are compiled by this call (`MadeInv`), then saved by it
(`StoredInv`), and a complete YAML gives of each node a checksum of its own
session and interface, or of no model of LEAPP's (`YamlInv`). So an accepted
directory, in which checksums match the files, is one export, whichever later
call failed over it. `CheckedInv` ties validation to the models of the call. A
node whose ONNX names clash may have been renamed in part when its compilation
raises, and its outputs are still all there (`CompiledNames`).

### Only model-checked

`TwoPassesSuffice`, which is stated with `ENABLED`, and the liveness property
`Recovers`, both beyond the prover.

## Abstractions

* Except in `FunctionNode`, payloads are flat; semantics, shapes and dtypes are
  not modelled, so a call that is refused for one of them is the failing variant
  of its action.
* In `FeedbackGraph` a node has one output and replay has no failures; failures
  of replay are in `InferenceManager`, whose values are abstract.
* Keys of the `inputs` dictionary of `run_policy` are the external ones
  (`manager.inputs`).
* A program that stops a session inside a traced function is refused by the
  lock as in the code; `start()` inside one is accepted as in the code.
* In `WarpRegion` an archive is the list of its calls. A torch operation is one
  alias read; kernels, devices and strides are left out.
* In `LeappSession` a borrowed attribute that cannot be given back is not a state
  of its own: under `"unrestorable"` any attribute may refuse at any restore.
* In `TracedCarriers` only the tensors the program holds when tracing starts
  (`Named`), and of them those whose data changes from run to run (`Live`), are
  declared. Operators are symmetric difference on what values depend
  on, so that no write is idempotent and no operand can be lost unnoticed; views
  are the whole or the leading part; `functionalize` of torch is taken to
  preserve meaning.
* In `ExportPipeline` a model file is its trace and its inputs, and a checksum is
  the content. Which inputs the ONNX exporter drops, and how an exported model
  differs from the traced program, are given with the kind of node.
* In `FunctionNode` the body moves leaves and computes nothing; TorchScript
  typing and the namespaces it captures are left out.

## Not modelled

FX rewrites (`aten_rewrites.py`) are numeric identities of single operators.
The custom operator registry and the Warp runtime are binary archives and a C++
runner with no state beyond a call. Visualization, logging and the YAML writer
only produce output. `datatypes/traced_tensor.py` is an earlier copy of
`datatypes/torch/traced_tensor.py` that nothing imports. The dispatch tables of
the carriers map operators to FX targets one by one; the model has one action per
way they treat memory, not one per operator.

## Plan

1. Done: session, samples, graph and runtime; Warp regions, patches, carriers,
   export and decorator nodes; the session's main safety properties, the feedback
   graph with its refinement, the samples, the ownership and capture of Warp
   regions, the inference manager, the patches, the carriers (inputs, ports, and
   that the recorded and the pruned graph compute what the program does), the
   acceptance of exports and the replay of decorated functions proved.
2. Abstract specifications: a session contract (buffers lent and given back)
   that `LeappSession` implements; `EagerLoop` for the composition of graph and
   storage.
3. Models: `register_buffer` and the argument matching of `method`; a restarted
   session over carriers of a live node of the same name; compatibility checks of
   the graph.
