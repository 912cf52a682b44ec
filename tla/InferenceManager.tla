-------------------------- MODULE InferenceManager --------------------------
(***************************************************************************)
(* InferenceManager at run time, as far as storage goes: which tensor each *)
(* slot of value_dict refers to, which tensors the caller holds as well,   *)
(* and what each of them contains.  run_policy() moves references, not     *)
(* values: the caller's inputs are stored as they are, a model's output    *)
(* goes to its first consumer without a copy and to the others as clones,  *)
(* and the final outputs are returned as they are cached.                  *)
(*                                                                         *)
(* A tensor is named by the place that allocated it and a generation;      *)
(* a tensor nobody refers to any more is free to be allocated again.       *)
(***************************************************************************)
EXTENDS Integers, Sequences, FiniteSets

CONSTANTS
    NumNodes,    \* models, in the order of the exported YAML
    Targets,     \* [<<node, output>> -> sequence of slots]: the connections
    External,    \* input slots the caller supplies
    Observations,\* tensors the caller allocates for its inputs
    Usage,       \* what models and callers do, see AllUsages
    Generations, \* bound: tensors one place may have alive at a time
    MaxRuns,     \* bound: run_policy() calls
    MaxWrites    \* bound: writes the caller makes to its tensors

(***************************************************************************)
(* What a model or a caller may do:                                        *)
(*   "in_place"      a model writes into its inputs                        *)
(*   "pass_through"  a model returns one of its inputs as an output, which *)
(*                   TorchScript does and the ONNX export avoids           *)
(*   "set_input"     the caller uses set_input_value()                     *)
(***************************************************************************)
AllUsages == {"in_place", "pass_through", "set_input"}

ASSUME UsageAssumption == Usage \subseteq AllUsages
ASSUME BoundsAssumption ==
    /\ NumNodes \in Nat /\ Generations \in Nat \ {0}
    /\ MaxRuns \in Nat /\ MaxWrites \in Nat

Nodes == 1 .. NumNodes

\* Slots of value_dict: the inputs of the nodes, and the "==out==" group.
\* The caller's own tensors are allocated at places of their own.
In(n, p)  == <<"in", n, p>>
Out(n, o) == <<"out", n, o>>
Own(c)    == <<"own", 0, c>>

TargetsOf(out) == {Targets[out][i] : i \in DOMAIN Targets[out]}
Routed == UNION {TargetsOf(out) : out \in DOMAIN Targets}
Slots  == Routed \cup External
Finals == {s \in Slots : s[1] = "out"}
Inputs == Slots \ Finals
Places == Slots \cup {Own(c) : c \in Observations}

\* The output that feeds a routed slot, and its position among the targets.
SourceOf   == [s \in Routed |-> CHOOSE out \in DOMAIN Targets : s \in TargetsOf(out)]
PositionOf == [s \in Routed |-> CHOOSE i \in DOMAIN Targets[SourceOf[s]] :
                                   Targets[SourceOf[s]][i] = s]

\* A node's input is fed back when it does not complete after the source.
Feedback == {s \in Routed \cap Inputs : s[2] <= SourceOf[s][1]}

\* Every output of a model is routed, to slots of its own; the slots are those
\* of nodes that exist, and no connection feeds what the caller supplies.
ASSUME RoutingAssumption ==
    /\ DOMAIN Targets \subseteq Nodes \X STRING
    /\ \A out \in DOMAIN Targets :
          /\ Targets[out] \in Seq(Slots) \ {<<>>}
          /\ \A i, j \in DOMAIN Targets[out] : Targets[out][i] = Targets[out][j] => i = j
    /\ \A a, b \in DOMAIN Targets : a # b => TargetsOf(a) \cap TargetsOf(b) = {}
    /\ Slots \subseteq {"in", "out"} \X Nodes \X STRING
    /\ External \subseteq Inputs \ Routed

-----------------------------------------------------------------------------
Tensors == Places \X (1 .. Generations)
None    == <<<<"none", 0, 0>>, 0>>

\* Contents: who wrote it, and when.
Zeros     == <<-1, 0>>
Initial   == <<-2, 0>>
Override  == <<-3, 0>>
Scratch   == <<-4, 0>>
Data(k)   == <<0, k>>
Result(n, r) == <<n, r>>
Contents  == {Zeros, Initial, Override, Scratch} \cup
             ({0} \X (0 .. MaxWrites)) \cup (Nodes \X (0 .. MaxRuns))

VARIABLES
    slot,   \* the tensor each slot of value_dict refers to
    heap,   \* what each tensor contains
    held,   \* the tensors the caller holds
    at,     \* the node that runs next; NumNodes + 1 between calls
    run,    \* run_policy() calls begun
    writes  \* writes the caller has made

vars == <<slot, heap, held, at, run, writes>>

Content(s) == heap[slot[s]]
Idle       == at = NumNodes + 1

\* mock_input and the "==out==" cache allocate every slot; the initial values
\* replace the ones of the feedback inputs.
Init == /\ slot = [s \in Slots |-> <<s, 1>>]
        /\ heap = [t \in Tensors |-> IF t[1] \in Feedback THEN Initial ELSE Zeros]
        /\ held = {<<Own(c), 1>> : c \in Observations}
        /\ at = NumNodes + 1
        /\ run = 0
        /\ writes = 0

\* An unused tensor of a place.
InUse == held \cup {slot[s] : s \in Slots}
HasFree(s) == \E k \in 1 .. Generations : <<s, k>> \notin InUse
Fresh(s)   == <<s, CHOOSE k \in 1 .. Generations : <<s, k>> \notin InUse>>

\* The contents of the tensors that are still referred to.
Swept(contents, slots, holds) ==
    [t \in Tensors |-> IF t \in holds \/ \E s \in Slots : slots[s] = t
                      THEN contents[t] ELSE Zeros]

-----------------------------------------------------------------------------
(* The caller *)

\* The caller computes its next observation, or reuses a result, in place.
CallerWrites(t) ==
    /\ Idle
    /\ writes < MaxWrites
    /\ t \in held
    /\ writes' = writes + 1
    /\ heap' = [heap EXCEPT ![t] = Data(writes + 1)]
    /\ UNCHANGED <<slot, held, at, run>>

\* The caller lets go of a result.
CallerDrops(t) ==
    /\ Idle
    /\ t \in held
    /\ t[1] \in Slots
    /\ held' = held \ {t}
    /\ heap' = Swept(heap, slot, held')
    /\ UNCHANGED <<slot, at, run, writes>>

-----------------------------------------------------------------------------
(* InferenceManager.run_policy *)

\* Fault: an input left out is stored as well.
SuppliedAlways(inputs, s) == s \in External

\* The inputs dictionary has a tensor for slot s.
Supplied(inputs, s) == s \in External /\ inputs[s] # None

\* The tensors of the inputs dictionary go into the slots; an external input
\* left out keeps the tensor it had.
RunPolicy(inputs) ==
    /\ Idle
    /\ run < MaxRuns
    /\ run' = run + 1
    /\ slot' = [s \in Slots |->
                   IF Supplied(inputs, s) THEN inputs[s] ELSE slot[s]]
    /\ at' = 1
    /\ heap' = Swept(heap, slot', held)
    /\ UNCHANGED <<held, writes>>

\* The outputs of node n, the slots they go to, and the slots it reads.
Outputs(n)    == {out \in DOMAIN Targets : out[1] = n}
Consumers(n)  == {s \in Routed : SourceOf[s][1] = n}
NodeInputs(n) == {s \in Inputs : s[2] = n}

\* A model returns a new tensor, or one it was given.
New(out) == Fresh(Targets[out][1])
Returnable(n) ==
    {New(out) : out \in Outputs(n)} \cup
    (IF "pass_through" \in Usage THEN {slot[s] : s \in NodeInputs(n)} ELSE {})

\* Fault: every consumer gets the output itself.
DeliveredToAll(s, result) == result[SourceOf[s]]

\* Zero-copy for the first consumer, a clone for the others.
DeliveredTo(s, result) ==
    IF PositionOf[s] = 1 THEN result[SourceOf[s]] ELSE Fresh(s)

\* What the tensors contain when node n has run, having written into some of
\* its inputs and computed the outputs it does not pass through.
Computed(n, written, result) ==
    [t \in Tensors |->
        IF \E out \in Outputs(n) : result[out] = t /\ t = New(out) THEN Result(n, run)
        ELSE IF \E s \in written : slot[s] = t THEN Scratch ELSE heap[t]]

\* Node at runs on the tensors its slots refer to, and each of its outputs
\* goes to all its targets.
RunNode ==
    /\ at \in Nodes
    /\ \A s \in Consumers(at) : HasFree(s)
    /\ \E result \in [Outputs(at) -> Returnable(at)],
          written \in SUBSET NodeInputs(at) :
          /\ \A out \in Outputs(at) : result[out] \in InUse \cup {New(out)}
          /\ written # {} => "in_place" \in Usage
          /\ LET after == Computed(at, written, result)
                 clone(t) == {s \in Consumers(at) : PositionOf[s] > 1 /\ t = Fresh(s)}
                 delivered ==
                     [t \in Tensors |->
                        IF clone(t) # {}
                        THEN after[result[SourceOf[CHOOSE s \in clone(t) : TRUE]]]
                        ELSE after[t]]
             IN /\ slot' = [s \in Slots |->
                               IF s \in Consumers(at) THEN DeliveredTo(s, result)
                                                      ELSE slot[s]]
                /\ held' = IF at = NumNodes
                           THEN held \cup {slot'[s] : s \in Finals} ELSE held
                /\ heap' = Swept(delivered, slot', held')
    /\ at' = at + 1
    /\ UNCHANGED <<run, writes>>

\* A model raises: what was delivered stays delivered.
NodeFails ==
    /\ at \in Nodes
    /\ at' = NumNodes + 1
    /\ UNCHANGED <<slot, heap, held, run, writes>>

-----------------------------------------------------------------------------
(* set_input_value and reset *)

\* copy_() into the tensor the slot refers to.
SetInputValue(s) ==
    /\ Idle
    /\ "set_input" \in Usage
    /\ heap' = [heap EXCEPT ![slot[s]] = Override]
    /\ UNCHANGED <<slot, held, at, run, writes>>

\* zero_() on the tensor of every slot, then the initial values are loaded
\* into new tensors.
Reset ==
    /\ Idle
    /\ \A s \in Feedback : HasFree(s)
    /\ slot' = [s \in Slots |-> IF s \in Feedback THEN Fresh(s) ELSE slot[s]]
    /\ heap' = [t \in Tensors |->
                  IF \E s \in Feedback : slot'[s] = t THEN Initial
                  ELSE IF \E s \in Slots : slot[s] = t THEN Zeros ELSE heap[t]]
    /\ UNCHANGED <<held, at, run, writes>>

Next ==
    \/ \E t \in held : CallerWrites(t) \/ CallerDrops(t)
    \/ \E inputs \in [External -> held \cup {None}] : RunPolicy(inputs)
    \/ RunNode
    \/ NodeFails
    \/ \E s \in Inputs : SetInputValue(s)
    \/ Reset

Spec == Init /\ [][Next]_vars

-----------------------------------------------------------------------------
(* Properties *)

\* The type of every variable.
TypeOK ==
    /\ slot \in [Slots -> Tensors]
    /\ heap \in [Tensors -> Contents]
    /\ held \subseteq Tensors
    /\ at \in 1 .. NumNodes + 1
    /\ run \in 0 .. MaxRuns
    /\ writes \in 0 .. MaxWrites

\* A node reads what its predecessors computed in this run, whatever the
\* other consumers of the same outputs did to their copies, and whatever an
\* earlier run that failed half way left behind.
ForwardIntact ==
    \A s \in Inputs \cap Routed :
        at = s[2] /\ s \notin Feedback =>
            Content(s) = Result(SourceOf[s][1], run)

\* run_policy() returns what the models computed in this run.
ReturnedAreResults ==
    [][RunNode /\ at = NumNodes =>
        \A s \in Finals : heap'[slot'[s]] = Result(SourceOf[s][1], run)]_vars

\* Feedback state persists across run_policy() calls (API reference, notes on
\* InferenceManager): nothing the caller does with the tensors it holds
\* reaches the feedback inputs.
FeedbackPersists ==
    [][writes' # writes =>
        \A s \in Feedback : heap'[slot'[s]] = Content(s)]_vars
=============================================================================
