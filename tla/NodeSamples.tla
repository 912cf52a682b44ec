----------------------------- MODULE NodeSamples -----------------------------
(***************************************************************************)
(* The samples a node records for validation.  The first pass through a    *)
(* node fixes its interface and sample 0; every later pass validates the   *)
(* calls against that interface and stores their values in the cache slot  *)
(* the write index points at, which output_tensors() then advances.  A     *)
(* node with Warp segments is traced a second time before that.            *)
(*                                                                         *)
(* A value is known by the pass it was recorded in; 0 is the zeros the     *)
(* slots are allocated with.                                               *)
(***************************************************************************)
EXTENDS Integers, Sequences, FiniteSets

CONSTANTS Inputs,      \* names passed to input_tensors()
          Outputs,     \* names passed to output_tensors()
          States,      \* names passed to state_tensors() and update_state()
          Injected,    \* buffers tracked by module()
          Skips,       \* names the program may leave out, or update late,
                       \* on a pass after the first
          MaxCachedIO, \* leapp.start(max_cached_io=...)
          MaxPasses    \* bound: passes through the node

ASSUME BoundAssumption == MaxCachedIO \in Nat /\ MaxPasses \in Nat

VARIABLES
    pass,      \* passes begun
    tracing,   \* the node records a graph (the first pass, a capture pass)
    pending,   \* Warp segments wait for the capture pass
    called,    \* the inputs and outputs this pass has supplied
    first,     \* TensorDescription.value of every input and output
    cached,    \* TensorDescription.cached_values, one record per slot
    writeIdx,  \* LeappNode._cache_write_idx
    completed  \* history: the re-entry passes that reached output_tensors()

vars == <<pass, tracing, pending, called, first, cached, writeIdx, completed>>

-----------------------------------------------------------------------------
In(names)  == {"in"} \X names
Out(names) == {"out"} \X names

\* Every state is an input and an output of the node.
StateNames == States \cup Injected
\* Fault: the next states are not outputs.
IoWithoutNextStates == In(Inputs \cup StateNames) \cup Out(Outputs)

Io == In(Inputs \cup StateNames) \cup Out(Outputs \cup StateNames)

\* set_max_cached_io keeps one less: sample 0 is not in the cache.
Capacity == MaxCachedIO - 1
Slots == 1 .. Capacity

Init == /\ pass = 0
        /\ tracing = TRUE
        /\ pending \in BOOLEAN
        /\ called = {}
        /\ first = [io \in Io |-> 0]
        /\ cached = [k \in Slots |-> [io \in Io |-> 0]]
        /\ writeIdx = 0
        /\ completed = <<>>

-----------------------------------------------------------------------------
\* Fault: the slot before the write index is written.
RecordBehind(ios) ==
    IF pass = 1
    THEN /\ first' = [io \in Io |-> IF io \in ios THEN pass ELSE first[io]]
         /\ UNCHANGED cached
    ELSE /\ cached' = IF writeIdx \in Slots
                      THEN [cached EXCEPT ![writeIdx] =
                              [io \in Io |-> IF io \in ios THEN pass ELSE @[io]]]
                      ELSE cached
         /\ UNCHANGED first

\* The values of ios on this pass go to the interface on the first pass, to
\* the slot under the write index on any other, and nowhere when it is full.
Record(ios) ==
    IF pass = 1
    THEN /\ first' = [io \in Io |-> IF io \in ios THEN pass ELSE first[io]]
         /\ UNCHANGED cached
    ELSE /\ cached' = IF writeIdx < Capacity
                      THEN [cached EXCEPT ![writeIdx + 1] =
                              [io \in Io |-> IF io \in ios THEN pass ELSE @[io]]]
                      ELSE cached
         /\ UNCHANGED first

\* Fault: the last slot is never reached.
NextWriteIdxShort == IF writeIdx + 1 < Capacity THEN writeIdx + 1 ELSE writeIdx

\* increment_cache_idx: the index stops at the capacity.
NextWriteIdx == IF writeIdx < Capacity THEN writeIdx + 1 ELSE writeIdx

OutputsGiven == Out(Outputs) \subseteq called

\* The loop comes round again, also when an exception ended the last pass.
\* A trace that did not complete cannot be resumed: its inputs exist already.
\* The capture pass starts here when Warp segments are pending.
BeginPass ==
    /\ pass < MaxPasses
    /\ pass > 0 => ~tracing
    /\ pass' = pass + 1
    /\ tracing' = (pass = 0 \/ pending)
    /\ called' = {}
    /\ UNCHANGED <<pending, first, cached, writeIdx, completed>>

InputTensors(x) ==
    /\ pass > 0
    /\ ~OutputsGiven
    /\ <<"in", x>> \notin called
    /\ Record({<<"in", x>>})
    /\ called' = called \cup {<<"in", x>>}
    /\ UNCHANGED <<pass, tracing, pending, writeIdx, completed>>

\* module() goes through state_tensors() while the node is tracing;
\* BufferTracker.inject() returns early when it is not.
Module(x) ==
    /\ pass > 0
    /\ ~OutputsGiven
    /\ <<"in", x>> \notin called
    /\ IF tracing THEN Record({<<"in", x>>}) ELSE UNCHANGED <<first, cached>>
    /\ called' = called \cup {<<"in", x>>}
    /\ UNCHANGED <<pass, tracing, pending, writeIdx, completed>>

\* While tracing, the state must exist and the new value is kept until
\* output_tensors(); afterwards the value is recorded at once.
UpdateState(x) ==
    /\ pass > 0
    /\ OutputsGiven => x \in Skips /\ ~tracing
    /\ <<"out", x>> \notin called
    /\ tracing => <<"in", x>> \in called
    /\ IF tracing THEN UNCHANGED <<first, cached>>
                  ELSE Record({<<"out", x>>})
    /\ called' = called \cup {<<"out", x>>}
    /\ UNCHANGED <<pass, tracing, pending, writeIdx, completed>>

\* What the program must have supplied before output_tensors().
Required ==
    LET ios == In(Inputs \cup StateNames) \cup Out(States)
    IN IF pass = 1 THEN ios ELSE {io \in ios : io[2] \notin Skips}

\* compile_trace records the state outputs with the outputs, and collects
\* the buffers module() injected; a validated re-entry advances the index.
OutputTensors ==
    /\ pass > 0
    /\ ~OutputsGiven
    /\ Required \subseteq called
    /\ called' = called \cup Out(Outputs)
    /\ IF tracing
       THEN /\ Record(Out(Outputs \cup Injected) \cup
                        (called \cap Out(States)))
            /\ tracing' = FALSE
            /\ pending' = (pending /\ pass = 1)
            /\ UNCHANGED <<writeIdx, completed>>
       ELSE /\ Record(Out(Outputs))
            /\ writeIdx' = NextWriteIdx
            /\ completed' = Append(completed, pass)
            /\ UNCHANGED <<tracing, pending>>
    /\ UNCHANGED pass

Next == \/ BeginPass
        \/ \E x \in Inputs \cup States : InputTensors(x)
        \/ \E x \in Injected : Module(x)
        \/ \E x \in States : UpdateState(x)
        \/ OutputTensors

Spec == Init /\ [][Next]_vars

-----------------------------------------------------------------------------
(* Properties *)

\* The type of every variable.
TypeOK ==
    /\ pass \in Nat
    /\ tracing \in BOOLEAN
    /\ pending \in BOOLEAN
    /\ called \subseteq Io
    /\ first \in [Io -> Nat]
    /\ cached \in [Slots -> [Io -> Nat]]
    /\ writeIdx \in Nat
    /\ completed \in Seq(Nat)

\* The samples _build_validation_examples hands out, seen through some of
\* the inputs and outputs, are whole iterations of the loop: sample 0 is the
\* first pass, sample k the k-th pass that re-entered the node and reached its
\* output.
IterationsOf(ios) ==
    ~tracing =>
        /\ \A io \in ios : first[io] = 1
        /\ \A k \in 1 .. writeIdx : \A io \in ios : cached[k][io] = completed[k]

\* So they are in everything the program declares call by call: nothing of a
\* pass that was cut short, or of a capture pass, is left in a sample.
SamplesAreIterations == IterationsOf({io \in Io : io[2] \notin Injected})

\* A sample preserves each state and its next value too, however the state
\* was declared (debugging guide, stateful transitions).
SamplesHaveStates == IterationsOf({io \in Io : io[2] \in StateNames})

\* No iteration is passed over while there is room for it.
SamplesKept ==
    writeIdx < Len(completed) => writeIdx >= Capacity

\* max_cached_io bounds the number of samples.
SampleBound == ~tracing => 1 + writeIdx <= MaxCachedIO
=============================================================================
