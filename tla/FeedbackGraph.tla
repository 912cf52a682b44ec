---------------------------- MODULE FeedbackGraph ----------------------------
(***************************************************************************)
(* From passes of the annotated loop to the replay of the exported graph:  *)
(* how the inputs of the nodes learn their sources on the first and the    *)
(* later passes, how LeappGraph turns sources into forward and feedback    *)
(* connections, and how InferenceManager.run_policy moves values along     *)
(* them, one node after the other in completion order.                     *)
(***************************************************************************)
EXTENDS LoopProgram

CONSTANTS MinPasses,      \* passes the program makes at least
          MaxPasses,      \* bound: passes of the annotated loop
          MaxRuns,        \* bound: run_policy() calls between two resets
          MaxDelay,       \* oldest value an input may read, in iterations
          DelayedForward, \* whether a node may read an earlier iteration's
                          \* value of a node that completes before it
          InitFrom        \* what may initialise a delayed input

ASSUME PassAssumption == /\ MinPasses \in Nat /\ MaxPasses \in Nat
                         /\ MaxRuns \in Nat /\ MaxDelay \in Nat
                         /\ DelayedForward \in BOOLEAN
                         /\ InitFrom \subseteq {Before, Foreign} \cup Nodes

VARIABLES
    wiring,   \* the program that is being traced
    phase,    \* capture, replay, or rejected by compile_graph()
    pass,     \* passes of the loop begun while tracing
    at,       \* next node to run; NumNodes + 1 between iterations
    source,   \* TensorDescription.source_node of every input, Outside if none
    edge,     \* source node of every connected input, Outside if dangling
    feedback, \* the inputs that are targets of feedback connections
    run,      \* run_policy() calls since the last reset()
    slot,     \* InferenceManager.value_dict: the value each input holds
    seen      \* what each node read when it last ran

vars == <<wiring, phase, pass, at, source, edge, feedback, run, slot, seen>>

-----------------------------------------------------------------------------
Inputs == Nodes \X Ports
Everywhere(x) == [n \in Nodes |-> [p \in Ports |-> x]]
Zero == <<Before, 0>>  \* mock_input: the slots start as zeros

Admitted(n, b) ==
    /\ WellFormed(n, b)
    /\ b.delay <= MaxDelay
    /\ b.delay > 0 /\ b.src < n => DelayedForward
    /\ b.init \in InitFrom

Bindings(n) == {b \in [src : Nodes \cup {Outside}, delay : 0 .. MaxDelay,
                       init : InitFrom \cup {Before}, declared : BOOLEAN] :
                   Admitted(n, b)}

\* The programs: every node with inputs it admits.
Programs == {w \in [Nodes -> UNION {[Ports -> Bindings(n)] : n \in Nodes}] :
                \A n \in Nodes : w[n] \in [Ports -> Bindings(n)]}

Init == /\ wiring \in Programs
        /\ phase = "capture"
        /\ pass = 1
        /\ at = 1
        /\ source = Everywhere(Outside)
        /\ edge = Everywhere(Outside)
        /\ feedback = {}
        /\ run = 0
        /\ slot = Everywhere(Zero)
        /\ seen = Everywhere(Zero)

-----------------------------------------------------------------------------
(* Tracing *)

\* Fault: every tensor is taken for a published one.
PublishedAlways(v) == TRUE

\* Only the first pass publishes output ports, so only its values say which
\* node they come from; a tensor of another session says so too.
Published(v) == v[1] = Foreign \/ (v[1] \in Nodes /\ v[2] = 1)

\* An input keeps the first source it learns.
Learn(known, v) == IF known = Outside /\ Published(v) THEN v[1] ELSE known

\* One annotated node runs: its inputs are declared, or validated when it was
\* captured on an earlier pass, and its outputs complete it.
TraceNode ==
    /\ phase = "capture"
    /\ at \in Nodes
    /\ source' = [source EXCEPT ![at] =
                     [p \in Ports |-> Learn(@[p], Reads(wiring, at, p, pass))]]
    /\ at' = at + 1
    /\ UNCHANGED <<wiring, phase, pass, edge, feedback, run, slot, seen>>

NextPass ==
    /\ phase = "capture"
    /\ at = NumNodes + 1
    /\ pass < MaxPasses
    /\ pass' = pass + 1
    /\ at' = 1
    /\ UNCHANGED <<wiring, phase, source, edge, feedback, run, slot, seen>>

-----------------------------------------------------------------------------
(* LeappGraph._build_connections *)

\* State pairs are wired from their declaration; any other input from the
\* source it learned, unless that source is no node of this graph.
EdgeSource(n, p) ==
    IF wiring[n][p].declared THEN n
    ELSE IF source[n][p] \in Nodes THEN source[n][p] ELSE Outside

\* Fault: a self connection counts as forward.
IsForwardOrSelf(src, n) == src <= n

IsForward(src, n) == src < n

FeedbackInputs ==
    {in \in Inputs :
        LET n == in[1]  p == in[2]
        IN \/ wiring[n][p].declared
           \/ EdgeSource(n, p) # Outside /\ ~IsForward(EdgeSource(n, p), n)}

\* A node cannot receive one output on two of its inputs.
DuplicateSource ==
    \E n \in Nodes : \E p, q \in Ports :
        /\ p # q
        /\ ~wiring[n][p].declared /\ ~wiring[n][q].declared
        /\ source[n][p] \in Nodes
        /\ source[n][p] = source[n][q]

\* The initial value of a feedback input is the one recorded on pass 1.
Prepopulated(inputs) ==
    [n \in Nodes |-> [p \in Ports |->
        IF <<n, p>> \in inputs THEN Reads(wiring, n, p, 1) ELSE Zero]]

CompileGraph ==
    /\ phase = "capture"
    /\ at = NumNodes + 1
    /\ pass >= MinPasses
    /\ IF DuplicateSource
       THEN /\ phase' = "rejected"
            /\ UNCHANGED <<edge, feedback, slot>>
       ELSE /\ phase' = "replay"
            /\ edge' = [n \in Nodes |-> [p \in Ports |-> EdgeSource(n, p)]]
            /\ feedback' = FeedbackInputs
            /\ slot' = Prepopulated(FeedbackInputs)
    /\ UNCHANGED <<wiring, pass, at, source, run, seen>>

-----------------------------------------------------------------------------
(* InferenceManager *)

\* The caller supplies the pipeline's inputs: the ones nothing is wired to.
RunPolicy ==
    /\ phase = "replay"
    /\ at = NumNodes + 1
    /\ run < MaxRuns
    /\ run' = run + 1
    /\ slot' = [n \in Nodes |-> [p \in Ports |->
                   IF edge[n][p] = Outside THEN <<Outside, run + 1>>
                                           ELSE slot[n][p]]]
    /\ at' = 1
    /\ UNCHANGED <<wiring, phase, pass, source, edge, feedback, seen>>

\* Fault: feedback targets are skipped.
DeliveredForward(src) ==
    [n \in Nodes |-> [p \in Ports |->
        IF edge[n][p] = src /\ src < n THEN <<src, run>> ELSE slot[n][p]]]

\* The slots after node src delivered its output to all its targets.
Delivered(src) ==
    [n \in Nodes |-> [p \in Ports |->
        IF edge[n][p] = src THEN <<src, run>> ELSE slot[n][p]]]

\* A node takes its inputs, runs, and its output goes to all its targets.
RunNode ==
    /\ phase = "replay"
    /\ at \in Nodes
    /\ seen' = [seen EXCEPT ![at] = slot[at]]
    /\ slot' = Delivered(at)
    /\ at' = at + 1
    /\ UNCHANGED <<wiring, phase, pass, source, edge, feedback, run>>

Reset ==
    /\ phase = "replay"
    /\ at = NumNodes + 1
    /\ run' = 0
    /\ slot' = Prepopulated(feedback)
    /\ UNCHANGED <<wiring, phase, pass, at, source, edge, feedback, seen>>

Next == \/ TraceNode \/ NextPass \/ CompileGraph
        \/ RunPolicy \/ RunNode \/ Reset

Spec == Init /\ [][Next]_vars

-----------------------------------------------------------------------------
(* Properties *)

\* The type of every variable.
TypeOK ==
    /\ wiring \in Programs
    /\ phase \in {"capture", "replay", "rejected"}
    /\ pass \in Nat \ {0}
    /\ at \in 1 .. NumNodes + 1
    /\ source \in [Nodes -> [Ports -> Nodes \cup {Outside, Foreign}]]
    /\ edge \in [Nodes -> [Ports -> Nodes \cup {Outside}]]
    /\ feedback \subseteq Inputs
    /\ run \in Nat
    /\ slot \in [Nodes -> [Ports -> Value]]
    /\ seen \in [Nodes -> [Ports -> Value]]

\* The exported pipeline is the program's dataflow: every input is wired to
\* the node the program feeds it from, exactly the inputs fed by the outside
\* are left for the deployer, and the feedback edges are exactly the ones
\* that cross iterations.
PipelineIsProgram ==
    phase = "replay" =>
        \A n \in Nodes : \A p \in Ports :
            /\ edge[n][p] = wiring[n][p].src
            /\ <<n, p>> \in feedback <=> wiring[n][p].delay > 0

\* The replay of the exported graph implements the original loop.
Eager == INSTANCE EagerLoop WITH
            iter <- run,
            at   <- IF phase = "replay" THEN at ELSE NumNodes + 1

ReplaysEager == Eager!Spec
=============================================================================
