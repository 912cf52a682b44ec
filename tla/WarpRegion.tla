------------------------------ MODULE WarpRegion ------------------------------
(***************************************************************************)
(* The Warp regions of a trace.  Warp calls are not recorded one by one:   *)
(* consecutive calls form a region, which a first pass through the node    *)
(* discovers and a second pass captures, each region becoming one runner   *)
(* of the FX graph.  A region opens with the first call on traced arrays   *)
(* and closes at a boundary (a recorded torch operation, a read-back,      *)
(* foreign CUDA work, the node's outputs), or it is a `with warp_op()`     *)
(* block, which only its own exit may close.                               *)
(*                                                                         *)
(* An array is known by where its value comes from in the graph (prov);    *)
(* while its region is open the producer is borrowed from another array    *)
(* (pending).  `writer` is where it really comes from.                     *)
(***************************************************************************)
EXTENDS Integers, Sequences, FiniteSets

CONSTANTS Nodes,      \* nodes with Warp code
          None,       \* no node, region, block or call
          Buffers,    \* Warp arrays the program keeps from pass to pass
          TorchBacked, \* those of them that are views of a torch tensor
          Calls,      \* public Warp functions
          Sites,      \* places in the program
          Exporting,  \* the nodes that have an export backend
          Usage,      \* what the program does beyond the documented use
          MaxCalls,   \* bound: Warp calls in a region
          MaxRegions, \* bound: regions begun in a pass
          MaxPasses   \* bound: passes through a node

ASSUME UsageAssumption == Usage \subseteq 
    {"output_inside",      \* output_tensors() inside a `with warp_op()` block
     "torch_inside",       \* torch operations inside one
     "callback_diverges"}  \* a capture pass differs, or its archive cannot be
                           \* saved, where CUDA work closes a region

VARIABLES
    op,       \* WarpTraceSession: the active region, or None
    block,    \* the node of the `with warp_op()` block being executed, or None
    flight,   \* the Warp call being executed (the session is paused), or None
    pass,     \* passes begun through each node
    tracing,  \* TracedTensorNode.is_tracing
    capture,  \* TracedTensorNode._is_warp_capture_active
    segs,     \* TracedTensorNode._discovered_warp_segments
    pending,  \* TracedTensorNode._pending_warp_segments, as indices of segs
    begun,    \* regions begun in this pass through each node
    runners,  \* the leapp::warp_runner calls of each node's graph
    prov,     \* the FX proxy of each array
    writer,   \* history: the region that last wrote each array
    result,   \* the last torch value computed in each node
    outputs,  \* what each node was compiled with
    stream,   \* a ScopedCapture is open
    raised    \* an exception has ended the pass; only a block is still left

vars == <<op, block, flight, pass, tracing, capture, segs, pending, begun,
          runners, prov, writer, result, outputs, stream, raised>>

-----------------------------------------------------------------------------
Input(n) == <<"input", n>>
Arrays == Buffers \cup {Input(n) : n \in Nodes}

\* A producer: region `id` of a pass through a node, 0 for the placeholder.
Producer(n, p, k, wait) == [node |-> n, pass |-> p, id |-> k, pending |-> wait]
Raw == Producer(None, 0, 0, FALSE)

\* WarpOp, while it is the active region.  `refs` are the arrays it touched, all
\* of them outputs once its calls have returned; `ins` those of them it took
\* with a producer of their own; `lost` that Warp cannot save its archive.
OpenRegions == [node : Nodes, owned : BOOLEAN, capture : BOOLEAN, seg : Nat,
                open : Sites, calls : Seq(Calls), refs : SUBSET Arrays,
                ins : SUBSET Arrays, lost : BOOLEAN, id : Nat]

ASSUME NoneAssumption == None \notin Nodes \cup OpenRegions

\* Closing anchor of every graph mutation: the nearest frame outside LEAPP
\* is torch.fx, whatever line of the program ran the torch operation.
FxSite == "torch.fx"

Init == /\ op = None /\ block = None /\ flight = None
        /\ pass = [n \in Nodes |-> 0]
        /\ tracing = [n \in Nodes |-> TRUE]
        /\ capture = [n \in Nodes |-> FALSE]
        /\ segs = [n \in Nodes |-> <<>>]
        /\ pending = [n \in Nodes |-> <<>>]
        /\ begun = [n \in Nodes |-> 0]
        /\ runners = [n \in Nodes |-> <<>>]
        /\ prov = [x \in Arrays |-> Raw]
        /\ writer = [x \in Arrays |-> Raw]
        /\ result = [n \in Nodes |-> None]
        /\ outputs = [n \in Nodes |-> None]
        /\ stream = FALSE
        /\ raised = FALSE

-----------------------------------------------------------------------------
(* Closing and opening regions.  The state they share is passed along as a *)
(* record; `ok` is FALSE when the step raised.                             *)

Region == [op |-> op, segs |-> segs, pending |-> pending, begun |-> begun,
           runners |-> runners, prov |-> prov, stream |-> stream, ok |-> TRUE]

Becomes(r) == /\ op' = r.op
              /\ segs' = r.segs
              /\ pending' = r.pending
              /\ begun' = r.begun
              /\ runners' = r.runners
              /\ prov' = r.prov
              /\ stream' = r.stream
              /\ raised' = (raised \/ ~r.ok)

\* Fault: replaced graphs are not told apart.
StaleNever(x) == prov[x] # Raw /\ FALSE

\* An array keeps the provenance of a pass whose graph its node has replaced.
Stale(x) == prov[x] # Raw /\ prov[x].pass # pass[prov[x].node]

\* Fault: only new allocations are published.
MarkerPendingOnly(r, o, real) ==
    IF o.calls = <<>> THEN r
    ELSE [r EXCEPT
            !.runners[o.node] = Append(@, [seg |-> o.seg, calls |-> o.calls, real |-> real]),
            !.prov = [x \in Arrays |->
                IF x \in o.refs /\ @[x].pending
                THEN Producer(o.node, pass[o.node], o.id, FALSE) ELSE @[x]]]

\* The inputs whose proxy is not of the graph its node has now.
Foreign(r, o) ==
    {x \in o.ins : /\ r.prov[x] # Raw
                   /\ r.prov[x].node # o.node \/ r.prov[x].pass # pass[o.node]}

\* _insert_warp_marker: the runner joins the graph, whose proxies its inputs
\* must have, and every array of the region gets its value from it (a new
\* allocation resolves the proxy it borrowed, an older one records a copy_).
Marker(r, o, real) ==
    IF o.calls = <<>> THEN r
    ELSE IF Foreign(r, o) # {} THEN [r EXCEPT !.ok = FALSE]
    ELSE [r EXCEPT
            !.runners[o.node] = Append(@, [seg |-> o.seg, calls |-> o.calls, real |-> real]),
            !.prov = [x \in Arrays |->
                IF x \in o.refs
                THEN Producer(o.node, pass[o.node], o.id, FALSE) ELSE @[x]]]

\* Fault: the queue counts regions from 0.
TerminateDiscoveryFromZero(r, site) ==
    LET o == r.op
        k == Len(r.segs[o.node])
    IN Marker([r EXCEPT
                !.op = None,
                !.segs[o.node] = Append(@, [open |-> o.open, close |-> site,
                                            calls |-> o.calls]),
                !.pending[o.node] = Append(@, k)],
              [o EXCEPT !.seg = k], FALSE)

\* The discovered region joins the queue of regions to capture, with a
\* placeholder for its archive, also when an exception ended it.
TerminateDiscovery(r, site) ==
    LET o == r.op
        k == Len(r.segs[o.node]) + 1
    IN Marker([r EXCEPT
                !.op = None,
                !.segs[o.node] = Append(@, [open |-> o.open, close |-> site,
                                            calls |-> o.calls]),
                !.pending[o.node] = Append(@, k)],
              [o EXCEPT !.seg = k], FALSE)

\* Fault: the calls are not compared with those discovered.
TerminateCaptureUnchecked(r, site, exc) ==
    LET o == r.op
        left == [r EXCEPT !.op = None, !.stream = FALSE]
        done == Marker(left, o, o.node \in Exporting)
    IN IF site # r.segs[o.node][o.seg].close THEN [left EXCEPT !.ok = FALSE]
       ELSE IF exc THEN left
       ELSE IF o.lost \/ ~done.ok THEN [left EXCEPT !.ok = FALSE]
       ELSE [done EXCEPT !.pending[o.node] = Tail(@)]

\* Fault: the capture scope is left only when the region ended well.
TerminateCaptureLeaky(r, site, exc) ==
    LET o == r.op
        s == r.segs[o.node][o.seg]
        left == [r EXCEPT !.op = None, !.stream = @ /\ exc]
        done == Marker(left, o, o.node \in Exporting)
    IN IF site # s.close THEN [left EXCEPT !.ok = FALSE]
       ELSE IF exc THEN left
       ELSE IF o.calls # s.calls \/ o.lost \/ ~done.ok THEN [left EXCEPT !.ok = FALSE]
       ELSE [done EXCEPT !.pending[o.node] = Tail(@)]

\* A captured region must close where its discovery did, after the same calls,
\* and its archive must be saved before the runner joins the graph.
TerminateCapture(r, site, exc) ==
    LET o == r.op
        s == r.segs[o.node][o.seg]
        left == [r EXCEPT !.op = None, !.stream = FALSE]
        done == Marker(left, o, o.node \in Exporting)
    IN IF site # s.close THEN [left EXCEPT !.ok = FALSE]
       ELSE IF exc THEN left
       ELSE IF o.calls # s.calls \/ o.lost \/ ~done.ok THEN [left EXCEPT !.ok = FALSE]
       ELSE [done EXCEPT !.pending[o.node] = Tail(@)]

\* WarpTraceSession.close_warp_segment, by whoever may: the region is
\* terminated and forgotten even when terminating it raises.
Terminate(r, site, exc) ==
    IF r.op.capture THEN TerminateCapture(r, site, exc)
                    ELSE TerminateDiscovery(r, site)

\* Fault: a boundary closes explicit regions too.
CloseAny(r, site) ==
    IF r.op = None THEN r ELSE Terminate(r, site, FALSE)

\* A request that finds the session running: a `with` block keeps its region,
\* with a warning.
CloseUnowned(r, site) ==
    IF r.op = None \/ r.op.owned THEN r ELSE Terminate(r, site, FALSE)

\* WarpPatchBackend.close_warp_segment: nothing happens while a Warp call
\* executes, which has paused the session.
Close(r, site) == IF flight # None THEN r ELSE CloseUnowned(r, site)

Opened(r, n, site, owned, seg) ==
    [r EXCEPT !.begun[n] = @ + 1,
              !.stream = (capture[n] /\ n \in Exporting),
              !.op = [node |-> n, owned |-> owned, capture |-> capture[n],
                      seg |-> seg, open |-> site, calls |-> <<>>,
                      refs |-> {}, ins |-> {}, lost |-> FALSE, id |-> r.begun[n] + 1]]

\* _begin_discovery, _begin_capture: the open region is closed first, which
\* an owner refuses; a captured region must be the next one discovered, from
\* the same place.
Begin(r0, n, site, owned) ==
    LET r == IF r0.op = None THEN r0
             ELSE IF r0.op.owned THEN [r0 EXCEPT !.ok = FALSE]
             ELSE Terminate(r0, site, FALSE)
    IN IF ~r.ok THEN r
       ELSE IF ~capture[n] THEN Opened(r, n, site, owned, 0)
       ELSE IF \/ r.pending[n] = <<>>
               \/ r.segs[n][Head(r.pending[n])].open # site
            THEN [r EXCEPT !.ok = FALSE]
       ELSE Opened(r, n, site, owned, Head(r.pending[n]))

\* resolve_or_begin_warp_segment: the open region takes the call, unless its
\* arrays are another node's.  A node that is not tracing opens none.
Resolve(n, site) ==
    IF op # None /\ n \in {None, op.node} THEN Region
    ELSE IF n = None THEN Region
    ELSE LET r == Close(Region, site)
         IN IF r.ok /\ tracing[n] THEN Begin(r, n, site, FALSE) ELSE r

-----------------------------------------------------------------------------
\* The program is about to call LEAPP or Warp.
Idle == flight = None /\ ~raised
Within == \E n \in Nodes : pass[n] > 0

\* A node that is not tracing and has nothing to capture is only validated.
Revisit(n) == ~tracing[n] /\ pending[n] = <<>>

\* A pass through the node begins; pending regions make it a capture pass on
\* a new graph (prepare_warp_capture).  Creating the placeholder is a boundary.
InputTensors(n, site) ==
    /\ Idle
    /\ pass[n] = 0 \/ ~tracing[n]
    /\ IF Revisit(n) THEN UNCHANGED vars
       ELSE /\ pass[n] < MaxPasses
            /\ pass' = [pass EXCEPT ![n] = @ + 1]
            /\ tracing' = [tracing EXCEPT ![n] = TRUE]
            /\ capture' = [capture EXCEPT ![n] = pass[n] > 0]
            /\ LET r == Close([Region EXCEPT !.runners[n] = <<>>, !.begun[n] = 0], site)
                   p == Producer(n, pass[n] + 1, 0, FALSE)
               IN /\ Becomes(IF r.ok THEN [r EXCEPT !.prov[Input(n)] = p] ELSE r)
                  /\ writer' = [writer EXCEPT ![Input(n)] = p]
            /\ result' = [result EXCEPT ![n] = None]
            /\ outputs' = [outputs EXCEPT ![n] = None]
            /\ UNCHANGED <<block, flight>>

\* The node whose values a call is about, None when no argument is traced.
Source(args) ==
    LET traced == {x \in args : prov[x] # Raw /\ ~Stale(x)}
    IN IF traced = {} THEN None ELSE prov[CHOOSE x \in traced : TRUE].node

OneContext(args) ==
    \A x, y \in {z \in args : prov[z] # Raw /\ ~Stale(z)} : prov[x].node = prov[y].node

Roomy(n) == /\ op # None => Len(op.calls) < MaxCalls
            /\ n # None => begun[n] < MaxRegions

\* record_segment_inputs: a traced array the region has not met is an input.
Noted(o, f, traced) == [o EXCEPT !.calls = Append(@, f), !.refs = @ \cup traced,
                                 !.ins = @ \cup (traced \ o.refs)]

\* __warp_function__ up to the call itself: stale arguments become raw, the
\* call joins a region, and the session is paused.  Arrays of two nodes that
\* are not stale cannot be mixed.  (A call on raw arrays with
\* no region open leaves no trace, and is left out.)
WarpCall(f, args, out, site) ==
    /\ Idle /\ Within
    /\ \A n \in Nodes : Input(n) \in args => prov[Input(n)] # Raw
    /\ op # None \/ Source(args) # None
    /\ LET n == Source(args)
           r == IF OneContext(args) THEN Resolve(n, site)
                                    ELSE [Region EXCEPT !.ok = FALSE]
           s == [r EXCEPT !.prov = [x \in Arrays |->
                    IF x \in args /\ Stale(x) THEN Raw ELSE @[x]]]
           traced == {x \in args : s.prov[x] # Raw}
           joins == s.op # None /\ n \in {None, s.op.node}
       IN /\ Roomy(n)
          /\ IF r.ok
             THEN /\ Becomes(IF joins THEN [s EXCEPT !.op = Noted(@, f, traced)] ELSE s)
                  /\ flight' = [args |-> args, out |-> out, node |-> n, site |-> site,
                                id |-> IF joins THEN s.op.id ELSE 0]
             ELSE Becomes(s) /\ UNCHANGED flight
    /\ UNCHANGED <<block, pass, tracing, capture, writer, result, outputs>>

Adopting(o, n, arrays) ==
    IF o # None /\ n = o.node THEN [o EXCEPT !.refs = @ \cup arrays] ELSE o

\* The rest of it: every array argument becomes an array of the region, and
\* one that was not traced borrows the producer of one that was.  A call that
\* wrote a torch tensor is a boundary too.
WarpReturn ==
    LET n == flight.node
        adopted == IF n = None THEN {} ELSE flight.args
        joined == [Region EXCEPT
                     !.prov = [x \in Arrays |->
                         IF x \in adopted /\ @[x] = Raw
                         THEN Producer(n, pass[n], 0, tracing[n]) ELSE @[x]],
                     !.op = Adopting(@, n, adopted)]
    IN
    /\ flight # None
    /\ flight' = None
    /\ Becomes(IF flight.out \in TorchBacked THEN CloseUnowned(joined, flight.site)
                                            ELSE joined)
    /\ writer' = IF n = None THEN writer
                 ELSE [writer EXCEPT ![flight.out] =
                         Producer(n, pass[n], flight.id, FALSE)]
    /\ UNCHANGED <<block, pass, tracing, capture, result, outputs>>

\* The CUPTI callback sees CUDA work that is not Warp's, at any time.  What
\* the close raises is swallowed.
CudaWork(site) ==
    /\ op # None
    /\ LET r == Close(Region, site)
       IN /\ r.ok \/ "callback_diverges" \in Usage
          /\ Becomes([r EXCEPT !.ok = TRUE])
    /\ UNCHANGED <<block, flight, pass, tracing, capture, writer, result, outputs>>

\* Warp has no graph of the region it captures, or will fail to save or pack it
\* (_save_warp_bundle).
LoseArchive ==
    /\ op # None /\ op.capture /\ op.node \in Exporting /\ ~op.lost
    /\ op' = [op EXCEPT !.lost = TRUE]
    /\ UNCHANGED <<block, flight, pass, tracing, capture, segs, pending, begun, runners,
                   prov, writer, result, outputs, stream, raised>>

\* wp.synchronize*(), wp.to_torch(), wp.array.numpy().
Synchronize(site) ==
    /\ Idle /\ op # None
    /\ Becomes(Close(Region, site))
    /\ UNCHANGED <<block, flight, pass, tracing, capture, writer, result, outputs>>

\* A torch operation on an alias of x: the graph mutation is a boundary, and
\* the operation reads the producer x then has.
TorchOperation(x) ==
    LET n == prov[x].node
        r == Close(Region, FxSite)
    IN
    /\ Idle
    /\ op # None => ~op.owned \/ "torch_inside" \in Usage
    /\ prov[x] # Raw /\ ~Stale(x)
    /\ tracing[n]
    /\ Becomes(r)
    /\ result' = IF r.ok THEN [result EXCEPT ![n] = <<r.prov[x], writer[x]>>]
                         ELSE result
    /\ UNCHANGED <<block, flight, pass, tracing, capture, writer, outputs>>

\* with annotate.warp_op(n).
EnterBlock(n, site) ==
    LET r == Begin(Region, n, site, TRUE)
    IN /\ Idle
       /\ pass[n] > 0 /\ tracing[n] /\ begun[n] < MaxRegions
       /\ Becomes(r)
       /\ block' = IF r.ok THEN n ELSE block
       /\ UNCHANGED <<flight, pass, tracing, capture, writer, result, outputs>>

\* WarpOp.__exit__, with an exception or without.
ExitBlock(site, exc) ==
    /\ flight = None /\ block # None
    /\ raised => exc
    /\ block' = None
    /\ LET r == IF op # None /\ op.owned THEN Terminate(Region, site, exc)
                                         ELSE Region
       IN Becomes([r EXCEPT !.ok = @ /\ ~exc])
    /\ UNCHANGED <<flight, pass, tracing, capture, writer, result, outputs>>

\* What an output may be: an array of the node, or a torch value computed in it.
Candidates(r, n) ==
    {<<r.prov[x], writer[x]>> : x \in {y \in Arrays : /\ r.prov[y].node = n
                                                       /\ r.prov[y].pass = pass[n]}}
    \cup (IF result[n] = None THEN {} ELSE {result[n]})

\* output_tensors() is a boundary, then compiles the node if it is tracing.
OutputTensors(n, site) ==
    LET r == Close(Region, site)
    IN
    /\ Idle
    /\ op # None => ~op.owned \/ "output_inside" \in Usage
    /\ pass[n] > 0
    /\ Becomes(r)
    /\ IF r.ok /\ tracing[n]
       THEN \E o \in Candidates(r, n) :
              /\ outputs' = [outputs EXCEPT ![n] = o]
              /\ tracing' = [tracing EXCEPT ![n] = FALSE]
       ELSE UNCHANGED <<outputs, tracing>>
    /\ UNCHANGED <<block, flight, pass, capture, writer, result>>

\* What the program does next, as a label.
Steps == {"input", "block", "output"} \X Nodes \X Sites
         \cup {"call"} \X Calls \X Arrays \X Arrays \X Sites
         \cup {"cuda", "sync", "exit", "raise"} \X Sites
         \cup {"torch"} \X Arrays
         \cup {<<"return">>, <<"lose">>}

Do(l) ==
    \/ l[1] = "input" /\ InputTensors(l[2], l[3])
    \/ l[1] = "block" /\ EnterBlock(l[2], l[3])
    \/ l[1] = "output" /\ OutputTensors(l[2], l[3])
    \/ l[1] = "call" /\ WarpCall(l[2], {l[3], l[4]}, l[4], l[5])
    \/ l[1] = "return" /\ WarpReturn
    \/ l[1] = "lose" /\ LoseArchive
    \/ l[1] = "cuda" /\ CudaWork(l[2])
    \/ l[1] = "sync" /\ Synchronize(l[2])
    \/ l[1] = "torch" /\ TorchOperation(l[2])
    \/ l[1] = "exit" /\ ExitBlock(l[2], FALSE)
    \/ l[1] = "raise" /\ ExitBlock(l[2], TRUE)

Next == \E l \in Steps : Do(l)

Spec == Init /\ [][Next]_vars

-----------------------------------------------------------------------------
(* Properties *)

Producers == [node : Nodes \cup {None}, pass : Nat, id : Nat, pending : BOOLEAN]
Segments  == [open : Sites, close : Sites \cup {FxSite}, calls : Seq(Calls)]
Runners   == [seg : Nat, calls : Seq(Calls), real : BOOLEAN]
Flights   == [args : SUBSET Arrays, out : Arrays, node : Nodes \cup {None},
              site : Sites, id : Nat]
Values    == (Producers \X Producers) \cup {None}

\* The type of every variable; what is queued for capture was discovered.
TypeOK ==
    /\ op \in OpenRegions \cup {None}
    /\ op # None /\ op.capture => op.seg \in DOMAIN segs[op.node]
    /\ block \in Nodes \cup {None}
    /\ flight \in Flights \cup {None}
    /\ pass \in [Nodes -> Nat]
    /\ tracing \in [Nodes -> BOOLEAN]
    /\ capture \in [Nodes -> BOOLEAN]
    /\ segs \in [Nodes -> Seq(Segments)]
    /\ pending \in [Nodes -> Seq(Nat)]
    /\ \A n \in Nodes : pending[n] \in Seq(DOMAIN segs[n])
    /\ begun \in [Nodes -> Nat]
    /\ runners \in [Nodes -> Seq(Runners)]
    /\ prov \in [Arrays -> Producers]
    /\ writer \in [Arrays -> Producers]
    /\ result \in [Nodes -> Values]
    /\ outputs \in [Nodes -> Values]
    /\ stream \in BOOLEAN /\ raised \in BOOLEAN

\* compile_graph() accepts the node (validate_nodes_ready_for_compile).
Ready(n) == block = None /\ pass[n] > 0 /\ ~tracing[n] /\ pending[n] = <<>>

\* The value a node was compiled with names the region that wrote it, or a
\* later one it passed through: never the array it borrowed a producer from
\* while the region was open, nor the value from before the region.
OutputsFollowRegions ==
    \A n \in Nodes :
        Ready(n) => LET p == outputs[n][1]
                        w == outputs[n][2]
                    IN /\ ~p.pending
                       /\ p.node = n /\ p.pass = pass[n]
                       /\ w.node = n /\ w.pass = pass[n] => p.id >= w.id

\* The program captured is the one discovered (warp_how_it_works, pass 2): a
\* graph made in two passes replays each region of the discovery pass that has
\* calls, in order, call for call, from a real archive when the node is exported.
CapturedAsDiscovered ==
    \A n \in Nodes :
        Ready(n) /\ pass[n] = 2 =>
            /\ \A i \in DOMAIN segs[n] : segs[n][i].calls # <<>> =>
                 \E k \in DOMAIN runners[n] : runners[n][k].seg = i
            /\ \A k \in DOMAIN runners[n] :
                 /\ runners[n][k].calls = segs[n][runners[n][k].seg].calls
                 /\ runners[n][k].real <=> n \in Exporting
                 /\ \A j \in 1 .. k - 1 : runners[n][j].seg < runners[n][k].seg

\* No boundary, callback or other node takes the region of a `with` block
\* from it, and no region outlives its block.
BlockKeepsRegion ==
    /\ block # None => op # None /\ op.owned /\ op.node = block
    /\ op # None /\ op.owned => block # None

\* The CUDA stream is in capture mode exactly while a captured region is
\* open: a capture that is never ended breaks all later CUDA work.
StreamCaptured ==
    stream <=> op # None /\ op.capture /\ op.node \in Exporting
=============================================================================
