---------------------------- MODULE LeappSession ----------------------------
(***************************************************************************)
(* The tracing session of LEAPP: leapp.start / leapp.stop /                *)
(* leapp.compile_graph, the registry of nodes the ExportManager keeps, the *)
(* global TracingLock taken by a legacy _method frame, and the buffers of  *)
(* torch modules that annotate.module() borrows while a node is traced.    *)
(*                                                                         *)
(* A node object is named by <<session, name>>: a session that start()     *)
(* abandons leaves its nodes behind, reachable from the call frames and    *)
(* the buffers that still refer to them.                                   *)
(***************************************************************************)
EXTENDS Integers, Sequences, FiniteSets

CONSTANTS
    Names,        \* node names the program annotates
    Buffers,      \* torch buffers the program hands to annotate.module()
    MaxSessions,  \* bound: calls of leapp.start()
    MaxSegments,  \* bound: Warp segments one node discovers
    Usage         \* which of the usages below the program makes

(***************************************************************************)
(* Usages the documentation discourages or does not describe, and which    *)
(* the code accepts:                                                       *)
(*   "restart"         start() while interpretation is already active      *)
(*   "second_module"   module() on a node that still holds injected        *)
(*                     buffers                                             *)
(*   "partial_inject"  module() that fails after its first buffer          *)
(*   "unrestorable"    the program deletes a borrowed attribute, or makes  *)
(*                     it a parameter, so that giving it back raises       *)
(***************************************************************************)
AllUsages == {"restart", "second_module", "partial_inject", "unrestorable"}

ASSUME BoundAssumption == MaxSessions \in Nat /\ MaxSegments \in Nat
ASSUME UsageAssumption == Usage \subseteq AllUsages

VARIABLES
    interpreting, \* ExportManager._interpret_graph
    patched,      \* TracingPatcher._installed
    lock,         \* TracingLock._is_active_function_tracing
    frames,       \* _method wrappers that are executing their function
    session,      \* how many times start() has reset the registry
    node,         \* the LeappNode objects
    nextIndex,    \* ExportManager._next_completed_node_index
    tracker,      \* node._buffer_tracker
    buffer,       \* what each buffer attribute of the torch modules holds
    compiled,     \* compile_graph() accepted the nodes of this session
    stopRaised    \* history: the stop() that ended the session raised

vars == <<interpreting, patched, lock, frames, session, node, nextIndex,
          tracker, buffer, compiled, stopRaised>>

-----------------------------------------------------------------------------
Sessions == 1 .. MaxSessions
NodeIds  == Sessions \X Names
Unset    == -1

Absent == [status |-> "absent", kind |-> "none", index |-> Unset,
           pending |-> 0, capturing |-> FALSE,
           states |-> {}, updated |-> {}]

NewNode(k) == [Absent EXCEPT !.status = IF k = "traced" THEN "tracing"
                                                        ELSE "captured",
                             !.kind = k]

\* A node without a tracker and a tracker that injected nothing behave alike.
NoTracker == [injected |-> {}, collected |-> TRUE]

\* A buffer attribute holds a plain tensor, whose owner is nobody, or a
\* TracedTensor, whose owner is a node: the very carrier module() injected
\* (fresh), or what the program assigned since.  The lender is the node whose
\* module() borrowed the attribute and has not given it back.
Nobody      == <<0, "none">>
Raw         == [owner |-> Nobody, lender |-> Nobody, fresh |-> FALSE]
Carrier(id) == [owner |-> id, lender |-> id, fresh |-> TRUE]

Id(n)      == <<session, n>>
Known(n)   == session > 0 /\ node[Id(n)].status # "absent"
Tracing(n) == Known(n) /\ node[Id(n)].status = "tracing"
Lent(b)    == buffer[b].lender # Nobody
Live(b)    == buffer[b].owner # Nobody /\ node[buffer[b].owner].status = "tracing"

\* Fault: the tracing lock is not consulted.
UnlockedIgnored == TRUE

\* No traced function executes: TracingLock.is_active() is false.
Unlocked == ~lock

-----------------------------------------------------------------------------
Init ==
    /\ interpreting = FALSE
    /\ patched = FALSE
    /\ lock = FALSE
    /\ frames = <<>>
    /\ session = 0
    /\ node = [id \in NodeIds |-> Absent]
    /\ nextIndex = 0
    /\ tracker = [id \in NodeIds |-> NoTracker]
    /\ buffer = [b \in Buffers |-> Raw]
    /\ compiled = FALSE
    /\ stopRaised = FALSE

-----------------------------------------------------------------------------
(* leapp.start *)

\* reset_nodes() drops the registry's references: a node survives only as
\* far as a call frame or a buffer still refers to it.
Reachable(id) == \/ \E i \in DOMAIN frames : frames[i].id = id
                 \/ \E b \in Buffers : buffer[b].owner = id

ResetNodes ==
    /\ session' = session + 1
    /\ node' = [id \in NodeIds |-> IF Reachable(id) THEN node[id] ELSE Absent]
    /\ tracker' = [id \in NodeIds |->
                      IF Reachable(id) THEN tracker[id] ELSE NoTracker]
    /\ nextIndex' = 0
    /\ compiled' = FALSE
    /\ stopRaised' = FALSE

Start(globalPatching) ==
    /\ session < MaxSessions
    /\ interpreting => "restart" \in Usage
    /\ lock' = IF interpreting THEN FALSE ELSE lock
    /\ ResetNodes
    /\ interpreting' = TRUE
    /\ patched' = (patched \/ globalPatching)
    /\ UNCHANGED <<frames, buffer>>

\* Fault: install() patches again what is patched.
InstallsAlways == TRUE

\* install() does nothing when it has already installed its patches.
Installs == ~patched

\* TracingPatcher.install() raises: only when it has something to install.
StartFails ==
    /\ session < MaxSessions
    /\ interpreting => "restart" \in Usage
    /\ Installs
    /\ lock' = IF interpreting THEN FALSE ELSE lock
    /\ ResetNodes
    /\ interpreting' = FALSE
    /\ UNCHANGED <<patched, frames, buffer>>

-----------------------------------------------------------------------------
(* BufferTracker.restore on the trackers of a set of nodes *)

\* Fault: the attributes are not set back.
RestoredNever(ids) == buffer

Restored(ids) ==
    [b \in Buffers |->
        IF \E id \in ids : b \in tracker[id].injected THEN Raw ELSE buffer[b]]

Registered == {Id(n) : n \in {m \in Names : Known(m)}}

Cleared(ids) ==
    [id \in NodeIds |-> IF id \in ids THEN [tracker[id] EXCEPT !.injected = {}]
                                     ELSE tracker[id]]

\* leapp.stop restores the trackers of the registered nodes, then takes the
\* patches away.  Uninstalling them may raise, and then they count as
\* installed; the session has ended all the same.
Stop(raises) ==
    /\ Unlocked
    /\ interpreting
    /\ raises => patched
    /\ interpreting' = FALSE
    /\ patched' = raises
    /\ stopRaised' = raises
    /\ buffer' = Restored(Registered)
    /\ tracker' = Cleared(Registered)
    /\ UNCHANGED <<lock, frames, session, node, nextIndex, compiled>>

\* Restoring stops at the first attribute that cannot be given back: some
\* nodes have all their buffers back, the next one some of them, and no patch
\* is taken away.
StopFails ==
    /\ "unrestorable" \in Usage
    /\ Unlocked
    /\ interpreting
    /\ interpreting' = FALSE
    /\ stopRaised' = TRUE
    /\ \E done \in SUBSET Registered : \E id \in Registered \ done :
       \E some \in SUBSET tracker[id].injected \ {tracker[id].injected} :
          /\ buffer' = [b \in Buffers |->
                          IF b \in some THEN Raw ELSE Restored(done)[b]]
          /\ tracker' = Cleared(done)
    /\ UNCHANGED <<patched, lock, frames, session, node, nextIndex, compiled>>

-----------------------------------------------------------------------------
(* annotate.input_tensors *)

\* The first call creates the node; a call on a captured node whose Warp
\* segments are pending re-arms it for the capture pass
\* (prepare_warp_capture, reset_trace_state).  Any other call declares or
\* validates inputs, which is NodeSamples' concern.
InputTensors(n) ==
    /\ interpreting
    /\ Unlocked
    /\ \/ /\ ~Known(n)
          /\ node' = [node EXCEPT ![Id(n)] = NewNode("traced")]
       \/ /\ Known(n)
          /\ node[Id(n)].status = "captured"
          /\ node[Id(n)].pending > 0
          /\ node' = [node EXCEPT ![Id(n)] =
                         [@ EXCEPT !.status = "tracing", !.capturing = TRUE,
                                   !.states = {}, !.updated = {}]]
    /\ UNCHANGED <<interpreting, patched, lock, frames, session, nextIndex,
                   tracker, buffer, compiled, stopRaised>>

\* Fault: the number of regions is not compared.
RegionUnchecked(id) == TRUE

\* One more region on the capture pass than was discovered is fatal.
RegionKnown(id) == IF node[id].capturing THEN node[id].pending > 0
                                         ELSE node[id].pending < MaxSegments

\* A Warp segment of the node closes: the discovery pass queues it, the
\* capture pass takes it from the queue.
WarpSegment(n) ==
    /\ interpreting
    /\ Tracing(n)
    /\ node[Id(n)].kind = "traced"
    /\ RegionKnown(Id(n))
    /\ node' = [node EXCEPT ![Id(n)].pending =
                   IF node[Id(n)].capturing THEN @ - 1 ELSE @ + 1]
    /\ UNCHANGED <<interpreting, patched, lock, frames, session, nextIndex,
                   tracker, buffer, compiled, stopRaised>>

-----------------------------------------------------------------------------
(* annotate.module: BufferTracker.inject, then the tracker is recorded *)

\* A buffer that is an active carrier of another node is refused.
Foreign(n, b) == Live(b) /\ buffer[b].owner # Id(n)

Module(n, bs) ==
    /\ interpreting
    /\ Known(n)
    /\ node[Id(n)].kind = "traced"
    /\ IF Tracing(n)
       THEN /\ \A b \in bs : ~Foreign(n, b)
            /\ tracker[Id(n)].injected # {} => "second_module" \in Usage
            /\ node' = [node EXCEPT ![Id(n)].states = @ \cup bs]
            /\ tracker' = [tracker EXCEPT ![Id(n)] =
                              [injected |-> bs, collected |-> FALSE]]
            /\ buffer' = [b \in Buffers |-> IF b \in bs THEN Carrier(Id(n))
                                                        ELSE buffer[b]]
       ELSE /\ tracker' = [tracker EXCEPT ![Id(n)] =
                              [injected |-> {}, collected |-> FALSE]]
            /\ UNCHANGED <<node, buffer>>
    /\ UNCHANGED <<interpreting, patched, lock, frames, session, nextIndex,
                   compiled, stopRaised>>

\* create_state_tensors() declares the buffers one by one, and declaring
\* promotes a plain tensor in place.  When a later buffer is refused, because
\* another node traces it or its name is taken, the earlier ones stay promoted
\* and no tracker knows of them.
ModuleFails(n, promoted) ==
    /\ "partial_inject" \in Usage
    /\ interpreting
    /\ Tracing(n)
    /\ node[Id(n)].kind = "traced"
    /\ \A b \in promoted : ~Foreign(n, b)
    /\ node' = [node EXCEPT ![Id(n)].states = @ \cup promoted]
    /\ buffer' = [b \in Buffers |->
                    IF b \in promoted THEN Carrier(Id(n)) ELSE buffer[b]]
    /\ UNCHANGED <<interpreting, patched, lock, frames, session, nextIndex,
                   tracker, compiled, stopRaised>>

\* The program, mostly a forward pass, assigns to a buffer attribute, borrowed
\* or not: a plain tensor or a value of a traced node, of this session or an
\* earlier one, that is still tracing or has been captured.
Forward(b, owner) ==
    /\ owner \in {id \in NodeIds : node[id].kind = "traced"} \cup {Nobody}
    /\ buffer' = [buffer EXCEPT ![b].owner = owner, ![b].fresh = FALSE]
    /\ UNCHANGED <<interpreting, patched, lock, frames, session, node,
                   nextIndex, tracker, compiled, stopRaised>>

-----------------------------------------------------------------------------
(* annotate.output_tensors: compile_trace, then _assign_completion_index *)

\* Fault: reassignment is judged by the owner, not by identity.
MutatedByOwner(id) == {b \in tracker[id].injected : buffer[b].owner # id}

\* The buffers of node id that the forward pass reassigned: the attribute no
\* longer holds the very tensor that was injected.
Mutated(id) == {b \in tracker[id].injected : buffer[b] # Carrier(id)}

\* BufferTracker.collect: the mutated buffers are updated states, the others
\* become constants of the graph and are no state of the node any more.
Collected(id) ==
    LET constant == tracker[id].injected \ Mutated(id)
    IN IF tracker[id].collected THEN node[id]
       ELSE [node[id] EXCEPT !.states  = @ \ constant,
                             !.updated = (@ \cup Mutated(id)) \ constant]

\* update_state() takes values whose context has the name of the node, for
\* states the node has.
Collectable(id) ==
    \A b \in Mutated(id) : /\ buffer[b].owner # Nobody
                           /\ buffer[b].owner[2] = id[2]
                           /\ b \in node[id].states

\* Fault: collect() without restore().
CollectOnly(id) ==
    /\ tracker' = [tracker EXCEPT ![id] = NoTracker]
    /\ buffer' = buffer

\* compile_trace collects and restores before it looks at anything else.
CollectAndRestore(id) ==
    /\ tracker[id].collected \/ Collectable(id)
    /\ IF tracker[id].collected
       THEN UNCHANGED <<tracker, buffer>>
       ELSE /\ tracker' = [tracker EXCEPT ![id] = NoTracker]
            /\ buffer' = Restored({id})

\* Fault: every completion takes a new number.
IndexRenewed(id) == nextIndex

\* A node keeps the index of its first completion.
IndexOf(id) == IF node[id].index = Unset THEN nextIndex ELSE node[id].index
NextIndexAfter(id) == IF node[id].index = Unset THEN nextIndex + 1 ELSE nextIndex

OutputTensors(n) ==
    LET id == Id(n)
        c  == Collected(id)
    IN /\ interpreting
       /\ Tracing(n)
       /\ node[id].kind = "traced"
       /\ CollectAndRestore(id)
       /\ node' = [node EXCEPT ![id] =
                      [c EXCEPT !.status = "captured",
                                !.states = @ \cap c.updated,
                                !.index  = IndexOf(id)]]
       /\ nextIndex' = NextIndexAfter(id)
       /\ UNCHANGED <<interpreting, patched, lock, frames, session, compiled,
                      stopRaised>>

\* An output is refused, or the graph module cannot be built: the buffers
\* have been collected and restored, and the node is still tracing.
OutputTensorsFails(n) ==
    LET id == Id(n)
        c  == Collected(id)
    IN /\ interpreting
       /\ Tracing(n)
       /\ node[id].kind = "traced"
       /\ CollectAndRestore(id)
       /\ node' = [node EXCEPT ![id] = [c EXCEPT !.states = @ \cap c.updated]]
       /\ UNCHANGED <<interpreting, patched, lock, frames, session, nextIndex,
                      compiled, stopRaised>>

\* collect() raises over the mutated buffers: values that are not of this
\* node are refused before anything changes, a wrong shape or dtype after some
\* states got their update.  The tracker is as before, so that the next
\* output_tensors() or stop() finds the buffers still lent.
CollectFails(n) ==
    LET id == Id(n)
    IN /\ interpreting
       /\ Tracing(n)
       /\ node[id].kind = "traced"
       /\ ~tracker[id].collected
       /\ \E some \in SUBSET Mutated(id) \ {Mutated(id)} :
             /\ some # {} => Collectable(id)
             /\ node' = [node EXCEPT ![id].updated = @ \cup some]
       /\ UNCHANGED <<interpreting, patched, lock, frames, session, nextIndex,
                      tracker, buffer, compiled, stopRaised>>

\* restore() raises over one buffer: the tracker counts as collected and keeps
\* all its buffers, of which only some have been given back.
RestoreFails(n) ==
    LET id == Id(n)
    IN /\ "unrestorable" \in Usage
       /\ interpreting
       /\ Tracing(n)
       /\ node[id].kind = "traced"
       /\ ~tracker[id].collected
       /\ Collectable(id)
       /\ \E some \in SUBSET tracker[id].injected \ {tracker[id].injected} :
             buffer' = [b \in Buffers |-> IF b \in some THEN Raw ELSE buffer[b]]
       /\ node' = [node EXCEPT ![id] = Collected(id)]
       /\ tracker' = [tracker EXCEPT ![id].collected = TRUE]
       /\ UNCHANGED <<interpreting, patched, lock, frames, session, nextIndex,
                      compiled, stopRaised>>

-----------------------------------------------------------------------------
(* The legacy _method decorator *)

\* The wrapper sets the node up, takes the lock and runs the function.
EnterMethod(n) ==
    /\ interpreting
    /\ Unlocked
    /\ \/ /\ ~Known(n)
          /\ node' = [node EXCEPT ![Id(n)] = NewNode("method")]
       \/ /\ Known(n)
          /\ node[Id(n)].kind = "method"
          /\ UNCHANGED node
    /\ frames' = Append(frames, [id |-> Id(n), new |-> ~Known(n)])
    /\ lock' = TRUE
    /\ UNCHANGED <<interpreting, patched, session, nextIndex, tracker, buffer,
                   compiled, stopRaised>>

\* The set-up fails, or TracingLock.acquire() finds the lock taken: the node
\* has been registered and no later call will complete it.
MethodRefused(n) ==
    /\ interpreting
    /\ ~Known(n)
    /\ node' = [node EXCEPT ![Id(n)] = NewNode("method")]
    /\ UNCHANGED <<interpreting, patched, lock, frames, session, nextIndex,
                   tracker, buffer, compiled, stopRaised>>

\* The function returns or raises.  Only the first call of a node that
\* returns outputs LEAPP accepts completes the node.
LeaveMethod(accepted) ==
    /\ frames # <<>>
    /\ LET f == frames[Len(frames)]
       IN IF accepted /\ f.new
          THEN /\ node' = [node EXCEPT ![f.id].index = IndexOf(f.id)]
               /\ nextIndex' = NextIndexAfter(f.id)
          ELSE UNCHANGED <<node, nextIndex>>
    /\ frames' = SubSeq(frames, 1, Len(frames) - 1)
    /\ lock' = FALSE
    /\ UNCHANGED <<interpreting, patched, session, tracker, buffer, compiled,
                   stopRaised>>

-----------------------------------------------------------------------------
(* leapp.compile_graph, up to validate_nodes_ready_for_compile *)

\* Fault: completion is not asked for.
ReadyUnnumbered(id) == node[id].pending = 0

\* What compile_graph asks of a node.
Ready(id) == node[id].index # Unset /\ node[id].pending = 0

CompileGraph ==
    /\ ~interpreting
    /\ session > 0
    /\ \A n \in Names : Known(n) => Ready(Id(n))
    /\ compiled' = TRUE
    /\ UNCHANGED <<interpreting, patched, lock, frames, session, node,
                   nextIndex, tracker, buffer, stopRaised>>

-----------------------------------------------------------------------------
Next ==
    \/ \E globalPatching \in BOOLEAN : Start(globalPatching)
    \/ StartFails
    \/ \E raises \in BOOLEAN : Stop(raises)
    \/ StopFails
    \/ \E n \in Names : \/ InputTensors(n)
                        \/ WarpSegment(n)
                        \/ \E bs \in SUBSET Buffers \ {{}} :
                              Module(n, bs) \/ ModuleFails(n, bs)
                        \/ OutputTensors(n)
                        \/ OutputTensorsFails(n)
                        \/ CollectFails(n)
                        \/ RestoreFails(n)
                        \/ EnterMethod(n)
                        \/ MethodRefused(n)
    \/ \E b \in Buffers, owner \in NodeIds \cup {Nobody} : Forward(b, owner)
    \/ \E accepted \in BOOLEAN : LeaveMethod(accepted)
    \/ CompileGraph

Spec == Init /\ [][Next]_vars

-----------------------------------------------------------------------------
(* Properties *)

NodeType ==
    [status : {"absent", "tracing", "captured"},
     kind : {"none", "traced", "method"},
     index : Nat \cup {Unset}, pending : Nat, capturing : BOOLEAN,
     states : SUBSET Buffers, updated : SUBSET Buffers]

TrackerType == [injected : SUBSET Buffers, collected : BOOLEAN]
BufferType  == [owner : NodeIds \cup {Nobody}, lender : NodeIds \cup {Nobody},
                fresh : BOOLEAN]
FrameType   == [id : NodeIds, new : BOOLEAN]

\* The type of every variable.
TypeOK ==
    /\ interpreting \in BOOLEAN
    /\ patched \in BOOLEAN
    /\ lock \in BOOLEAN
    /\ frames \in Seq(FrameType)
    /\ session \in 0 .. MaxSessions
    /\ node \in [NodeIds -> NodeType]
    /\ nextIndex \in Nat
    /\ tracker \in [NodeIds -> TrackerType]
    /\ buffer \in [Buffers -> BufferType]
    /\ compiled \in BOOLEAN
    /\ stopRaised \in BOOLEAN

\* The lock is held exactly while one traced function executes, and no
\* second one starts under it (TracingLock's docstring).
TracingMutex ==
    /\ Len(frames) <= 1
    /\ lock <=> frames # <<>>

\* The nodes a session completed are numbered 0, 1, 2, ... with no gap and no
\* repetition: compile_graph sorts by these numbers, replay runs in their
\* order, and the direction of a connection is read off them.
CompletionOrder ==
    LET completed == {n \in Names : Known(n) /\ node[Id(n)].index # Unset}
    IN /\ {node[Id(n)].index : n \in completed} = 0 .. nextIndex - 1
       /\ \A m, n \in completed :
             node[Id(m)].index = node[Id(n)].index => m = n

\* Outside a session no torch module holds a buffer that annotate.module()
\* borrowed, whatever the program assigned to it and however the session
\* ended: what output_tensors did not give back, stop() did.
BuffersRestored == ~interpreting => \A b \in Buffers : ~Lent(b)

\* A borrowed buffer was lent by exactly one node of the running session that
\* is still tracing, and that node's tracker will give it back.
BorrowedByTracker ==
    \A b \in Buffers : Lent(b) =>
        /\ interpreting
        /\ \E n \in Names :
              /\ buffer[b].lender = Id(n)
              /\ Tracing(n)
              /\ b \in tracker[Id(n)].injected
              /\ ~tracker[Id(n)].collected

\* When a node is captured, every buffer it borrowed and its forward pass
\* reassigned is one of its states, and has been given back.
ReassignedExported ==
    [][\A n \in Names :
        Tracing(n) /\ node'[Id(n)].status = "captured" =>
            \A b \in Buffers :
                buffer[b].lender = Id(n) /\ ~buffer[b].fresh =>
                    /\ b \in node'[Id(n)].states
                    /\ buffer'[b] = Raw]_vars

\* Once compile_graph accepted a session, that session is at rest: no traced
\* function runs, no buffer is borrowed, and each node has its number.
CompiledAtRest ==
    compiled =>
        /\ frames = <<>>
        /\ \A b \in Buffers : ~Lent(b)
        /\ Cardinality({n \in Names : Known(n)}) = nextIndex

\* Monkeypatches outlive a session only when the stop() that ended it raised:
\* a failing start() cannot leave the ones of an earlier start() behind.
PatchedWhileInterpreting == patched => interpreting \/ stopRaised

\* A node object is numbered once, however often it is captured and whichever
\* session is running when its last call returns.
NumberedOnce ==
    [][\A id \in NodeIds :
        node[id].index # Unset => node'[id].index = node[id].index
                                  \/ node'[id] = Absent]_vars
=============================================================================
