------------------------- MODULE LeappSession_proofs -------------------------
(***************************************************************************)
(* Proofs about LeappSession, for any number of names, buffers, sessions   *)
(* and Warp segments: types; the buffers annotate.module() borrows are     *)
(* given back, traced functions exclude one another, completed nodes are   *)
(* numbered once and without gaps, and what compile_graph() accepts is at  *)
(* rest.                                                                   *)
(***************************************************************************)
EXTENDS LeappSession, SequenceTheorems, FunctionTheorems, FiniteSetTheorems, TLAPS

-----------------------------------------------------------------------------
(* Type correctness, whatever the program's usage *)

\* The values the actions build have the types of the places they go to.
LEMMA NodeTypes ==
    /\ Absent \in NodeType
    /\ NewNode("traced") \in NodeType
    /\ NewNode("method") \in NodeType
BY DEF Absent, NewNode, NodeType, Unset

LEMMA NoTrackerType == NoTracker \in TrackerType
BY DEF NoTracker, TrackerType

LEMMA RawType == Raw \in BufferType
BY DEF Raw, BufferType

LEMMA CarrierType == ASSUME NEW id \in NodeIds PROVE Carrier(id) \in BufferType
BY DEF Carrier, BufferType

LEMMA IdType == ASSUME TypeOK, NEW n \in Names, session > 0
                PROVE  Id(n) \in NodeIds
BY BoundAssumption DEF TypeOK, Id, NodeIds, Sessions

LEMMA RestoredType == ASSUME TypeOK, NEW ids
                      PROVE  Restored(ids) \in [Buffers -> BufferType]
BY RawType DEF TypeOK, Restored

LEMMA ClearedType == ASSUME TypeOK, NEW ids
                     PROVE  Cleared(ids) \in [NodeIds -> TrackerType]
BY DEF TypeOK, Cleared, TrackerType

LEMMA CollectedType ==
    ASSUME TypeOK, NEW id \in NodeIds
    PROVE  /\ Collected(id) \in NodeType
           /\ Collected(id).status = node[id].status
           /\ Collected(id).index = node[id].index
           /\ \A b \in Mutated(id) : b \in node[id].states /\ ~tracker[id].collected
                 => b \in Collected(id).states /\ b \in Collected(id).updated
<1>1. node[id] \in NodeType /\ tracker[id] \in TrackerType
  BY DEF TypeOK
<1>2. Mutated(id) \in SUBSET Buffers
  BY <1>1 DEF Mutated, TrackerType
<1> DEFINE constant == tracker[id].injected \ Mutated(id)
           s == node[id].states \ constant
           u == (node[id].updated \cup Mutated(id)) \ constant
<1>3. s \in SUBSET Buffers /\ u \in SUBSET Buffers
  BY <1>1, <1>2 DEF NodeType
<1>4. \A b \in Mutated(id) : b \in u /\ (b \in node[id].states => b \in s)
  OBVIOUS
<1>5. Collected(id) = IF tracker[id].collected THEN node[id]
                      ELSE [node[id] EXCEPT !.states = s, !.updated = u]
  BY DEF Collected
<1> HIDE DEF s, u, constant
<1> QED BY <1>1, <1>3, <1>4, <1>5 DEF NodeType

LEMMA IndexType == ASSUME TypeOK, NEW id \in NodeIds
                   PROVE  IndexOf(id) \in Nat /\ NextIndexAfter(id) \in Nat
<1>1. node[id].index \in Nat \cup {Unset}
  BY DEF TypeOK, NodeType
<1> QED BY <1>1 DEF TypeOK, IndexOf, NextIndexAfter

\* start() leaves the objects it can still reach as they were.
LEMMA ResetType ==
    ASSUME TypeOK, ResetNodes, session < MaxSessions
    PROVE  /\ node' \in [NodeIds -> NodeType]
           /\ tracker' \in [NodeIds -> TrackerType]
           /\ session' \in 0 .. MaxSessions
           /\ nextIndex' \in Nat
           /\ compiled' \in BOOLEAN
           /\ stopRaised' \in BOOLEAN
<1>1. node' \in [NodeIds -> NodeType]
  BY NodeTypes DEF TypeOK, ResetNodes
<1>2. tracker' \in [NodeIds -> TrackerType]
  BY NoTrackerType DEF TypeOK, ResetNodes
<1>3. session' \in 0 .. MaxSessions
  BY BoundAssumption DEF TypeOK, ResetNodes
<1> QED BY <1>1, <1>2, <1>3 DEF ResetNodes

\* Collecting and restoring keep trackers and buffers in their types.
LEMMA CollectAndRestoreType ==
    ASSUME TypeOK, NEW id, CollectAndRestore(id)
    PROVE  /\ tracker' \in [NodeIds -> TrackerType]
           /\ buffer' \in [Buffers -> BufferType]
BY RestoredType, NoTrackerType DEF TypeOK, CollectAndRestore

\* What interprets has been started: Id(n) names a node object.
Started == interpreting => session > 0
Typed   == TypeOK /\ Started

LEMMA InitTyped == Init => Typed
<1> SUFFICES ASSUME Init PROVE Typed
  OBVIOUS
<1>1. /\ node \in [NodeIds -> NodeType]
      /\ tracker \in [NodeIds -> TrackerType]
      /\ buffer \in [Buffers -> BufferType]
  BY NodeTypes, NoTrackerType, RawType DEF Init
<1>2. frames \in Seq(FrameType)
  BY EmptySeq DEF Init
<1>3. session \in 0 .. MaxSessions
  BY BoundAssumption DEF Init
<1> QED BY <1>1, <1>2, <1>3 DEF Init, Typed, TypeOK, Started

LEMMA StepTyped == ASSUME Typed, [Next]_vars PROVE Typed'
<1>1. TypeOK /\ (interpreting => session > 0)
  BY DEF Typed, Started
<1>2. TypeOK'
  <2> USE <1>1
  <2>1. ASSUME NEW g \in BOOLEAN, Start(g) PROVE TypeOK'
    BY <2>1, ResetType DEF TypeOK, Start
  <2>2. ASSUME StartFails PROVE TypeOK'
    BY <2>2, ResetType DEF TypeOK, StartFails
  <2>3. ASSUME NEW raises \in BOOLEAN, Stop(raises) PROVE TypeOK'
    <3>1. /\ tracker' \in [NodeIds -> TrackerType]
          /\ buffer' \in [Buffers -> BufferType]
      BY <2>3, ClearedType, RestoredType DEF Stop
    <3> QED BY <2>3, <3>1 DEF TypeOK, Stop
  <2>16. ASSUME StopFails PROVE TypeOK'
    <3>1. PICK done, some :
             /\ buffer' = [b \in Buffers |->
                             IF b \in some THEN Raw ELSE Restored(done)[b]]
             /\ tracker' = Cleared(done)
      BY <2>16 DEF StopFails
    <3>2. /\ tracker' \in [NodeIds -> TrackerType]
          /\ buffer' \in [Buffers -> BufferType]
      BY <3>1, ClearedType, RestoredType, RawType
    <3> QED BY <2>16, <3>2 DEF TypeOK, StopFails
  <2>4. ASSUME NEW n \in Names, InputTensors(n) PROVE TypeOK'
    <3>1. CASE ~Known(n)
      BY <2>4, <3>1, NodeTypes DEF TypeOK, InputTensors
    <3>2. CASE Known(n)
      <4>1. Id(n) \in NodeIds
        BY <3>2, IdType DEF Known
      <4>2. node[Id(n)] \in NodeType
        BY <4>1 DEF TypeOK
      <4>3. [node[Id(n)] EXCEPT !.status = "tracing", !.capturing = TRUE,
                                !.states = {}, !.updated = {}] \in NodeType
        BY <4>2 DEF NodeType
      <4>4. node' = [node EXCEPT ![Id(n)] =
                        [@ EXCEPT !.status = "tracing", !.capturing = TRUE,
                                  !.states = {}, !.updated = {}]]
        BY <2>4, <3>2 DEF InputTensors
      <4>5. node' \in [NodeIds -> NodeType]
        BY <4>3, <4>4 DEF TypeOK
      <4> QED BY <2>4, <4>5 DEF TypeOK, InputTensors
    <3> QED BY <3>1, <3>2
  <2>5. ASSUME NEW n \in Names, WarpSegment(n) PROVE TypeOK'
    <3>1. Id(n) \in NodeIds
      BY <2>5, IdType DEF WarpSegment, Tracing, Known
    <3>2. node[Id(n)] \in NodeType
      BY <3>1 DEF TypeOK
    <3>3. /\ \A k \in Nat : [node[Id(n)] EXCEPT !.pending = k] \in NodeType
          /\ node[Id(n)].pending \in Nat
      BY <3>2 DEF NodeType
    <3>4. PICK k \in Nat : node' = [node EXCEPT ![Id(n)].pending = k]
      <4>1. (IF node[Id(n)].capturing THEN node[Id(n)].pending - 1
                                      ELSE node[Id(n)].pending + 1) \in Nat
        BY <2>5, <3>3 DEF WarpSegment, RegionKnown
      <4> QED BY <2>5, <4>1 DEF WarpSegment
    <3>5. node' \in [NodeIds -> NodeType]
      BY <3>3, <3>4 DEF TypeOK
    <3> QED BY <2>5, <3>5 DEF TypeOK, WarpSegment
  <2>6. ASSUME NEW n \in Names, NEW bs \in SUBSET Buffers, Module(n, bs)
        PROVE  TypeOK'
    <3>1. Id(n) \in NodeIds
      BY <2>6, IdType DEF Module, Known
    <3>2. node[Id(n)] \in NodeType
      BY <3>1 DEF TypeOK
    <3>3. [node[Id(n)] EXCEPT !.states = @ \cup bs] \in NodeType
      BY <3>2 DEF NodeType
    <3>4. /\ [injected |-> bs, collected |-> FALSE] \in TrackerType
          /\ [injected |-> {}, collected |-> FALSE] \in TrackerType
      BY DEF TrackerType
    <3>5. CASE Tracing(n)
      BY <2>6, <3>1, <3>3, <3>4, <3>5, CarrierType DEF TypeOK, Module
    <3>6. CASE ~Tracing(n)
      BY <2>6, <3>4, <3>6 DEF TypeOK, Module
    <3> QED BY <3>5, <3>6
  <2>7. ASSUME NEW n \in Names, NEW bs \in SUBSET Buffers, ModuleFails(n, bs)
        PROVE  TypeOK'
    <3>1. Id(n) \in NodeIds
      BY <2>7, IdType DEF ModuleFails, Tracing, Known
    <3>2. node[Id(n)] \in NodeType
      BY <3>1 DEF TypeOK
    <3>3. [node[Id(n)] EXCEPT !.states = @ \cup bs] \in NodeType
      BY <3>2 DEF NodeType
    <3> QED BY <2>7, <3>1, <3>3, CarrierType DEF TypeOK, ModuleFails
  <2>8. ASSUME NEW n \in Names, OutputTensors(n) PROVE TypeOK'
    <3>1. Id(n) \in NodeIds
      BY <2>8, IdType DEF OutputTensors, Tracing, Known
    <3>2. Collected(Id(n)) \in NodeType /\ IndexOf(Id(n)) \in Nat
      BY <3>1, CollectedType, IndexType
    <3>3. [Collected(Id(n)) EXCEPT !.status = "captured",
                                   !.states = @ \cap Collected(Id(n)).updated,
                                   !.index = IndexOf(Id(n))] \in NodeType
      BY <3>2 DEF NodeType
    <3>4. node' \in [NodeIds -> NodeType]
      BY <2>8, <3>3 DEF TypeOK, OutputTensors
    <3>5. nextIndex' \in Nat
      BY <2>8, <3>1, IndexType DEF OutputTensors
    <3>6. /\ tracker' \in [NodeIds -> TrackerType]
          /\ buffer' \in [Buffers -> BufferType]
      BY <2>8, CollectAndRestoreType DEF OutputTensors
    <3> QED BY <2>8, <3>4, <3>5, <3>6 DEF TypeOK, OutputTensors
  <2>9. ASSUME NEW n \in Names, OutputTensorsFails(n) PROVE TypeOK'
    <3>1. Id(n) \in NodeIds
      BY <2>9, IdType DEF OutputTensorsFails, Tracing, Known
    <3>2. Collected(Id(n)) \in NodeType
      BY <3>1, CollectedType
    <3>3. [Collected(Id(n)) EXCEPT !.states = @ \cap Collected(Id(n)).updated]
            \in NodeType
      BY <3>2 DEF NodeType
    <3>4. node' \in [NodeIds -> NodeType]
      BY <2>9, <3>3 DEF TypeOK, OutputTensorsFails
    <3>5. /\ tracker' \in [NodeIds -> TrackerType]
          /\ buffer' \in [Buffers -> BufferType]
      BY <2>9, CollectAndRestoreType DEF OutputTensorsFails
    <3> QED BY <2>9, <3>4, <3>5 DEF TypeOK, OutputTensorsFails
  <2>10. ASSUME NEW n \in Names, EnterMethod(n) PROVE TypeOK'
    <3>1. Id(n) \in NodeIds
      BY <2>10, IdType DEF EnterMethod
    <3>2. [id |-> Id(n), new |-> ~Known(n)] \in FrameType
      BY <3>1 DEF FrameType, Known
    <3>3. frames' \in Seq(FrameType)
      BY <2>10, <3>2, AppendProperties DEF TypeOK, EnterMethod
    <3>4. node' \in [NodeIds -> NodeType]
      BY <2>10, NodeTypes DEF TypeOK, EnterMethod
    <3> QED BY <2>10, <3>3, <3>4 DEF TypeOK, EnterMethod
  <2>11. ASSUME NEW n \in Names, MethodRefused(n) PROVE TypeOK'
    BY <2>11, NodeTypes DEF TypeOK, MethodRefused
  <2>12. ASSUME NEW b \in Buffers, NEW o, Forward(b, o) PROVE TypeOK'
    <3>1. buffer[b] \in BufferType /\ o \in NodeIds \cup {Nobody}
      BY <2>12 DEF TypeOK, Forward
    <3>2. [buffer[b] EXCEPT !.owner = o, !.fresh = FALSE] \in BufferType
      BY <3>1 DEF BufferType
    <3>3. buffer' = [buffer EXCEPT ![b] = [buffer[b] EXCEPT !.owner = o,
                                                            !.fresh = FALSE]]
      BY <2>12 DEF TypeOK, Forward
    <3>4. buffer' \in [Buffers -> BufferType]
      BY <3>2, <3>3 DEF TypeOK
    <3> QED BY <2>12, <3>4 DEF TypeOK, Forward
  <2>17. ASSUME NEW n \in Names, CollectFails(n) PROVE TypeOK'
    <3>1. Id(n) \in NodeIds
      BY <2>17, IdType DEF CollectFails, Tracing, Known
    <3>2. PICK some \in SUBSET Mutated(Id(n)) :
             node' = [node EXCEPT ![Id(n)].updated = @ \cup some]
      BY <2>17 DEF CollectFails
    <3>3. node[Id(n)] \in NodeType /\ some \subseteq Buffers
      BY <3>1, <3>2 DEF TypeOK, Mutated, TrackerType
    <3>4. [node[Id(n)] EXCEPT !.updated = @ \cup some] \in NodeType
      BY <3>3 DEF NodeType
    <3>5. node' \in [NodeIds -> NodeType]
      BY <3>2, <3>4 DEF TypeOK
    <3> QED BY <2>17, <3>5 DEF TypeOK, CollectFails
  <2>18. ASSUME NEW n \in Names, RestoreFails(n) PROVE TypeOK'
    <3>1. Id(n) \in NodeIds
      BY <2>18, IdType DEF RestoreFails, Tracing, Known
    <3>2. Collected(Id(n)) \in NodeType
      BY <3>1, CollectedType
    <3>3. node' \in [NodeIds -> NodeType]
      BY <2>18, <3>2 DEF TypeOK, RestoreFails
    <3>4. [tracker[Id(n)] EXCEPT !.collected = TRUE] \in TrackerType
      BY <3>1 DEF TypeOK, TrackerType
    <3>5. tracker' \in [NodeIds -> TrackerType]
      BY <2>18, <3>4 DEF TypeOK, RestoreFails
    <3>6. PICK some : buffer' = [b \in Buffers |-> IF b \in some THEN Raw
                                                             ELSE buffer[b]]
      BY <2>18 DEF RestoreFails
    <3>7. buffer' \in [Buffers -> BufferType]
      BY <3>6, RawType DEF TypeOK
    <3> QED BY <2>18, <3>3, <3>5, <3>7 DEF TypeOK, RestoreFails
  <2>13. ASSUME NEW a \in BOOLEAN, LeaveMethod(a) PROVE TypeOK'
    <3> DEFINE f == frames[Len(frames)]
    <3>1. frames' \in Seq(FrameType)
      <4>1. frames \in Seq(FrameType) /\ frames # <<>>
        BY <2>13 DEF TypeOK, LeaveMethod
      <4>2. Len(frames) \in Nat /\ DOMAIN frames = 1 .. Len(frames)
        BY <4>1, LenProperties
      <4>3. \A i \in 1 .. Len(frames) - 1 : frames[i] \in FrameType
        BY <4>1, <4>2, ElementOfSeq
      <4>4. SubSeq(frames, 1, Len(frames) - 1) \in Seq(FrameType)
        BY <4>1, <4>2, <4>3, SubSeqProperties
      <4> QED BY <2>13, <4>4 DEF LeaveMethod
    <3>2. f \in FrameType
      BY <2>13 DEF TypeOK, LeaveMethod
    <3>3. f.id \in NodeIds
      BY <3>2 DEF FrameType
    <3>4. IndexOf(f.id) \in Nat /\ NextIndexAfter(f.id) \in Nat
      BY <3>3, IndexType
    <3>5. [node[f.id] EXCEPT !.index = IndexOf(f.id)] \in NodeType
      <4>1. node[f.id] \in NodeType
        BY <3>3 DEF TypeOK
      <4> QED BY <3>4, <4>1 DEF NodeType
    <3>6. node' \in [NodeIds -> NodeType] /\ nextIndex' \in Nat
      BY <2>13, <3>4, <3>5 DEF TypeOK, LeaveMethod
    <3> QED BY <2>13, <3>1, <3>6 DEF TypeOK, LeaveMethod
  <2>14. CASE CompileGraph
    BY <2>14 DEF TypeOK, CompileGraph
  <2>15. CASE UNCHANGED vars
    BY <2>15 DEF TypeOK, vars
  <2> QED
    BY <2>1, <2>2, <2>3, <2>4, <2>5, <2>6, <2>7, <2>8, <2>9, <2>10, <2>11,
       <2>12, <2>13, <2>14, <2>15, <2>16, <2>17, <2>18 DEF Next
<1>3. Started'
  <2>1. CASE \E g \in BOOLEAN : Start(g)
    BY <1>1, <2>1 DEF Start, ResetNodes, TypeOK, Started
  <2>2. CASE StartFails
    BY <2>2 DEF StartFails, Started
  <2>3. CASE StopFails \/ \E raises \in BOOLEAN : Stop(raises)
    BY <2>3 DEF Stop, StopFails, Started
  <2>4. CASE UNCHANGED <<interpreting, session>>
    BY <1>1, <2>4 DEF Started
  <2> QED BY <2>1, <2>2, <2>3, <2>4
          DEF Next, vars, InputTensors, WarpSegment, Module, ModuleFails,
              OutputTensors, OutputTensorsFails, CollectFails, RestoreFails,
              EnterMethod, MethodRefused,
              Forward, LeaveMethod, CompileGraph
<1> QED BY <1>2, <1>3 DEF Typed

\* Every variable keeps its type.
THEOREM TypeCorrect == Spec => []TypeOK
<1>1. Typed => TypeOK
  BY DEF Typed
<1> QED BY <1>1, InitTyped, StepTyped, PTL DEF Spec

-----------------------------------------------------------------------------
(* What the actions leave of the nodes they touch *)

LEMMA WarpSegmentKeeps ==
    ASSUME TypeOK, NEW n, WarpSegment(n), NEW id \in NodeIds
    PROVE  /\ node'[id].status = node[id].status
           /\ node'[id].index = node[id].index
           /\ node'[id].states = node[id].states
<1>1. PICK k : node' = [node EXCEPT ![Id(n)].pending = k]
  BY DEF WarpSegment
<1>2. node'[id] = node[id] \/ node'[id] = [node[id] EXCEPT !.pending = k]
  BY <1>1 DEF TypeOK
<1>3. \A r \in NodeType : /\ [r EXCEPT !.pending = k].status = r.status
                         /\ [r EXCEPT !.pending = k].index = r.index
                         /\ [r EXCEPT !.pending = k].states = r.states
  BY DEF NodeType
<1> QED BY <1>2, <1>3 DEF TypeOK

LEMMA ModuleKeeps ==
    ASSUME TypeOK, NEW n, NEW bs, Module(n, bs) \/ ModuleFails(n, bs),
           NEW id \in NodeIds
    PROVE  /\ node'[id].status = node[id].status
           /\ node'[id].index = node[id].index
<1>1. node' = node \/ \E x : node' = [node EXCEPT ![Id(n)].states = x]
  BY DEF Module, ModuleFails
<1>2. \/ node'[id] = node[id]
      \/ \E x : node'[id] = [node[id] EXCEPT !.states = x]
  BY <1>1 DEF TypeOK
<1>3. \A r \in NodeType : \A x :
         /\ [r EXCEPT !.states = x].status = r.status
         /\ [r EXCEPT !.states = x].index = r.index
  BY DEF NodeType
<1>4. node[id] \in NodeType
  BY DEF TypeOK
<1>5. CASE \E x : node'[id] = [node[id] EXCEPT !.states = x]
  BY <1>3, <1>4, <1>5
<1> QED BY <1>2, <1>5

LEMMA OutputKeeps ==
    ASSUME TypeOK, NEW n, Id(n) \in NodeIds,
           OutputTensors(n) \/ OutputTensorsFails(n)
    PROVE  /\ node'[Id(n)].status # "absent"
           /\ node'[Id(n)].index = IF OutputTensors(n) THEN IndexOf(Id(n))
                                                      ELSE node[Id(n)].index
           /\ \A id \in NodeIds : id # Id(n) => node'[id] = node[id]
<1>1. node[Id(n)] \in NodeType /\ Collected(Id(n)) \in NodeType
  BY CollectedType DEF TypeOK
<1>2. /\ Collected(Id(n)).status = node[Id(n)].status
      /\ Collected(Id(n)).index = node[Id(n)].index
  BY CollectedType
<1>3. node[Id(n)].status = "tracing"
  BY DEF OutputTensors, OutputTensorsFails, Tracing
<1>4. \A id \in NodeIds : id # Id(n) => node'[id] = node[id]
  BY DEF OutputTensors, OutputTensorsFails, TypeOK
<1>5. CASE OutputTensors(n)
  <2>1. node'[Id(n)] = [Collected(Id(n)) EXCEPT
            !.status = "captured",
            !.states = @ \cap Collected(Id(n)).updated,
            !.index  = IndexOf(Id(n))]
    BY <1>5 DEF OutputTensors, TypeOK
  <2>2. node'[Id(n)].status = "captured" /\ node'[Id(n)].index = IndexOf(Id(n))
    BY <1>1, <2>1 DEF NodeType
  <2> QED BY <1>4, <1>5, <2>2
<1>6. CASE ~OutputTensors(n)
  <2>1. node'[Id(n)] = [Collected(Id(n)) EXCEPT
            !.states = @ \cap Collected(Id(n)).updated]
    BY <1>6 DEF OutputTensorsFails, TypeOK
  <2>2. /\ node'[Id(n)].status = Collected(Id(n)).status
        /\ node'[Id(n)].index = Collected(Id(n)).index
    BY <1>1, <2>1 DEF NodeType
  <2> QED BY <1>2, <1>3, <1>4, <1>6, <2>2
<1> QED BY <1>5, <1>6

LEMMA CollectKeeps ==
    ASSUME TypeOK, NEW n, Id(n) \in NodeIds, CollectFails(n) \/ RestoreFails(n),
           NEW id \in NodeIds
    PROVE  /\ node'[id].status = node[id].status
           /\ node'[id].index = node[id].index
<1>1. node[Id(n)] \in NodeType
  BY DEF TypeOK
<1>2. CASE id # Id(n)
  BY <1>2 DEF CollectFails, RestoreFails, TypeOK
<1>3. CASE id = Id(n) /\ CollectFails(n)
  <2>1. \E some : node'[id] = [node[id] EXCEPT !.updated = @ \cup some]
    BY <1>3 DEF CollectFails, TypeOK
  <2> QED BY <1>1, <1>3, <2>1 DEF NodeType
<1>4. CASE id = Id(n) /\ RestoreFails(n)
  <2>1. node'[id] = Collected(id)
    BY <1>4 DEF RestoreFails, TypeOK
  <2> QED BY <2>1, CollectedType
<1> QED BY <1>2, <1>3, <1>4

LEMMA CollectFailsKeeps ==
    ASSUME TypeOK, NEW n, Id(n) \in NodeIds, CollectFails(n), NEW id \in NodeIds
    PROVE  /\ node'[id].status = node[id].status
           /\ node'[id].states = node[id].states
<1>1. node[id] \in NodeType
  BY DEF TypeOK
<1>2. \/ node'[id] = node[id]
      \/ \E some : node'[id] = [node[id] EXCEPT !.updated = @ \cup some]
  BY DEF CollectFails, TypeOK
<1> QED BY <1>1, <1>2 DEF NodeType

LEMMA LeaveMethodKeeps ==
    ASSUME TypeOK, NEW a, LeaveMethod(a), NEW id \in NodeIds
    PROVE  /\ node'[id].status = node[id].status
           /\ node'[id].states = node[id].states
<1>1. node' = node \/ \E f, k : node' = [node EXCEPT ![f].index = k]
  BY DEF LeaveMethod
<1>2. \/ node'[id] = node[id]
      \/ \E k : node'[id] = [node[id] EXCEPT !.index = k]
  BY <1>1 DEF TypeOK
<1>3. \A r \in NodeType : \A k :
         /\ [r EXCEPT !.index = k].status = r.status
         /\ [r EXCEPT !.index = k].states = r.states
  BY DEF NodeType
<1>4. node[id] \in NodeType
  BY DEF TypeOK
<1>5. CASE \E k : node'[id] = [node[id] EXCEPT !.index = k]
  BY <1>3, <1>4, <1>5
<1> QED BY <1>2, <1>5

\* A call that creates a node, or arms it for the capture pass.
LEMMA CreateKeeps ==
    ASSUME TypeOK, interpreting => session > 0, NEW n \in Names,
           InputTensors(n) \/ EnterMethod(n) \/ MethodRefused(n)
    PROVE  /\ node'[Id(n)].status # "absent"
           /\ node[Id(n)].status # "absent" =>
                 node'[Id(n)].index = node[Id(n)].index
           /\ node[Id(n)].status = "absent" => node'[Id(n)].index = Unset
<1>1. Id(n) \in NodeIds /\ session > 0 /\ node[Id(n)] \in NodeType
  BY IdType DEF InputTensors, EnterMethod, MethodRefused, TypeOK
<1>2. CASE ~Known(n)
  <2>1. \E k : node' = [node EXCEPT ![Id(n)] = NewNode(k)]
    BY <1>2 DEF InputTensors, EnterMethod, MethodRefused
  <2>2. \A k : NewNode(k).status # "absent" /\ NewNode(k).index = Unset
    BY DEF NewNode, Absent
  <2>3. node[Id(n)].status = "absent"
    BY <1>1, <1>2 DEF Known
  <2> QED BY <1>1, <2>1, <2>2, <2>3 DEF TypeOK
<1>3. CASE Known(n) /\ InputTensors(n)
  <2>1. node'[Id(n)] = [node[Id(n)] EXCEPT
            !.status = "tracing", !.capturing = TRUE,
            !.states = {}, !.updated = {}]
    BY <1>1, <1>3 DEF InputTensors, TypeOK
  <2> QED BY <1>1, <1>3, <2>1 DEF NodeType, Known
<1>4. CASE Known(n) /\ ~InputTensors(n)
  BY <1>4 DEF EnterMethod, MethodRefused, Known
<1> QED BY <1>2, <1>3, <1>4

LEMMA OneFrame ==
    ASSUME frames \in Seq(FrameType), frames # <<>>, Len(frames) <= 1
    PROVE  Len(frames) = 1
<1>1. Len(frames) \in Nat /\ Len(frames) # 0
  BY EmptySeq, LenProperties
<1>2. \A k \in Nat : k # 0 /\ k <= 1 => k = 1
  OBVIOUS
<1> QED BY <1>1, <1>2

\* The function that executes is a node of the running session, which cannot
\* end before the function does.
FrameInv ==
    frames # <<>> => /\ interpreting
                     /\ \E n \in Names : Known(n) /\ frames[1].id = Id(n)

\* The function that returns is the one that executes.
LEMMA LeaveMethodIndex ==
    ASSUME TypeOK, Len(frames) <= 1, FrameInv, NEW a, LeaveMethod(a)
    PROVE  \E n \in Names :
              /\ Known(n)
              /\ \A id \in NodeIds : id # Id(n) => node'[id] = node[id]
              /\ \/ /\ node'[Id(n)].index = IndexOf(Id(n))
                    /\ nextIndex' = NextIndexAfter(Id(n))
                 \/ UNCHANGED <<node, nextIndex>>
<1>1. Len(frames) = 1
  BY OneFrame DEF LeaveMethod, TypeOK
<1>2. PICK n \in Names : Known(n) /\ frames[1].id = Id(n)
  BY DEF FrameInv, LeaveMethod
<1>3. Id(n) \in NodeIds /\ node[Id(n)] \in NodeType
  BY <1>2, IdType DEF Known, TypeOK
<1>4. CASE UNCHANGED <<node, nextIndex>>
  BY <1>2, <1>4
<1>5. CASE /\ node' = [node EXCEPT ![Id(n)].index = IndexOf(Id(n))]
           /\ nextIndex' = NextIndexAfter(Id(n))
  <2>1. node'[Id(n)] = [node[Id(n)] EXCEPT !.index = IndexOf(Id(n))]
    BY <1>3, <1>5 DEF TypeOK
  <2>2. node'[Id(n)].index = IndexOf(Id(n))
    BY <1>3, <2>1 DEF NodeType
  <2>3. \A id \in NodeIds : id # Id(n) => node'[id] = node[id]
    BY <1>5 DEF TypeOK
  <2> QED BY <1>2, <1>5, <2>2, <2>3
<1> QED BY <1>1, <1>2, <1>4, <1>5 DEF LeaveMethod

-----------------------------------------------------------------------------
(* Buffers *)

\* A tracker with buffers to give back belongs to a node that is tracing,
\* has them among its states and has not been collected.
TrackerInv ==
    \A id \in NodeIds : tracker[id].injected # {} =>
        /\ node[id].status = "tracing"
        /\ ~tracker[id].collected
        /\ tracker[id].injected \subseteq node[id].states

\* Whoever starts from a stopped session finds no buffer lent, so a borrowed
\* buffer never changes session.
BufferInv == Typed /\ TrackerInv /\ BorrowedByTracker

LEMMA InitBuffer == Init => BufferInv
<1> SUFFICES ASSUME Init PROVE BufferInv
  OBVIOUS
<1>1. TrackerInv
  BY DEF Init, TrackerInv, NoTracker
<1>2. BorrowedByTracker
  BY DEF Init, BorrowedByTracker, Lent, Raw
<1> QED BY <1>1, <1>2, InitTyped DEF BufferInv

LEMMA StepTracker ==
    ASSUME Usage = {}, Typed, TrackerInv, [Next]_vars
    PROVE  TrackerInv'
<1> USE DEF TrackerInv
<1>0. TypeOK /\ (interpreting => session > 0)
  BY DEF Typed, Started
<1>1. \A id \in NodeIds : node[id] \in NodeType /\ tracker[id] \in TrackerType
  BY <1>0 DEF TypeOK
\* The steps that keep every tracker, and what is known of tracing nodes.
<1>2. ASSUME UNCHANGED tracker,
             \A id \in NodeIds : node[id].status = "tracing" =>
                 /\ node'[id].status = "tracing"
                 /\ node[id].states \subseteq node'[id].states
      PROVE  TrackerInv'
  BY <1>2
<1>3. ASSUME ResetNodes PROVE TrackerInv'
  BY <1>3 DEF ResetNodes, NoTracker
<1>4. ASSUME NEW raises \in BOOLEAN, Stop(raises) PROVE TrackerInv'
  <2>1. \A id \in NodeIds : \/ tracker'[id] = tracker[id]
                            \/ tracker'[id].injected = {}
    BY <1>0, <1>4 DEF Stop, Cleared, TypeOK, TrackerType
  <2> QED BY <1>4, <2>1 DEF Stop
<1>5. ASSUME NEW n \in Names, InputTensors(n) PROVE TrackerInv'
  <2>1. Id(n) \in NodeIds
    BY <1>0, <1>5, IdType DEF InputTensors
  <2>2. node[Id(n)].status # "tracing"
    BY <1>5, <1>0 DEF InputTensors, Known
  <2>3. \A id \in NodeIds : id # Id(n) => node'[id] = node[id]
    BY <1>0, <1>5 DEF InputTensors, TypeOK
  <2> QED BY <1>5, <2>1, <2>2, <2>3, <1>2 DEF InputTensors
<1>6. ASSUME NEW n \in Names, WarpSegment(n) PROVE TrackerInv'
  <2>1. \A id \in NodeIds : /\ node'[id].status = node[id].status
                            /\ node'[id].states = node[id].states
    BY <1>0, <1>6, WarpSegmentKeeps
  <2> QED BY <1>6, <2>1, <1>2 DEF WarpSegment
<1>7. ASSUME NEW n \in Names, NEW bs \in SUBSET Buffers, Module(n, bs)
      PROVE  TrackerInv'
  <2>1. Id(n) \in NodeIds
    BY <1>0, <1>7, IdType DEF Module
  <2>2. CASE Tracing(n)
    <3>1. /\ node'[Id(n)].status = "tracing"
          /\ node'[Id(n)].states = node[Id(n)].states \cup bs
          /\ tracker'[Id(n)] = [injected |-> bs, collected |-> FALSE]
      BY <1>0, <1>1, <1>7, <2>1, <2>2 DEF Module, Tracing, TypeOK, NodeType
    <3>2. \A id \in NodeIds : id # Id(n) =>
              node'[id] = node[id] /\ tracker'[id] = tracker[id]
      BY <1>0, <1>7, <2>2 DEF Module, TypeOK
    <3> QED BY <3>1, <3>2
  <2>3. CASE ~Tracing(n)
    <3>1. /\ node' = node
          /\ tracker' = [tracker EXCEPT ![Id(n)] =
                            [injected |-> {}, collected |-> FALSE]]
      BY <1>7, <2>3 DEF Module
    <3> QED BY <1>0, <2>1, <3>1 DEF TypeOK
  <2> QED BY <2>2, <2>3
<1>8. ASSUME NEW n \in Names, NEW bs, ModuleFails(n, bs) PROVE FALSE
  BY <1>8 DEF ModuleFails
<1>9. ASSUME NEW n \in Names, OutputTensors(n) \/ OutputTensorsFails(n)
      PROVE  TrackerInv'
  <2>1. Id(n) \in NodeIds
    BY <1>0, <1>9, IdType DEF OutputTensors, OutputTensorsFails
  <2>2. CollectAndRestore(Id(n))
    BY <1>9 DEF OutputTensors, OutputTensorsFails
  <2>3. tracker'[Id(n)].injected = {}
    BY <1>0, <2>1, <2>2 DEF CollectAndRestore, NoTracker, TypeOK
  <2>4. \A id \in NodeIds : id # Id(n) =>
            node'[id] = node[id] /\ tracker'[id] = tracker[id]
    BY <1>0, <1>9, <2>2
    DEF OutputTensors, OutputTensorsFails, CollectAndRestore, TypeOK
  <2> QED BY <2>3, <2>4
<1>13. ASSUME NEW n \in Names, CollectFails(n) PROVE TrackerInv'
  <2>1. Id(n) \in NodeIds
    BY <1>0, <1>13, IdType DEF CollectFails
  <2>2. \A id \in NodeIds : /\ node'[id].status = node[id].status
                            /\ node'[id].states = node[id].states
    BY <1>0, <1>13, <2>1, CollectFailsKeeps
  <2> QED BY <1>13, <2>2, <1>2 DEF CollectFails
<1>14. ~StopFails /\ ~\E n \in Names : RestoreFails(n)
  BY DEF StopFails, RestoreFails
<1>10. ASSUME NEW n \in Names, EnterMethod(n) \/ MethodRefused(n)
       PROVE  TrackerInv'
  <2>1. Id(n) \in NodeIds
    BY <1>0, <1>10, IdType DEF EnterMethod, MethodRefused
  <2>2. Known(n) => node' = node
    BY <1>10 DEF EnterMethod, MethodRefused
  <2>3. ~Known(n) => /\ node[Id(n)].status = "absent"
                     /\ \A id \in NodeIds : id # Id(n) => node'[id] = node[id]
    BY <1>0, <1>10 DEF EnterMethod, MethodRefused, Known, TypeOK
  <2>4. UNCHANGED tracker
    BY <1>10 DEF EnterMethod, MethodRefused
  <2> QED BY <2>2, <2>3, <2>4, <1>2
<1>11. ASSUME NEW a, LeaveMethod(a) PROVE TrackerInv'
  <2>1. \A id \in NodeIds : /\ node'[id].status = node[id].status
                            /\ node'[id].states = node[id].states
    BY <1>0, <1>11, LeaveMethodKeeps
  <2> QED BY <1>11, <2>1, <1>2 DEF LeaveMethod
<1>12. CASE UNCHANGED <<tracker, node>>
  BY <1>12, <1>2
<1> QED
  BY <1>3, <1>4, <1>5, <1>6, <1>7, <1>8, <1>9, <1>10, <1>11, <1>12, <1>13,
     <1>14
  DEF Next, vars, Start, StartFails, Forward, CompileGraph

LEMMA StepBorrowed ==
    ASSUME Usage = {}, BufferInv, [Next]_vars
    PROVE  BorrowedByTracker'
<1> DEFINE Borrowed(b) ==
        \E n \in Names : /\ buffer[b].lender = Id(n)
                         /\ Tracing(n)
                         /\ b \in tracker[Id(n)].injected
                         /\ ~tracker[Id(n)].collected
<1>0. /\ TypeOK /\ TrackerInv /\ (interpreting => session > 0)
      /\ \A b \in Buffers : Lent(b) => interpreting /\ Borrowed(b)
  BY DEF BufferInv, BorrowedByTracker, Typed, Started
<1> SUFFICES ASSUME NEW b \in Buffers, Lent(b)'
             PROVE  interpreting' /\ Borrowed(b)'
  BY DEF BorrowedByTracker
<1>a. buffer'[b] # Raw /\ buffer'[b].lender # Nobody
  BY DEF Lent, Raw
\* Steps that touch neither the buffer nor its tracker.
<1>1. ASSUME buffer'[b].lender = buffer[b].lender,
             UNCHANGED <<interpreting, session>>,
             \A n \in Names : buffer[b].lender = Id(n) /\ Tracing(n) =>
                 /\ tracker'[Id(n)] = tracker[Id(n)]
                 /\ node'[Id(n)].status = "tracing"
      PROVE  interpreting' /\ Borrowed(b)'
  <2>1. interpreting /\ Borrowed(b)
    BY <1>0, <1>1, <1>a DEF Lent
  <2>2. PICK n \in Names : /\ buffer[b].lender = Id(n)
                           /\ Tracing(n)
                           /\ b \in tracker[Id(n)].injected
                           /\ ~tracker[Id(n)].collected
    BY <2>1
  <2>3. Id(n)' = Id(n) /\ session' > 0
    BY <1>0, <1>1, <2>1 DEF Id
  <2>4. /\ buffer'[b].lender = Id(n)'
        /\ b \in tracker'[Id(n)'].injected
        /\ ~tracker'[Id(n)'].collected
        /\ node'[Id(n)'].status = "tracing"
    BY <1>1, <2>2, <2>3
  <2> QED BY <1>1, <2>1, <2>3, <2>4 DEF Tracing, Known
<1>2. ASSUME Start(TRUE) \/ Start(FALSE) \/ StartFails PROVE FALSE
  <2>1. ~interpreting /\ UNCHANGED buffer
    BY <1>2 DEF Start, StartFails
  <2> QED BY <1>0, <2>1 DEF Lent
<1>3. ASSUME NEW raises \in BOOLEAN, Stop(raises) PROVE FALSE
  <2>1. buffer'[b] = buffer[b]
    BY <1>0, <1>3, <1>a DEF Stop, Restored, TypeOK
  <2>2. PICK n \in Names : Known(n) /\ b \in tracker[Id(n)].injected
    BY <1>0, <1>a, <2>1 DEF Tracing, Lent
  <2>3. buffer'[b] = Raw
    BY <1>3, <2>2 DEF Stop, Restored, Registered
  <2> QED BY <1>a, <2>3
<1>4. ASSUME NEW m \in Names, InputTensors(m)
      PROVE  interpreting' /\ Borrowed(b)'
  <2>1. \A n \in Names : Tracing(n) => node'[Id(n)] = node[Id(n)]
    BY <1>0, <1>4, IdType DEF InputTensors, Tracing, Known, TypeOK
  <2> QED BY <1>4, <2>1, <1>1 DEF InputTensors, Tracing
<1>5. ASSUME NEW m \in Names, WarpSegment(m)
      PROVE  interpreting' /\ Borrowed(b)'
  <2>1. \A n \in Names : Tracing(n) => node'[Id(n)].status = "tracing"
    BY <1>0, <1>5, IdType, WarpSegmentKeeps DEF Tracing, Known
  <2> QED BY <1>5, <2>1, <1>1 DEF WarpSegment
<1>6. ASSUME NEW m \in Names, NEW bs \in SUBSET Buffers, Module(m, bs)
      PROVE  interpreting' /\ Borrowed(b)'
  <2>1. /\ Id(m) \in NodeIds /\ session > 0 /\ session' = session
        /\ interpreting /\ interpreting'
    BY <1>0, <1>6, IdType DEF Module, Known
  <2>2. CASE Tracing(m) /\ b \in bs
    <3>1. /\ buffer'[b].lender = Id(m)
          /\ tracker'[Id(m)] = [injected |-> bs, collected |-> FALSE]
          /\ node'[Id(m)].status = "tracing"
      <4>1. node[Id(m)] \in NodeType
        BY <1>0, <2>1 DEF TypeOK
      <4> QED BY <1>0, <1>6, <2>1, <2>2, <4>1
              DEF Module, Carrier, TypeOK, Tracing, NodeType
    <3>2. Id(m)' = Id(m)
      BY <2>1 DEF Id
    <3> QED BY <2>1, <2>2, <3>1, <3>2 DEF Tracing, Known
  <2>3. CASE Tracing(m) /\ b \notin bs
    <3>1. tracker[Id(m)].injected = {} /\ buffer'[b] = buffer[b]
      BY <1>6, <2>3 DEF Module
    <3>2. \A n \in Names : buffer[b].lender = Id(n) => Id(n) # Id(m)
      <4>1. Lent(b)
        BY <1>a, <3>1 DEF Lent
      <4> QED BY <1>0, <3>1, <4>1
    <3>3. \A n \in Names : buffer[b].lender = Id(n) =>
              tracker'[Id(n)] = tracker[Id(n)] /\ node'[Id(n)] = node[Id(n)]
      BY <1>0, <1>6, <2>1, <2>3, <3>2, IdType DEF Module, TypeOK
    <3> QED BY <1>1, <1>6, <2>1, <3>1, <3>3 DEF Tracing
  <2>4. CASE ~Tracing(m)
    <3>1. /\ UNCHANGED <<node, buffer>>
          /\ tracker' = [tracker EXCEPT ![Id(m)] =
                            [injected |-> {}, collected |-> FALSE]]
      BY <1>6, <2>4 DEF Module
    <3>2. \A n \in Names : Tracing(n) => Id(n) # Id(m)
      BY <2>4 DEF Tracing, Known, Id
    <3>3. \A n \in Names : Tracing(n) => tracker'[Id(n)] = tracker[Id(n)]
      BY <1>0, <2>1, <3>1, <3>2, IdType DEF TypeOK
    <3> QED BY <1>1, <2>1, <1>6, <3>1, <3>3 DEF Tracing, Module
  <2> QED BY <2>2, <2>3, <2>4
<1>7. ASSUME NEW m \in Names, NEW bs, ModuleFails(m, bs) PROVE FALSE
  BY <1>7 DEF ModuleFails
<1>8. ASSUME NEW m \in Names, OutputTensors(m) \/ OutputTensorsFails(m)
      PROVE  interpreting' /\ Borrowed(b)'
  <2>1. /\ Id(m) \in NodeIds /\ CollectAndRestore(Id(m))
        /\ UNCHANGED <<interpreting, session>>
    BY <1>0, <1>8, IdType DEF OutputTensors, OutputTensorsFails
  <2>2. buffer'[b] = buffer[b]
    BY <1>0, <1>a, <2>1 DEF CollectAndRestore, Restored, TypeOK
  <2>3. b \notin tracker[Id(m)].injected \/ tracker[Id(m)].collected
    BY <1>0, <1>a, <2>1 DEF CollectAndRestore, Restored, TypeOK
  <2>4. \A n \in Names : buffer[b].lender = Id(n) => Id(n) # Id(m)
    BY <1>0, <1>a, <2>2, <2>3 DEF Lent
  <2>5. \A n \in Names : buffer[b].lender = Id(n) /\ Tracing(n) =>
            /\ tracker'[Id(n)] = tracker[Id(n)]
            /\ node'[Id(n)] = node[Id(n)]
    BY <1>0, <1>8, <2>1, <2>4, IdType
    DEF OutputTensors, OutputTensorsFails, CollectAndRestore, Tracing, Known,
        TypeOK
  <2> QED BY <1>1, <2>1, <2>2, <2>5 DEF Tracing
<1>9. ASSUME NEW m \in Names, EnterMethod(m) \/ MethodRefused(m)
      PROVE  interpreting' /\ Borrowed(b)'
  <2>1. \A n \in Names : Tracing(n) => node'[Id(n)] = node[Id(n)]
    BY <1>0, <1>9, IdType DEF EnterMethod, MethodRefused, Tracing, Known, TypeOK
  <2> QED BY <1>9, <2>1, <1>1 DEF EnterMethod, MethodRefused, Tracing
<1>10. ASSUME NEW c \in Buffers, NEW o, Forward(c, o)
       PROVE  interpreting' /\ Borrowed(b)'
  <2>1. buffer'[b].lender = buffer[b].lender
    <3>1. buffer[c] \in BufferType
      BY <1>0 DEF TypeOK
    <3>2. buffer'[b] = IF b = c THEN [buffer[c] EXCEPT !.owner = o,
                                                       !.fresh = FALSE]
                                ELSE buffer[b]
      BY <1>0, <1>10 DEF Forward, TypeOK
    <3> QED BY <3>1, <3>2 DEF BufferType
  <2> QED BY <1>1, <1>10, <2>1 DEF Forward, Tracing
<1>13. ASSUME NEW m \in Names, CollectFails(m)
       PROVE  interpreting' /\ Borrowed(b)'
  <2>1. Id(m) \in NodeIds
    BY <1>0, <1>13, IdType DEF CollectFails
  <2>2. \A id \in NodeIds : node'[id].status = node[id].status
    BY <1>0, <1>13, <2>1, CollectFailsKeeps
  <2> QED BY <1>0, <1>13, <2>2, <1>1, IdType DEF CollectFails, Tracing, Known
<1>14. ~StopFails /\ ~\E m \in Names : RestoreFails(m)
  BY DEF StopFails, RestoreFails
<1>11. ASSUME NEW a, LeaveMethod(a) PROVE interpreting' /\ Borrowed(b)'
  <2>1. \A id \in NodeIds : node'[id].status = node[id].status
    BY <1>0, <1>11, LeaveMethodKeeps
  <2> QED BY <1>0, <1>11, <2>1, <1>1, IdType DEF LeaveMethod, Tracing, Known
<1>12. CASE UNCHANGED <<interpreting, session, node, tracker, buffer>>
  BY <1>12, <1>1 DEF Tracing
<1> QED
  BY <1>2, <1>3, <1>4, <1>5, <1>6, <1>7, <1>8, <1>9, <1>10, <1>11, <1>12,
     <1>13, <1>14
  DEF Next, vars, CompileGraph

LEMMA StepBuffer == ASSUME Usage = {}, BufferInv, [Next]_vars PROVE BufferInv'
BY StepTyped, StepTracker, StepBorrowed DEF BufferInv

\* A borrowed buffer was lent by one tracing node of the running session, and
\* that node's tracker will give it back (documented usage), whatever the
\* program assigns to the attribute and however often collect() raises.
THEOREM BorrowedAlways == ASSUME Usage = {} PROVE Spec => []BorrowedByTracker
<1>1. BufferInv /\ [Next]_vars => BufferInv'
  BY StepBuffer
<1>2. BufferInv => BorrowedByTracker
  BY DEF BufferInv
<1> QED BY <1>1, <1>2, InitBuffer, PTL DEF Spec

\* Outside a session no buffer is lent any more, even when uninstalling the
\* patches made stop() raise (documented usage).
THEOREM RestoredAlways == ASSUME Usage = {} PROVE Spec => []BuffersRestored
<1>1. BufferInv /\ [Next]_vars => BufferInv'
  BY StepBuffer
<1>2. BufferInv => BuffersRestored
  BY DEF BufferInv, BorrowedByTracker, BuffersRestored
<1> QED BY <1>1, <1>2, InitBuffer, PTL DEF Spec

\* When a node is captured, every buffer its forward pass reassigned is one
\* of its states, and has been given back (documented usage).
THEOREM ReassignedAlways ==
    ASSUME Usage = {} PROVE Spec => ReassignedExported
<1>1. BufferInv /\ [Next]_vars => BufferInv'
  BY StepBuffer
<1>2. ASSUME BufferInv, [Next]_vars,
             NEW n \in Names, Tracing(n), node'[Id(n)].status = "captured",
             NEW b \in Buffers, buffer[b].lender = Id(n), ~buffer[b].fresh
      PROVE  b \in node'[Id(n)].states /\ buffer'[b] = Raw
  <2>0. /\ TypeOK /\ TrackerInv /\ BorrowedByTracker
        /\ session > 0 /\ node[Id(n)].status = "tracing"
    BY <1>2 DEF BufferInv, Typed, Tracing, Known
  <2>1. Id(n) \in NodeIds /\ node[Id(n)] \in NodeType
    BY <2>0, IdType DEF TypeOK
  <2>2. OutputTensors(n)
    <3>1. node'[Id(n)] # node[Id(n)]
      BY <1>2, <2>0
    <3>2. \A m \in Names : Id(m) = Id(n) => m = n
      BY DEF Id
    <3>3. ~InputTensors(n)
      BY <2>0 DEF InputTensors, Known
    <3>4. \A m \in Names : InputTensors(m) \/ EnterMethod(m) \/ MethodRefused(m)
                             \/ OutputTensors(m) => m = n
      BY <2>0, <2>1, <3>1, <3>2, IdType
      DEF InputTensors, EnterMethod, MethodRefused, OutputTensors, TypeOK
    <3>5. ~EnterMethod(n) /\ ~MethodRefused(n)
      BY <2>0, <3>1 DEF EnterMethod, MethodRefused, Known
    <3>6. ~\E m \in Names : \/ WarpSegment(m) \/ OutputTensorsFails(m)
                             \/ CollectFails(m) \/ RestoreFails(m)
      <4>1. ASSUME NEW m \in Names, WarpSegment(m)
            PROVE  node'[Id(n)].status = "tracing"
        BY <2>0, <2>1, <4>1, WarpSegmentKeeps
      <4>2. ASSUME NEW m \in Names, OutputTensorsFails(m)
            PROVE  node'[Id(n)].status = "tracing"
        <5>1. Id(m) \in NodeIds /\ Collected(Id(m)).status = node[Id(m)].status
          BY <2>0, IdType, CollectedType
        <5>2. Collected(Id(m)) \in NodeType
          BY <2>0, <5>1, CollectedType
        <5> QED BY <2>0, <2>1, <4>2, <5>1, <5>2
                DEF OutputTensorsFails, TypeOK, NodeType
      <4>3. ASSUME NEW m \in Names, CollectFails(m) \/ RestoreFails(m)
            PROVE  node'[Id(n)].status = "tracing"
        BY <2>0, <2>1, <4>3, IdType, CollectKeeps
      <4> QED BY <1>2, <4>1, <4>2, <4>3
    <3>7. ~\E m \in Names, bs \in SUBSET Buffers \ {{}} :
              Module(m, bs) \/ ModuleFails(m, bs)
      BY <1>2, <2>0, <2>1, ModuleKeeps
    <3>8. ~\E a \in BOOLEAN : LeaveMethod(a)
      BY <1>2, <2>0, <2>1, LeaveMethodKeeps
    <3>9. ~\E g \in BOOLEAN : Start(g) \/ StartFails
      <4>1. Lent(b)
        BY <1>2, <2>0 DEF Lent, Nobody, Id
      <4> QED BY <2>0, <4>1 DEF Start, StartFails, BorrowedByTracker
    <3> QED BY <1>2, <3>1, <3>3, <3>4, <3>5, <3>6, <3>7, <3>8, <3>9
            DEF Next, vars, Stop, StopFails, Forward, CompileGraph
  <2>3. /\ b \in tracker[Id(n)].injected
        /\ ~tracker[Id(n)].collected
        /\ b \in node[Id(n)].states
    <3>1. Lent(b)
      BY <1>2, <2>0 DEF Lent, Nobody, Id
    <3>2. PICK m \in Names : /\ buffer[b].lender = Id(m)
                             /\ b \in tracker[Id(m)].injected
                             /\ ~tracker[Id(m)].collected
      BY <2>0, <3>1 DEF BorrowedByTracker
    <3> QED BY <1>2, <2>0, <2>1, <3>2 DEF TrackerInv
  <2>4. b \in Mutated(Id(n))
    BY <1>2, <2>3 DEF Mutated, Carrier
  <2>5. /\ b \in Collected(Id(n)).states
        /\ b \in Collected(Id(n)).updated
    BY <2>0, <2>1, <2>3, <2>4, CollectedType
  <2>6. Collected(Id(n)) \in NodeType
    BY <2>0, <2>1, CollectedType
  <2>7. node'[Id(n)].states = Collected(Id(n)).states
                                 \cap Collected(Id(n)).updated
    BY <2>0, <2>1, <2>2, <2>6 DEF OutputTensors, TypeOK, NodeType
  <2>8. buffer'[b] = Raw
    BY <2>0, <2>2, <2>3 DEF OutputTensors, CollectAndRestore, Restored, TypeOK
  <2> QED BY <2>5, <2>7, <2>8
<1>3. BufferInv /\ [Next]_vars => [\A n \in Names :
        Tracing(n) /\ node'[Id(n)].status = "captured" =>
            \A b \in Buffers :
                buffer[b].lender = Id(n) /\ ~buffer[b].fresh =>
                    /\ b \in node'[Id(n)].states
                    /\ buffer'[b] = Raw]_vars
  BY <1>2
<1> QED BY <1>1, <1>3, InitBuffer, PTL DEF Spec, ReassignedExported
-----------------------------------------------------------------------------
(* The tracing lock *)

LEMMA InitMutex == Init => TracingMutex
BY DEF Init, TracingMutex

LEMMA StepMutex ==
    ASSUME Usage = {}, Typed, TracingMutex, [Next]_vars
    PROVE  TracingMutex'
<1>0. /\ frames \in Seq(FrameType) /\ lock \in BOOLEAN
      /\ Len(frames) <= 1
      /\ lock <=> frames # <<>>
  BY DEF Typed, TypeOK, TracingMutex
<1>1. CASE UNCHANGED <<frames, lock>>
  BY <1>0, <1>1 DEF TracingMutex
<1>2. CASE \E g \in BOOLEAN : Start(g) \/ StartFails
  BY <1>1, <1>2 DEF Start, StartFails
<1>3. ASSUME NEW n \in Names, EnterMethod(n) PROVE TracingMutex'
  <2>1. frames = <<>>
    BY <1>0, <1>3 DEF EnterMethod, Unlocked
  <2>2. frames' = <<[id |-> Id(n), new |-> ~Known(n)]>> /\ lock'
    BY <1>3, <2>1 DEF EnterMethod
  <2> QED BY <2>2 DEF TracingMutex
<1>4. ASSUME NEW a, LeaveMethod(a) PROVE TracingMutex'
  <2>1. Len(frames) = 1
    BY <1>0, <1>4, OneFrame DEF LeaveMethod
  <2>2. frames' = <<>> /\ ~lock'
    BY <1>4, <2>1, SubSeqEmpty DEF LeaveMethod
  <2> QED BY <2>2 DEF TracingMutex
<1> QED
  BY <1>1, <1>2, <1>3, <1>4
  DEF Next, vars, Stop, StopFails, InputTensors, WarpSegment, Module,
      ModuleFails, OutputTensors, OutputTensorsFails, CollectFails,
      RestoreFails, MethodRefused, Forward, CompileGraph

\* The lock is held exactly while one traced function executes, and no second
\* one starts under it (documented usage).
THEOREM MutexAlways == ASSUME Usage = {} PROVE Spec => []TracingMutex
<1>1. Typed /\ TracingMutex /\ [Next]_vars => (Typed /\ TracingMutex)'
  BY StepTyped, StepMutex
<1> QED BY <1>1, InitTyped, InitMutex, PTL DEF Spec

-----------------------------------------------------------------------------
(* Completion indices *)

\* A node nobody created, and a node of a session to come, has no number.
FreshInv ==
    \A id \in NodeIds : /\ id[1] > session => node[id].status = "absent"
                        /\ node[id].status = "absent" => node[id].index = Unset

OrderInv == Typed /\ TracingMutex /\ FrameInv /\ FreshInv /\ CompletionOrder

LEMMA InitOrder == Init => OrderInv
<1> SUFFICES ASSUME Init PROVE OrderInv
  OBVIOUS
<1>1. FrameInv /\ FreshInv
  BY DEF Init, FrameInv, FreshInv, Absent
<1>2. CompletionOrder
  BY DEF Init, CompletionOrder, Known
<1> QED BY <1>1, <1>2, InitTyped, InitMutex DEF OrderInv

LEMMA StepFrame ==
    ASSUME Usage = {}, Typed, TracingMutex, FrameInv, [Next]_vars
    PROVE  FrameInv'
<1>0. /\ TypeOK /\ (interpreting => session > 0) /\ Len(frames) <= 1
      /\ lock <=> frames # <<>>
  BY DEF Typed, Started, TracingMutex
<1>1. ASSUME UNCHANGED <<frames, interpreting, session>>,
             \A n \in Names : Known(n) => node'[Id(n)].status # "absent"
      PROVE  FrameInv'
  BY <1>1 DEF FrameInv, Known, Id
<1>2. CASE \E g \in BOOLEAN : Start(g) \/ StartFails
  BY <1>2 DEF Start, StartFails, FrameInv
<1>3. CASE StopFails \/ \E raises \in BOOLEAN : Stop(raises)
  BY <1>0, <1>3 DEF Stop, StopFails, Unlocked, FrameInv
<1>4. ASSUME NEW n \in Names,
             InputTensors(n) \/ EnterMethod(n) \/ MethodRefused(n)
      PROVE  FrameInv'
  <2>1. /\ Id(n) \in NodeIds /\ session > 0
        /\ UNCHANGED <<interpreting, session>> /\ interpreting
    BY <1>0, <1>4, IdType DEF InputTensors, EnterMethod, MethodRefused
  <2>2. node'[Id(n)].status # "absent"
    BY <1>0, <1>4, CreateKeeps
  <2>3. \A m \in Names : Known(m) => node'[Id(m)].status # "absent"
    <3>1. \A m \in Names : m # n => node'[Id(m)] = node[Id(m)]
      BY <1>0, <1>4, <2>1, IdType
      DEF InputTensors, EnterMethod, MethodRefused, TypeOK, Id
    <3> QED BY <2>2, <3>1 DEF Known
  <2>4. CASE UNCHANGED frames
    BY <1>1, <2>1, <2>3, <2>4
  <2>5. CASE EnterMethod(n)
    <3>1. frames = <<>>
      BY <1>0, <2>5 DEF EnterMethod, Unlocked
    <3>2. frames' = <<[id |-> Id(n), new |-> ~Known(n)]>>
      BY <2>5, <3>1 DEF EnterMethod
    <3>3. frames'[1].id = Id(n)' /\ Known(n)'
      BY <2>1, <2>2, <3>2 DEF Id, Known
    <3> QED BY <2>1, <3>3 DEF FrameInv
  <2> QED BY <1>4, <2>4, <2>5 DEF InputTensors, MethodRefused
<1>5. ASSUME NEW n \in Names,
             \/ WarpSegment(n)
             \/ \E bs \in SUBSET Buffers : Module(n, bs) \/ ModuleFails(n, bs)
      PROVE  FrameInv'
  <2>1. UNCHANGED <<frames, interpreting, session>>
    BY <1>5 DEF WarpSegment, Module, ModuleFails
  <2>2. \A id \in NodeIds : node'[id].status = node[id].status
    BY <1>0, <1>5, WarpSegmentKeeps, ModuleKeeps
  <2> QED BY <1>0, <1>1, <2>1, <2>2, IdType DEF Known
<1>8. ASSUME NEW n \in Names, OutputTensors(n) \/ OutputTensorsFails(n)
      PROVE  FrameInv'
  <2>1. /\ Id(n) \in NodeIds /\ node[Id(n)].status = "tracing"
        /\ UNCHANGED <<frames, interpreting, session>>
    BY <1>0, <1>8, IdType DEF OutputTensors, OutputTensorsFails, Tracing
  <2>2. \A m \in Names : Known(m) => node'[Id(m)].status # "absent"
    BY <1>0, <1>8, <2>1, OutputKeeps, IdType DEF Known
  <2> QED BY <1>1, <2>1, <2>2
<1>9. ASSUME NEW n \in Names, CollectFails(n) \/ RestoreFails(n)
      PROVE  FrameInv'
  <2>1. Id(n) \in NodeIds /\ UNCHANGED <<frames, interpreting, session>>
    BY <1>0, <1>9, IdType DEF CollectFails, RestoreFails
  <2>2. \A id \in NodeIds : node'[id].status = node[id].status
    BY <1>0, <1>9, <2>1, CollectKeeps
  <2> QED BY <1>0, <1>1, <2>1, <2>2, IdType DEF Known
<1>6. ASSUME NEW a, LeaveMethod(a) PROVE FrameInv'
  <2>1. Len(frames) = 1
    BY <1>0, <1>6, OneFrame DEF LeaveMethod, TypeOK
  <2>2. frames' = <<>>
    BY <1>6, <2>1, SubSeqEmpty DEF LeaveMethod
  <2> QED BY <2>2 DEF FrameInv
<1>7. CASE UNCHANGED <<frames, interpreting, session, node>>
  BY <1>1, <1>7 DEF Known
<1> QED
  BY <1>2, <1>3, <1>4, <1>5, <1>6, <1>7, <1>8, <1>9
  DEF Next, vars, Forward, CompileGraph

LEMMA StepFresh ==
    ASSUME Usage = {}, Typed, TracingMutex, FrameInv, FreshInv, [Next]_vars
    PROVE  FreshInv'
<1>0. /\ TypeOK /\ (interpreting => session > 0) /\ session \in Nat
      /\ Len(frames) <= 1
  BY DEF Typed, Started, TracingMutex, TypeOK
<1>1. ASSUME session' = session,
             \A id \in NodeIds :
                \/ /\ node'[id].status = node[id].status
                   /\ node'[id].index = node[id].index
                \/ /\ node'[id].status # "absent"
                   /\ ~(id[1] > session)
      PROVE  FreshInv'
  BY <1>1 DEF FreshInv
<1>2. ASSUME ResetNodes PROVE FreshInv'
  <2>1. \A id \in NodeIds : id[1] \in Nat
    BY BoundAssumption DEF NodeIds, Sessions
  <2>2. \A id \in NodeIds : node'[id] = node[id] \/ node'[id] = Absent
    BY <1>2 DEF ResetNodes
  <2>3. Absent.status = "absent" /\ Absent.index = Unset
    BY DEF Absent
  <2>4. \A id \in NodeIds : id[1] > session' => id[1] > session
    BY <1>0, <1>2, <2>1 DEF ResetNodes
  <2> QED BY <2>2, <2>3, <2>4 DEF FreshInv
<1>3. ASSUME NEW n \in Names,
             InputTensors(n) \/ EnterMethod(n) \/ MethodRefused(n)
      PROVE  FreshInv'
  <2>1. /\ Id(n) \in NodeIds /\ ~(Id(n)[1] > session) /\ session' = session
    BY <1>0, <1>3, IdType DEF InputTensors, EnterMethod, MethodRefused, Id
  <2>2. \A id \in NodeIds : id # Id(n) => node'[id] = node[id]
    BY <1>0, <1>3 DEF InputTensors, EnterMethod, MethodRefused, TypeOK
  <2>3. node'[Id(n)].status # "absent"
    BY <1>0, <1>3, CreateKeeps
  <2> QED BY <1>1, <2>1, <2>2, <2>3
<1>4. ASSUME NEW n \in Names,
             \/ WarpSegment(n)
             \/ \E bs \in SUBSET Buffers : Module(n, bs) \/ ModuleFails(n, bs)
      PROVE  FreshInv'
  <2>1. session' = session
    BY <1>4 DEF WarpSegment, Module, ModuleFails
  <2>2. \A id \in NodeIds : /\ node'[id].status = node[id].status
                            /\ node'[id].index = node[id].index
    BY <1>0, <1>4, WarpSegmentKeeps, ModuleKeeps
  <2> QED BY <1>1, <2>1, <2>2
<1>5. ASSUME NEW n \in Names, OutputTensors(n) \/ OutputTensorsFails(n)
      PROVE  FreshInv'
  <2>1. /\ Id(n) \in NodeIds /\ ~(Id(n)[1] > session) /\ session' = session
    BY <1>0, <1>5, IdType DEF OutputTensors, OutputTensorsFails, Id
  <2> QED BY <1>0, <1>1, <1>5, <2>1, OutputKeeps
<1>6. ASSUME NEW a, LeaveMethod(a) PROVE FreshInv'
  <2>1. PICK n \in Names : /\ Id(n) \in NodeIds
                           /\ ~(Id(n)[1] > session)
                           /\ node[Id(n)].status # "absent"
                           /\ \A id \in NodeIds : id # Id(n) => node'[id] = node[id]
    <3>1. PICK n \in Names :
             /\ Known(n)
             /\ \A id \in NodeIds : id # Id(n) => node'[id] = node[id]
      BY <1>0, <1>6, LeaveMethodIndex
    <3>2. Id(n) \in NodeIds /\ ~(Id(n)[1] > session)
      BY <1>0, <3>1, IdType DEF Known, Id
    <3> QED BY <3>1, <3>2 DEF Known
  <2> QED BY <1>0, <1>1, <1>6, <2>1, LeaveMethodKeeps DEF LeaveMethod
<1>7. CASE UNCHANGED <<session, node>>
  BY <1>1, <1>7
<1>8. ASSUME NEW n \in Names, CollectFails(n) \/ RestoreFails(n)
      PROVE  FreshInv'
  <2>1. Id(n) \in NodeIds /\ session' = session
    BY <1>0, <1>8, IdType DEF CollectFails, RestoreFails
  <2> QED BY <1>0, <1>1, <1>8, <2>1, CollectKeeps
<1> QED
  BY <1>2, <1>3, <1>4, <1>5, <1>6, <1>7, <1>8
  DEF Next, vars, Start, StartFails, Stop, StopFails, Forward, CompileGraph

\* The nodes of the running session that have their number.
Numbered(n) == Known(n) /\ node[Id(n)].index # Unset

LEMMA OrderKept ==
    ASSUME CompletionOrder, nextIndex' = nextIndex,
           \A n \in Names : /\ Numbered(n)' <=> Numbered(n)
                            /\ Numbered(n) => node'[Id(n)'].index
                                                  = node[Id(n)].index
    PROVE  CompletionOrder'
BY DEF CompletionOrder, Numbered

LEMMA OrderGrows ==
    ASSUME CompletionOrder, nextIndex \in Nat, nextIndex' = nextIndex + 1,
           NEW k \in Names, ~Numbered(k), Numbered(k)',
           node'[Id(k)'].index = nextIndex,
           \A n \in Names \ {k} :
              /\ Numbered(n)' <=> Numbered(n)
              /\ Numbered(n) => node'[Id(n)'].index = node[Id(n)].index
    PROVE  CompletionOrder'
<1> DEFINE C == {n \in Names : Numbered(n)}
<1>1. /\ {node[Id(n)].index : n \in C} = 0 .. nextIndex - 1
      /\ \A m, n \in C : node[Id(m)].index = node[Id(n)].index => m = n
  BY DEF CompletionOrder, Numbered
<1>2. C' = C \cup {k}
  OBVIOUS
<1>3. \A n \in C : node'[Id(n)'].index = node[Id(n)].index
  OBVIOUS
<1>4. {node'[Id(n)'].index : n \in C'} = 0 .. nextIndex' - 1
  <2>1. {node'[Id(n)'].index : n \in C'}
            = {node[Id(n)].index : n \in C} \cup {nextIndex}
    BY <1>2, <1>3
  <2>2. (0 .. nextIndex - 1) \cup {nextIndex} = 0 .. nextIndex' - 1
    OBVIOUS
  <2> QED BY <1>1, <2>1, <2>2
<1>5. \A m, n \in C' : node'[Id(m)'].index = node'[Id(n)'].index => m = n
  <2>1. \A n \in C : node[Id(n)].index # nextIndex
    <3>1. \A n \in C : node[Id(n)].index \in 0 .. nextIndex - 1
      BY <1>1
    <3> QED BY <3>1
  <2> QED BY <1>1, <1>2, <1>3, <2>1
<1> QED BY <1>4, <1>5 DEF CompletionOrder, Numbered

LEMMA StepOrder == ASSUME Usage = {}, OrderInv, [Next]_vars
                   PROVE  CompletionOrder'
<1>0. /\ TypeOK /\ (interpreting => session > 0) /\ session \in Nat
      /\ Len(frames) <= 1 /\ CompletionOrder /\ FrameInv /\ FreshInv
  BY DEF OrderInv, Typed, Started, TracingMutex, TypeOK
<1>1. ASSUME UNCHANGED <<session, nextIndex>>,
             \A n \in Names : session > 0 =>
                /\ node'[Id(n)].index = node[Id(n)].index
                /\ Known(n) => node'[Id(n)].status # "absent"
      PROVE  CompletionOrder'
  <2>1. \A n \in Names : /\ Id(n)' = Id(n)
                         /\ session > 0 => Id(n) \in NodeIds
    BY <1>0, <1>1, IdType DEF Id
  <2>2. \A n \in Names : Numbered(n)' <=> Numbered(n)
    BY <1>0, <1>1, <2>1 DEF Numbered, Known, FreshInv
  <2> QED BY <1>0, <1>1, <2>1, <2>2, OrderKept DEF Numbered, Known
<1>2. ASSUME ResetNodes, session < MaxSessions PROVE CompletionOrder'
  <2>1. \A n \in Names : node'[Id(n)'].status = "absent"
    <3> SUFFICES ASSUME NEW n \in Names PROVE node'[Id(n)'].status = "absent"
      OBVIOUS
    <3>1. Id(n)' = <<session + 1, n>> /\ Id(n)' \in NodeIds
      BY <1>0, <1>2, BoundAssumption DEF ResetNodes, Id, NodeIds, Sessions
    <3>2. node[Id(n)'].status = "absent"
      BY <1>0, <3>1 DEF FreshInv
    <3> QED BY <1>2, <3>1, <3>2 DEF ResetNodes, Absent
  <2>2. \A n \in Names : ~Known(n)'
    BY <2>1 DEF Known
  <2> QED BY <1>2, <2>2 DEF CompletionOrder, ResetNodes
\* A number is given to a node that has none.
<1>3. ASSUME NEW k \in Names, Id(k) \in NodeIds, session > 0,
             session' = session, Known(k),
             node'[Id(k)].status # "absent",
             node'[Id(k)].index = IndexOf(Id(k)),
             nextIndex' = NextIndexAfter(Id(k)),
             \A id \in NodeIds : id # Id(k) => node'[id] = node[id]
      PROVE  CompletionOrder'
  <2>1. \A n \in Names : Id(n) \in NodeIds /\ Id(n)' = Id(n)
    BY <1>0, <1>3, IdType DEF Id
  <2>2. \A n \in Names \ {k} : /\ Id(n) # Id(k)
                               /\ node'[Id(n)] = node[Id(n)]
    BY <1>3, <2>1 DEF Id
  <2>3. CASE node[Id(k)].index # Unset
    BY <1>0, <1>1, <1>3, <2>1, <2>2, <2>3
    DEF IndexOf, NextIndexAfter, Known
  <2>4. CASE node[Id(k)].index = Unset
    <3>1. /\ node'[Id(k)'].index = nextIndex /\ nextIndex' = nextIndex + 1
          /\ nextIndex \in Nat
      BY <1>0, <1>3, <2>1, <2>4 DEF IndexOf, NextIndexAfter, TypeOK
    <3>2. ~Numbered(k) /\ Numbered(k)'
      BY <1>3, <2>1, <2>4, <3>1 DEF Numbered, Known, Unset
    <3>3. \A n \in Names \ {k} :
             /\ Numbered(n)' <=> Numbered(n)
             /\ Numbered(n) => node'[Id(n)'].index = node[Id(n)].index
      BY <1>3, <2>1, <2>2 DEF Numbered, Known
    <3> QED BY <1>0, <3>1, <3>2, <3>3, OrderGrows
  <2> QED BY <2>3, <2>4
<1>4. ASSUME NEW n \in Names,
             InputTensors(n) \/ EnterMethod(n) \/ MethodRefused(n)
      PROVE  CompletionOrder'
  <2>1. /\ Id(n) \in NodeIds /\ session > 0 /\ UNCHANGED <<session, nextIndex>>
    BY <1>0, <1>4, IdType DEF InputTensors, EnterMethod, MethodRefused
  <2>2. \A id \in NodeIds : id # Id(n) => node'[id] = node[id]
    BY <1>0, <1>4 DEF InputTensors, EnterMethod, MethodRefused, TypeOK
  <2>3. /\ node'[Id(n)].status # "absent"
        /\ node[Id(n)].status # "absent" => node'[Id(n)].index = node[Id(n)].index
        /\ node[Id(n)].status = "absent" => node'[Id(n)].index = Unset
    BY <1>0, <1>4, CreateKeeps
  <2>4. node'[Id(n)].index = node[Id(n)].index
    BY <1>0, <2>1, <2>3 DEF FreshInv
  <2> QED BY <1>0, <1>1, <2>1, <2>2, <2>3, <2>4, IdType DEF Known
<1>5. ASSUME NEW n \in Names,
             \/ WarpSegment(n)
             \/ \E bs \in SUBSET Buffers : Module(n, bs) \/ ModuleFails(n, bs)
      PROVE  CompletionOrder'
  <2>1. UNCHANGED <<session, nextIndex>>
    BY <1>5 DEF WarpSegment, Module, ModuleFails
  <2>2. \A id \in NodeIds : /\ node'[id].status = node[id].status
                            /\ node'[id].index = node[id].index
    BY <1>0, <1>5, WarpSegmentKeeps, ModuleKeeps
  <2> QED BY <1>0, <1>1, <2>1, <2>2, IdType DEF Known
<1>6. ASSUME NEW n \in Names, OutputTensors(n) PROVE CompletionOrder'
  <2>1. /\ Id(n) \in NodeIds /\ session > 0 /\ session' = session /\ Known(n)
        /\ nextIndex' = NextIndexAfter(Id(n))
    BY <1>0, <1>6, IdType DEF OutputTensors, Tracing
  <2> QED BY <1>0, <1>3, <1>6, <2>1, OutputKeeps
<1>7. ASSUME NEW n \in Names, OutputTensorsFails(n), ~OutputTensors(n)
      PROVE  CompletionOrder'
  <2>1. /\ Id(n) \in NodeIds /\ UNCHANGED <<session, nextIndex>>
    BY <1>0, <1>7, IdType DEF OutputTensorsFails
  <2> QED BY <1>0, <1>1, <1>7, <2>1, OutputKeeps, IdType DEF Known
<1>8. ASSUME NEW a, LeaveMethod(a) PROVE CompletionOrder'
  <2>1. PICK n \in Names :
           /\ Known(n)
           /\ \A id \in NodeIds : id # Id(n) => node'[id] = node[id]
           /\ \/ /\ node'[Id(n)].index = IndexOf(Id(n))
                 /\ nextIndex' = NextIndexAfter(Id(n))
              \/ UNCHANGED <<node, nextIndex>>
    BY <1>0, <1>8, LeaveMethodIndex
  <2>2. /\ session > 0 /\ session' = session /\ Id(n) \in NodeIds
        /\ node'[Id(n)].status # "absent"
    BY <1>0, <1>8, <2>1, LeaveMethodKeeps, IdType DEF Known, LeaveMethod
  <2>3. CASE UNCHANGED <<node, nextIndex>>
    BY <1>1, <2>2, <2>3 DEF Known
  <2> QED BY <1>3, <2>1, <2>2, <2>3
<1>9. CASE UNCHANGED <<session, node, nextIndex>>
  BY <1>1, <1>9 DEF Known
<1>10. ASSUME NEW n \in Names, CollectFails(n) \/ RestoreFails(n)
       PROVE  CompletionOrder'
  <2>1. Id(n) \in NodeIds /\ UNCHANGED <<session, nextIndex>>
    BY <1>0, <1>10, IdType DEF CollectFails, RestoreFails
  <2>2. \A id \in NodeIds : /\ node'[id].status = node[id].status
                            /\ node'[id].index = node[id].index
    BY <1>0, <1>10, <2>1, CollectKeeps
  <2> QED BY <1>0, <1>1, <2>1, <2>2, IdType DEF Known
<1> QED
  BY <1>2, <1>4, <1>5, <1>6, <1>7, <1>8, <1>9, <1>10
  DEF Next, vars, Start, StartFails, Stop, StopFails, Forward, CompileGraph

\* The nodes a session completed are numbered 0, 1, 2, ... with no gap and no
\* repetition (documented usage).
THEOREM OrderAlways == ASSUME Usage = {} PROVE Spec => []CompletionOrder
<1>1. OrderInv /\ [Next]_vars => OrderInv'
  BY StepTyped, StepMutex, StepFrame, StepFresh, StepOrder DEF OrderInv
<1>2. OrderInv => CompletionOrder
  BY DEF OrderInv
<1> QED BY <1>1, <1>2, InitOrder, PTL DEF Spec
-----------------------------------------------------------------------------
(* What compile_graph accepted *)

\* The acceptance is about a stopped session whose nodes are all numbered;
\* only start() can change that, and it withdraws the acceptance.
AcceptedInv ==
    compiled => /\ session > 0
                /\ ~interpreting
                /\ \A n \in Names : Known(n) => node[Id(n)].index # Unset

RestInv == OrderInv /\ BorrowedByTracker /\ TrackerInv /\ AcceptedInv

LEMMA StepAccepted ==
    ASSUME Usage = {}, OrderInv, AcceptedInv, [Next]_vars
    PROVE  AcceptedInv'
<1>0. FrameInv
  BY DEF OrderInv
<1>1. CASE \E g \in BOOLEAN : Start(g) \/ StartFails
  BY <1>1 DEF Start, StartFails, ResetNodes, AcceptedInv
<1>2. CASE UNCHANGED <<compiled, session, interpreting, node>>
  BY <1>2 DEF AcceptedInv, Known, Id
<1>3. CASE CompileGraph
  BY <1>3 DEF CompileGraph, Ready, AcceptedInv, Known, Id
<1>4. CASE interpreting /\ UNCHANGED compiled
  BY <1>4 DEF AcceptedInv
<1>5. ASSUME NEW a, LeaveMethod(a) PROVE interpreting /\ UNCHANGED compiled
  BY <1>0, <1>5 DEF LeaveMethod, FrameInv
<1> QED
  BY <1>1, <1>2, <1>3, <1>4, <1>5
  DEF Next, vars, Stop, StopFails, InputTensors, WarpSegment, Module,
      ModuleFails, OutputTensors, OutputTensorsFails, CollectFails,
      RestoreFails, EnterMethod, MethodRefused, Forward

\* The numbers count the nodes they are given to.
LEMMA NumberedCount ==
    ASSUME CompletionOrder, nextIndex \in Nat
    PROVE  Cardinality({n \in Names : Numbered(n)}) = nextIndex
<1> DEFINE C == {n \in Names : Numbered(n)}
           I == 0 .. nextIndex - 1
           f == [n \in C |-> node[Id(n)].index]
<1>1. /\ {node[Id(n)].index : n \in C} = I
      /\ \A m, n \in C : node[Id(m)].index = node[Id(n)].index => m = n
  BY DEF CompletionOrder, Numbered
<1>2. f \in [C -> I]
  BY <1>1
<1>3. \A m, n \in C : f[m] = f[n] => m = n
  BY <1>1
<1>4. \A i \in I : \E n \in C : f[n] = i
  BY <1>1
<1>5. f \in Bijection(C, I)
  <2> HIDE DEF C, I, f
  <2> QED BY <1>2, <1>3, <1>4 DEF Bijection, Injection, IsInjective, Surjection
<1>6. ExistsBijection(I, C)
  BY <1>5, Fun_ExistsBijSymmetric DEF ExistsBijection
<1>7. IsFiniteSet(I) /\ Cardinality(I) = nextIndex
  BY FS_Interval
<1> QED BY <1>6, <1>7, FS_Bijection

LEMMA InitRest == Init => RestInv
<1> SUFFICES ASSUME Init PROVE RestInv
  OBVIOUS
<1>1. AcceptedInv
  BY DEF Init, AcceptedInv
<1> QED BY <1>1, InitOrder, InitBuffer DEF RestInv, BufferInv

LEMMA StepRest == ASSUME Usage = {}, RestInv, [Next]_vars PROVE RestInv'
<1>1. BufferInv /\ OrderInv /\ AcceptedInv
  BY DEF RestInv, OrderInv, BufferInv
<1>2. OrderInv'
  BY <1>1, StepTyped, StepMutex, StepFrame, StepFresh, StepOrder DEF OrderInv
<1>3. BufferInv'
  BY <1>1, StepBuffer
<1> QED BY <1>1, <1>2, <1>3, StepAccepted DEF RestInv, BufferInv

\* Once compile_graph accepted a session, no traced function runs, no buffer
\* is lent and the numbers count the nodes (documented usage).
THEOREM CompiledAlways == ASSUME Usage = {} PROVE Spec => []CompiledAtRest
<1>1. RestInv => CompiledAtRest
  <2> SUFFICES ASSUME RestInv, compiled
               PROVE  /\ frames = <<>>
                      /\ \A b \in Buffers : ~Lent(b)
                      /\ Cardinality({n \in Names : Known(n)}) = nextIndex
    BY DEF CompiledAtRest
  <2>1. frames = <<>>
    BY DEF RestInv, OrderInv, FrameInv, AcceptedInv
  <2>2. \A b \in Buffers : ~Lent(b)
    BY DEF RestInv, BorrowedByTracker, AcceptedInv
  <2>3. {n \in Names : Known(n)} = {n \in Names : Numbered(n)}
    BY DEF RestInv, AcceptedInv, Numbered
  <2>4. CompletionOrder /\ nextIndex \in Nat
    BY DEF RestInv, OrderInv, Typed, TypeOK
  <2> QED BY <2>1, <2>2, <2>3, <2>4, NumberedCount
<1> QED BY <1>1, InitRest, StepRest, PTL DEF Spec

-----------------------------------------------------------------------------
(* Patches and numbers, whatever the program's usage *)

\* Monkeypatches outlive a session only when its stop() raised: start() can
\* fail only where it has patches to install, and then none are.
THEOREM PatchedAlways == Spec => []PatchedWhileInterpreting
<1> USE DEF PatchedWhileInterpreting
<1>1. Init => PatchedWhileInterpreting
  BY DEF Init
<1>2. PatchedWhileInterpreting /\ [Next]_vars => PatchedWhileInterpreting'
  <2> SUFFICES ASSUME PatchedWhileInterpreting, [Next]_vars
               PROVE  PatchedWhileInterpreting'
    OBVIOUS
  <2>1. CASE \E g \in BOOLEAN : Start(g)
    BY <2>1 DEF Start
  <2>2. CASE StartFails
    BY <2>2 DEF StartFails, Installs
  <2>3. CASE StopFails
    BY <2>3 DEF StopFails
  <2>5. CASE \E raises \in BOOLEAN : Stop(raises)
    <3>1. PICK raises \in BOOLEAN : Stop(raises)
      BY <2>5
    <3>2. patched' = raises /\ stopRaised' = raises
      BY <3>1 DEF Stop
    <3> QED BY <3>2
  <2>4. CASE UNCHANGED <<patched, interpreting, stopRaised>>
    BY <2>4
  <2> QED BY <2>1, <2>2, <2>3, <2>4, <2>5
          DEF Next, vars, InputTensors, WarpSegment, Module, ModuleFails,
              OutputTensors, OutputTensorsFails, CollectFails, RestoreFails,
              EnterMethod, MethodRefused, Forward, LeaveMethod, CompileGraph
<1> QED BY <1>1, <1>2, PTL DEF Spec

\* What is not there has no number, and the node of a function that executes
\* is there: start() keeps what a call frame refers to.
HeldInv ==
    /\ \A id \in NodeIds : node[id].status = "absent" => node[id].index = Unset
    /\ \A i \in DOMAIN frames : node[frames[i].id].status # "absent"

\* A step forgets a node object nothing refers to, or keeps its number.
LEMMA StepNode ==
    ASSUME Typed, HeldInv, [Next]_vars, NEW id \in NodeIds
    PROVE  \/ (node'[id] = Absent /\ ~Reachable(id))
           \/ /\ node[id].status # "absent" =>
                    /\ node'[id].status # "absent"
                    /\ node[id].index # Unset => node'[id].index = node[id].index
              /\ node'[id].status = "absent" => node'[id].index = Unset
<1> DEFINE Kept ==
        /\ node[id].status # "absent" =>
              /\ node'[id].status # "absent"
              /\ node[id].index # Unset => node'[id].index = node[id].index
        /\ node'[id].status = "absent" => node'[id].index = Unset
<1>0. /\ TypeOK /\ (interpreting => session > 0)
      /\ node[id].status = "absent" => node[id].index = Unset
  BY DEF Typed, Started, HeldInv
<1>1. ASSUME /\ node'[id].status = node[id].status
             /\ node'[id].index = node[id].index
      PROVE  Kept
  BY <1>0, <1>1
<1>2. ASSUME ResetNodes PROVE Kept \/ (node'[id] = Absent /\ ~Reachable(id))
  BY <1>1, <1>2 DEF ResetNodes
<1>3. ASSUME NEW n \in Names,
             InputTensors(n) \/ EnterMethod(n) \/ MethodRefused(n)
      PROVE  Kept
  <2>1. id # Id(n) => node'[id] = node[id]
    BY <1>0, <1>3 DEF InputTensors, EnterMethod, MethodRefused, TypeOK
  <2>2. CASE id = Id(n)
    BY <1>0, <1>3, <2>2, CreateKeeps
  <2> QED BY <1>1, <2>1, <2>2
<1>4. ASSUME NEW n \in Names, WarpSegment(n) PROVE Kept
  BY <1>0, <1>1, <1>4, WarpSegmentKeeps
<1>5. ASSUME NEW n \in Names, NEW bs, Module(n, bs) \/ ModuleFails(n, bs)
      PROVE  Kept
  BY <1>0, <1>1, <1>5, ModuleKeeps
<1>6. ASSUME NEW n \in Names, OutputTensors(n) \/ OutputTensorsFails(n)
      PROVE  Kept
  <2>1. Id(n) \in NodeIds
    BY <1>0, <1>6, IdType DEF OutputTensors, OutputTensorsFails
  <2>2. /\ node'[Id(n)].status # "absent"
        /\ node'[Id(n)].index = IF OutputTensors(n) THEN IndexOf(Id(n))
                                                   ELSE node[Id(n)].index
        /\ id # Id(n) => node'[id] = node[id]
    BY <1>0, <1>6, <2>1, OutputKeeps
  <2> QED BY <1>1, <2>2 DEF IndexOf
<1>7. ASSUME NEW a, LeaveMethod(a) PROVE Kept
  <2> DEFINE f == frames[Len(frames)].id
  <2>1. Len(frames) \in DOMAIN frames /\ f \in NodeIds
    <3>1. frames \in Seq(FrameType) /\ frames # <<>>
      BY <1>0, <1>7 DEF TypeOK, LeaveMethod
    <3>2. Len(frames) \in DOMAIN frames /\ frames[Len(frames)] \in FrameType
      BY <3>1
    <3> QED BY <3>2 DEF FrameType
  <2>2. node[f].status # "absent" /\ node[f] \in NodeType
    BY <1>0, <2>1 DEF HeldInv, TypeOK
  <2>3. node' = node \/ node' = [node EXCEPT ![f].index = IndexOf(f)]
    BY <1>7 DEF LeaveMethod
  <2>4. CASE node'[id] = node[id]
    BY <1>1, <2>4
  <2>5. CASE id = f /\ node'[id] = [node[id] EXCEPT !.index = IndexOf(id)]
    <3>1. node'[id].status = node[id].status /\ node'[id].index = IndexOf(id)
      BY <2>2, <2>5 DEF NodeType
    <3> QED BY <2>2, <2>5, <3>1 DEF IndexOf
  <2> QED BY <1>0, <2>3, <2>4, <2>5 DEF TypeOK
<1>8. CASE UNCHANGED node
  BY <1>1, <1>8
<1>9. ASSUME NEW n \in Names, CollectFails(n) \/ RestoreFails(n) PROVE Kept
  <2>1. Id(n) \in NodeIds
    BY <1>0, <1>9, IdType DEF CollectFails, RestoreFails
  <2> QED BY <1>0, <1>1, <1>9, <2>1, CollectKeeps
<1> QED
  BY <1>2, <1>3, <1>4, <1>5, <1>6, <1>7, <1>8, <1>9
  DEF Next, vars, Start, StartFails, Stop, StopFails, Forward, CompileGraph

LEMMA StepHeld == ASSUME Typed, HeldInv, [Next]_vars PROVE HeldInv'
<1>0. /\ frames \in Seq(FrameType) /\ TypeOK /\ (interpreting => session > 0)
  BY DEF Typed, TypeOK, Started
<1>1. \A id \in NodeIds : node'[id].status = "absent" => node'[id].index = Unset
  BY StepNode DEF Absent
<1>2. \A i \in DOMAIN frames : node'[frames[i].id].status # "absent"
  <2> SUFFICES ASSUME NEW i \in DOMAIN frames
               PROVE  node'[frames[i].id].status # "absent"
    OBVIOUS
  <2>1. frames[i] \in FrameType
    BY <1>0
  <2>2. frames[i].id \in NodeIds
    BY <2>1 DEF FrameType
  <2>3. Reachable(frames[i].id) /\ node[frames[i].id].status # "absent"
    BY DEF Reachable, HeldInv
  <2> QED BY <2>2, <2>3, StepNode
<1>3. \A i \in DOMAIN frames' : node'[frames'[i].id].status # "absent"
  <2>1. CASE UNCHANGED frames
    BY <1>2, <2>1
  <2>2. ASSUME NEW n \in Names, EnterMethod(n)
        PROVE  \A i \in DOMAIN frames' : node'[frames'[i].id].status # "absent"
    <3>1. frames' = Append(frames, [id |-> Id(n), new |-> ~Known(n)])
      BY <2>2 DEF EnterMethod
    <3>2. node'[Id(n)].status # "absent"
      BY <1>0, <2>2, CreateKeeps
    <3>3. \A i \in DOMAIN frames' : \/ i \in DOMAIN frames /\ frames'[i] = frames[i]
                                    \/ frames'[i].id = Id(n)
      BY <1>0, <3>1
    <3> QED BY <1>2, <3>2, <3>3
  <2>3. ASSUME NEW a, LeaveMethod(a)
        PROVE  \A i \in DOMAIN frames' : node'[frames'[i].id].status # "absent"
    <3>1. /\ frames' = SubSeq(frames, 1, Len(frames) - 1)
          /\ frames # <<>>
      BY <2>3 DEF LeaveMethod
    <3>2. \A i \in DOMAIN frames' : i \in DOMAIN frames /\ frames'[i] = frames[i]
      BY <1>0, <3>1
    <3> QED BY <1>2, <3>2
  <2> QED
    BY <2>1, <2>2, <2>3
    DEF Next, vars, Start, StartFails, Stop, StopFails, InputTensors,
        WarpSegment, Module, ModuleFails, OutputTensors, OutputTensorsFails,
        CollectFails, RestoreFails, MethodRefused, Forward, CompileGraph
<1> QED BY <1>1, <1>3 DEF HeldInv

\* A node object is numbered once, whichever session is running when its last
\* call returns (every usage).
THEOREM NumberedAlways == Spec => NumberedOnce
<1>1. Init => HeldInv
  BY DEF Init, HeldInv, Absent
<1>2. Typed /\ HeldInv /\ [Next]_vars =>
        [\A id \in NodeIds :
            node[id].index # Unset => node'[id].index = node[id].index
                                      \/ node'[id] = Absent]_vars
  <2> SUFFICES ASSUME Typed, HeldInv, [Next]_vars, NEW id \in NodeIds,
                      node[id].index # Unset
               PROVE  node'[id].index = node[id].index \/ node'[id] = Absent
    OBVIOUS
  <2>1. node[id].status # "absent"
    BY DEF HeldInv
  <2> QED BY <2>1, StepNode
<1> QED BY <1>1, <1>2, InitTyped, StepTyped, StepHeld, PTL DEF Spec, NumberedOnce
=============================================================================
