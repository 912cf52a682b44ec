----------------------------- MODULE Nodes_proofs -----------------------------
(***************************************************************************)
(* Proofs about the two modules of single nodes: NodeSamples, for any      *)
(* inputs, outputs, states and tracked buffers, any capacity and any       *)
(* number of passes, and FunctionNode, for any programs, any number of     *)
(* calls and any number of samples kept.                                   *)
(***************************************************************************)
EXTENDS NodeSamples, FunctionNode, SequenceTheorems, WellFoundedInduction, TLAPS

(***************************************************************************)
(* NodeSamples.                                                            *)
(***************************************************************************)

LEMMA CapacityType == Capacity \in Int /\ \A k \in Slots : k \in Int
  BY BoundAssumption DEF Capacity, Slots

-----------------------------------------------------------------------------
(* Types *)

LEMMA IoNames ==
    /\ In(Inputs \cup StateNames) \subseteq Io
    /\ Out(Outputs \cup StateNames) \subseteq Io
    /\ \A x \in Inputs \cup StateNames : <<"in", x>> \in Io
    /\ \A x \in Outputs \cup StateNames : <<"out", x>> \in Io
  BY DEF Io, In, Out

LEMMA RecordTyped ==
    ASSUME TypeOK, NEW ios, Record(ios)
    PROVE  first' \in [Io -> Nat] /\ cached' \in [Slots -> [Io -> Nat]]
<1>1. CASE pass = 1
  BY <1>1 DEF Record, TypeOK
<1>2. CASE pass # 1
  <2>1. CASE writeIdx < Capacity
    <3>1. cached' = [cached EXCEPT ![writeIdx + 1] =
             [io \in Io |-> IF io \in ios THEN pass
                            ELSE cached[writeIdx + 1][io]]]
      BY <1>2, <2>1 DEF Record
    <3>2. writeIdx + 1 \in Slots
      BY <2>1, CapacityType DEF Slots, TypeOK
    <3>3. [io \in Io |-> IF io \in ios THEN pass
                         ELSE cached[writeIdx + 1][io]] \in [Io -> Nat]
      BY <3>2 DEF TypeOK
    <3> QED BY <1>2, <3>1, <3>3 DEF Record, TypeOK
  <2>2. CASE ~(writeIdx < Capacity)
    BY <1>2, <2>2 DEF Record, TypeOK
  <2> QED BY <2>1, <2>2
<1> QED BY <1>1, <1>2

LEMMA InitTyped == Init => TypeOK
  BY DEF Init, TypeOK

LEMMA StepTyped == TypeOK /\ [Next]_vars => TypeOK'
<1> SUFFICES ASSUME TypeOK, [Next]_vars PROVE TypeOK'
  OBVIOUS
<1>1. CASE BeginPass
  BY <1>1 DEF BeginPass, TypeOK
<1>2. CASE \E x \in Inputs \cup States : InputTensors(x)
  <2> PICK x \in Inputs \cup States : InputTensors(x)
    BY <1>2
  <2>1. <<"in", x>> \in Io
    BY IoNames DEF StateNames
  <2> QED BY <2>1, RecordTyped DEF InputTensors, TypeOK
<1>3. CASE \E x \in Injected : Module(x)
  <2> PICK x \in Injected : Module(x)
    BY <1>3
  <2>1. <<"in", x>> \in Io
    BY IoNames DEF StateNames
  <2>2. first' \in [Io -> Nat] /\ cached' \in [Slots -> [Io -> Nat]]
    BY RecordTyped DEF Module, TypeOK
  <2> QED BY <2>1, <2>2 DEF Module, TypeOK
<1>4. CASE \E x \in States : UpdateState(x)
  <2> PICK x \in States : UpdateState(x)
    BY <1>4
  <2>1. <<"out", x>> \in Io
    BY IoNames DEF StateNames
  <2>2. first' \in [Io -> Nat] /\ cached' \in [Slots -> [Io -> Nat]]
    BY RecordTyped DEF UpdateState, TypeOK
  <2> QED BY <2>1, <2>2 DEF UpdateState, TypeOK
<1>5. CASE OutputTensors
  <2>1. first' \in [Io -> Nat] /\ cached' \in [Slots -> [Io -> Nat]]
    <3>1. CASE tracing
      BY <1>5, <3>1, RecordTyped DEF OutputTensors
    <3>2. CASE ~tracing
      BY <1>5, <3>2, RecordTyped DEF OutputTensors
    <3> QED BY <3>1, <3>2
  <2>2. called' \subseteq Io
    BY <1>5, IoNames DEF OutputTensors, TypeOK, Out
  <2>3. NextWriteIdx \in Nat
    BY DEF NextWriteIdx, TypeOK
  <2>4. writeIdx' \in Nat /\ completed' \in Seq(Nat)
    <3>1. CASE tracing
      BY <1>5, <3>1 DEF OutputTensors, TypeOK
    <3>2. CASE ~tracing
      <4>1. writeIdx' = NextWriteIdx /\ completed' = Append(completed, pass)
        BY <1>5, <3>2 DEF OutputTensors
      <4>2. pass \in Nat /\ completed \in Seq(Nat)
        BY DEF TypeOK
      <4> QED BY <2>3, <4>1, <4>2
    <3> QED BY <3>1, <3>2
  <2>5. tracing' \in BOOLEAN /\ pending' \in BOOLEAN /\ pass' \in Nat
    <3>1. CASE tracing
      BY <1>5, <3>1 DEF OutputTensors, TypeOK
    <3>2. CASE ~tracing
      BY <1>5, <3>2 DEF OutputTensors, TypeOK
    <3> QED BY <3>1, <3>2
  <2> QED BY <2>1, <2>2, <2>4, <2>5 DEF TypeOK
<1>6. CASE UNCHANGED vars
  BY <1>6 DEF vars, TypeOK
<1> QED BY <1>1, <1>2, <1>3, <1>4, <1>5, <1>6 DEF Next

\* Every variable keeps its type.
THEOREM TypeCorrect == Spec => []TypeOK
  BY InitTyped, StepTyped, PTL DEF Spec

-----------------------------------------------------------------------------
(* The write index and the passes that completed *)

IndexInv ==
    /\ writeIdx <= Len(completed)
    /\ writeIdx < Capacity => Len(completed) = writeIdx
    /\ writeIdx > 0 => writeIdx <= Capacity

LEMMA InitIndex == Init => IndexInv
  BY DEF Init, IndexInv

LEMMA StepIndex == TypeOK /\ IndexInv /\ [Next]_vars => IndexInv'
<1> SUFFICES ASSUME TypeOK, IndexInv, [Next]_vars PROVE IndexInv'
  OBVIOUS
<1>1. CASE UNCHANGED <<writeIdx, completed>>
  BY <1>1 DEF IndexInv
<1>2. CASE OutputTensors /\ ~tracing
  <2>1. writeIdx' = NextWriteIdx /\ completed' = Append(completed, pass)
    BY <1>2 DEF OutputTensors
  <2>2. Len(completed') = Len(completed) + 1 /\ Len(completed) \in Nat
    BY <2>1 DEF TypeOK
  <2> QED BY <2>1, <2>2, CapacityType DEF IndexInv, NextWriteIdx, TypeOK
<1>3. BeginPass => UNCHANGED <<writeIdx, completed>>
  BY DEF BeginPass
<1>4. \A x : InputTensors(x) \/ Module(x) \/ UpdateState(x) =>
               UNCHANGED <<writeIdx, completed>>
  BY DEF InputTensors, Module, UpdateState
<1>5. OutputTensors /\ tracing => UNCHANGED <<writeIdx, completed>>
  BY DEF OutputTensors
<1>6. UNCHANGED vars => UNCHANGED <<writeIdx, completed>>
  BY DEF vars
<1> QED BY <1>1, <1>2, <1>3, <1>4, <1>5, <1>6 DEF Next

\* increment_cache_idx passes over no iteration while there is room for it.
THEOREM KeptAlways == Spec => []SamplesKept
<1>1. TypeOK /\ IndexInv => SamplesKept
  BY CapacityType DEF TypeOK, IndexInv, SamplesKept
<1> QED BY <1>1, InitTyped, StepTyped, InitIndex, StepIndex, PTL DEF Spec

\* max_cached_io bounds the samples of a node, the first one included.
THEOREM BoundAlways == ASSUME MaxCachedIO >= 1 PROVE Spec => []SampleBound
<1>1. TypeOK /\ IndexInv => SampleBound
  BY BoundAssumption DEF TypeOK, IndexInv, SampleBound, Capacity
<1> QED BY <1>1, InitTyped, StepTyped, InitIndex, StepIndex, PTL DEF Spec

-----------------------------------------------------------------------------
(***************************************************************************)
(* Samples are iterations, for a program that supplies everything on every *)
(* pass that reaches output_tensors(): the first values are those of pass  *)
(* 1, the finished slots those of the passes that completed, and the slot  *)
(* under the write index holds the values of the pass that is under way.   *)
(***************************************************************************)
Tracked == {io \in Io : io[2] \notin Injected}

FirstInv ==
    /\ pass = 0 => tracing
    /\ pass = 1 /\ ~tracing => OutputsGiven
    /\ pass > 1 \/ ~tracing => \A io \in Tracked : first[io] = 1
    /\ pass = 1 /\ tracing =>
          \A io \in Tracked \cap called : io[1] = "in" => first[io] = 1

FinishedInv ==
    \A k \in 1 .. writeIdx : \A io \in Tracked : cached[k][io] = completed[k]

UnderWayInv ==
    ~tracing /\ ~OutputsGiven /\ writeIdx < Capacity =>
        \A io \in Tracked \cap called : cached[writeIdx + 1][io] = pass

SInv == TypeOK /\ IndexInv /\ FirstInv /\ FinishedInv /\ UnderWayInv

\* What recording leaves alone and what it stores.
LEMMA RecordKeeps ==
    ASSUME SInv, NEW ios, Record(ios)
    PROVE  /\ pass = 1 => /\ cached' = cached
                          /\ \A io \in Io : first'[io] = IF io \in ios THEN 1
                                                         ELSE first[io]
           /\ pass # 1 => first' = first
           /\ \A k \in 1 .. writeIdx : cached'[k] = cached[k]
           /\ pass # 1 /\ writeIdx < Capacity =>
                \A io \in Io : cached'[writeIdx + 1][io] =
                    IF io \in ios THEN pass ELSE cached[writeIdx + 1][io]
<1>1. CASE pass = 1
  BY <1>1 DEF Record
<1>2. CASE pass # 1
  <2>1. CASE writeIdx < Capacity
    <3>1. writeIdx + 1 \in Slots /\ writeIdx \in Nat
          /\ \A k \in 1 .. writeIdx : k \in Slots /\ k # writeIdx + 1
      BY <2>1, CapacityType DEF Slots, SInv, TypeOK
    <3> QED BY <1>2, <2>1, <3>1 DEF Record, SInv, TypeOK
  <2>2. CASE ~(writeIdx < Capacity)
    BY <1>2, <2>2 DEF Record
  <2> QED BY <2>1, <2>2
<1> QED BY <1>1, <1>2

\* A call that records what it adds to the pass, and nothing else.
LEMMA CallKeeps ==
    ASSUME SInv, ~OutputsGiven, NEW io \in Io,
           \/ Record({io})
           \/ UNCHANGED <<first, cached>> /\ (io \in Tracked => tracing /\ io[1] # "in"),
           called' = called \cup {io},
           UNCHANGED <<pass, tracing, pending, writeIdx, completed>>
    PROVE  FirstInv' /\ FinishedInv' /\ UnderWayInv'
<1>1. OutputsGiven => OutputsGiven'
  BY DEF OutputsGiven
<1>2. pass = 1 => tracing
  BY DEF SInv, FirstInv
<1>3. Tracked \subseteq Io /\ pass \in Nat
  BY DEF Tracked, SInv, TypeOK
<1>4. CASE Record({io})
  <2>1. FirstInv'
    BY <1>1, <1>2, <1>3, <1>4, RecordKeeps DEF SInv, FirstInv
  <2>2. FinishedInv'
    BY <1>4, RecordKeeps DEF SInv, FinishedInv
  <2>3. UnderWayInv'
    <3>1. SUFFICES ASSUME ~tracing, writeIdx < Capacity,
                          NEW j \in Tracked \cap called'
                   PROVE  cached'[writeIdx + 1][j] = pass
      BY <1>1 DEF UnderWayInv
    <3>2. pass # 1 /\ j \in Io
      BY <1>2, <1>3, <3>1
    <3>3. cached'[writeIdx + 1][j] = IF j \in {io} THEN pass
                                     ELSE cached[writeIdx + 1][j]
      BY <1>4, <3>1, <3>2, RecordKeeps
    <3> QED BY <3>1, <3>3 DEF SInv, UnderWayInv
  <2> QED BY <2>1, <2>2, <2>3
<1>5. CASE /\ UNCHANGED <<first, cached>>
           /\ io \in Tracked => tracing /\ io[1] # "in"
  <2>1. FirstInv'
    BY <1>1, <1>2, <1>5 DEF SInv, FirstInv
  <2>2. FinishedInv'
    BY <1>5 DEF SInv, FinishedInv
  <2>3. UnderWayInv'
    BY <1>1, <1>5 DEF SInv, UnderWayInv
  <2> QED BY <2>1, <2>2, <2>3
<1> QED BY <1>4, <1>5

\* The pass completes the trace: all first values are those of pass 1.
LEMMA TracedOutput ==
    ASSUME SInv, Skips = {}, OutputTensors, tracing
    PROVE  FirstInv' /\ FinishedInv' /\ UnderWayInv'
<1> DEFINE ios == Out(Outputs \cup Injected) \cup (called \cap Out(States))
<1>1. /\ Record(ios) /\ tracing' = FALSE /\ called' = called \cup Out(Outputs)
      /\ pass > 0 /\ Required \subseteq called
      /\ UNCHANGED <<writeIdx, completed, pass>>
  BY DEF OutputTensors
<1>2. OutputsGiven'
  BY <1>1 DEF OutputsGiven
<1>3. Tracked \subseteq Io /\ pass \in Nat
  BY DEF Tracked, SInv, TypeOK
<1>4. \A io \in Tracked : first'[io] = 1
  <2>1. CASE pass = 1
    <3> SUFFICES ASSUME NEW io \in Tracked PROVE first'[io] = 1
      OBVIOUS
    <3>1. first'[io] = IF io \in ios THEN 1 ELSE first[io]
      BY <1>1, <1>3, <2>1, RecordKeeps
    <3>2. In(Inputs \cup StateNames) \cup Out(States) \subseteq called
      BY <1>1, <2>1 DEF Required
    <3>3. io \in ios \/ (io \in called /\ io[1] = "in")
      BY <3>2 DEF Tracked, Io, In, Out, StateNames
    <3> QED BY <2>1, <3>1, <3>3 DEF SInv, FirstInv
  <2>2. CASE pass # 1
    BY <1>1, <1>3, <2>2, RecordKeeps DEF SInv, FirstInv
  <2> QED BY <2>1, <2>2
<1>5. FirstInv'
  BY <1>1, <1>2, <1>4 DEF FirstInv
<1>6. FinishedInv'
  BY <1>1, RecordKeeps DEF SInv, FinishedInv
<1> QED BY <1>2, <1>5, <1>6 DEF UnderWayInv

\* A validated pass completes the slot under the write index.
LEMMA ValidatedOutput ==
    ASSUME SInv, Skips = {}, OutputTensors, ~tracing
    PROVE  FirstInv' /\ FinishedInv' /\ UnderWayInv'
<1>1. /\ Record(Out(Outputs)) /\ called' = called \cup Out(Outputs)
      /\ Required \subseteq called /\ pass > 0 /\ ~OutputsGiven
      /\ writeIdx' = NextWriteIdx /\ completed' = Append(completed, pass)
      /\ UNCHANGED <<tracing, pending, pass>>
  BY DEF OutputTensors
<1>2. OutputsGiven'
  BY <1>1 DEF OutputsGiven
<1>3. pass # 1 /\ pass \in Nat /\ pass > 1
  BY <1>1 DEF SInv, FirstInv, TypeOK
<1>4. FirstInv'
  BY <1>1, <1>2, <1>3, RecordKeeps DEF SInv, FirstInv
<1>5. /\ writeIdx \in Nat /\ completed \in Seq(Nat) /\ Len(completed) \in Nat
      /\ writeIdx <= Len(completed)
      /\ \A k \in 1 .. Len(completed) : completed'[k] = completed[k]
      /\ completed'[Len(completed) + 1] = pass
  BY <1>1, <1>3 DEF SInv, TypeOK, IndexInv
<1>6. \A k \in 1 .. writeIdx : \A io \in Tracked : cached'[k][io] = completed'[k]
  <2> SUFFICES ASSUME NEW k \in 1 .. writeIdx, NEW io \in Tracked
               PROVE  cached'[k][io] = completed'[k]
    OBVIOUS
  <2>1. cached'[k] = cached[k]
    BY <1>1, RecordKeeps
  <2>2. completed'[k] = completed[k]
    BY <1>5
  <2> QED BY <2>1, <2>2 DEF SInv, FinishedInv
<1>7. CASE writeIdx < Capacity
  <2>1. \A io \in Tracked : cached'[writeIdx + 1][io] = pass
    <3> SUFFICES ASSUME NEW io \in Tracked
                 PROVE  cached'[writeIdx + 1][io] = pass
      OBVIOUS
    <3>1. io \in Io
      BY DEF Tracked
    <3>2. cached'[writeIdx + 1][io] =
            IF io \in Out(Outputs) THEN pass ELSE cached[writeIdx + 1][io]
      BY <1>1, <1>3, <1>7, <3>1, RecordKeeps
    <3>3. In(Inputs \cup StateNames) \cup Out(States) \subseteq called
      BY <1>1, <1>3 DEF Required
    <3>4. io \in Out(Outputs) \/ io \in called
      BY <3>3 DEF Tracked, Io, In, Out, StateNames
    <3> QED BY <1>1, <1>7, <3>2, <3>4 DEF SInv, UnderWayInv
  <2>2. writeIdx' = writeIdx + 1 /\ completed'[writeIdx + 1] = pass
    BY <1>1, <1>5, <1>7 DEF NextWriteIdx, SInv, IndexInv
  <2>3. FinishedInv'
    BY <1>5, <1>6, <2>1, <2>2 DEF FinishedInv
  <2> QED BY <1>2, <1>4, <2>3 DEF UnderWayInv
<1>8. CASE ~(writeIdx < Capacity)
  <2>1. FinishedInv'
    BY <1>1, <1>6, <1>8 DEF FinishedInv, NextWriteIdx
  <2> QED BY <1>2, <1>4, <2>1 DEF UnderWayInv
<1> QED BY <1>7, <1>8

LEMMA InitSInv == Init => SInv
<1> SUFFICES ASSUME Init PROVE SInv
  OBVIOUS
<1>1. TypeOK /\ IndexInv
  BY InitTyped, InitIndex
<1> QED BY <1>1 DEF SInv, Init, FirstInv, FinishedInv, UnderWayInv

LEMMA StepSInv == ASSUME Skips = {} PROVE SInv /\ [Next]_vars => SInv'
<1> SUFFICES ASSUME SInv, [Next]_vars PROVE SInv'
  OBVIOUS
<1>1. TypeOK' /\ IndexInv'
  BY StepTyped, StepIndex DEF SInv
<1> SUFFICES FirstInv' /\ FinishedInv' /\ UnderWayInv'
  BY <1>1 DEF SInv
<1>2. CASE BeginPass
  <2>1. /\ pass \in Nat /\ pass' = pass + 1 /\ called' = {}
        /\ pass > 0 => ~tracing
        /\ tracing' = (pass = 0 \/ pending)
        /\ UNCHANGED <<first, cached, writeIdx, completed>>
    BY <1>2 DEF BeginPass, SInv, TypeOK
  <2>2. CASE pass = 0
    <3>1. pass' = 1
      BY <2>1, <2>2
    <3>2. tracing'
      BY <2>1, <2>2, Zenon
    <3> QED BY <2>1, <3>1, <3>2 DEF SInv, FirstInv, FinishedInv, UnderWayInv
  <2>3. CASE pass # 0
    <3>1. pass' > 1 /\ pass' # 0 /\ pass' # 1 /\ \A io \in Tracked : first'[io] = 1
      BY <2>1, <2>3 DEF SInv, FirstInv
    <3>2. FirstInv'
      BY <3>1 DEF FirstInv
    <3> QED BY <2>1, <3>2 DEF SInv, FinishedInv, UnderWayInv
  <2> QED BY <2>2, <2>3
<1>3. CASE \E x \in Inputs \cup States : InputTensors(x)
  <2> PICK x \in Inputs \cup States : InputTensors(x)
    BY <1>3
  <2>1. <<"in", x>> \in Io
    BY IoNames DEF StateNames
  <2> QED BY <2>1, CallKeeps DEF InputTensors
<1>4. CASE \E x \in Injected : Module(x)
  <2> PICK x \in Injected : Module(x)
    BY <1>4
  <2>1. <<"in", x>> \in Io /\ <<"in", x>> \notin Tracked
    BY IoNames DEF StateNames, Tracked
  <2> QED BY <2>1, CallKeeps DEF Module
<1>5. CASE \E x \in States : UpdateState(x)
  <2> PICK x \in States : UpdateState(x)
    BY <1>5
  <2>1. <<"out", x>> \in Io /\ ~OutputsGiven
    BY IoNames DEF StateNames, UpdateState
  <2> QED BY <2>1, CallKeeps DEF UpdateState
<1>6. CASE OutputTensors
  BY <1>6, TracedOutput, ValidatedOutput
<1>7. CASE UNCHANGED vars
  BY <1>7 DEF vars, SInv, FirstInv, FinishedInv, UnderWayInv, OutputsGiven
<1> QED BY <1>2, <1>3, <1>4, <1>5, <1>6, <1>7 DEF Next

\* The samples LEAPP replays for validation are whole iterations of the loop,
\* if no pass that reaches output_tensors() leaves anything out.
THEOREM SamplesAlways == ASSUME Skips = {} PROVE Spec => []SamplesAreIterations
<1>1. Init => SInv
  BY InitSInv
<1>2. SInv /\ [Next]_vars => SInv'
  BY StepSInv
<1>3. SInv => SamplesAreIterations
  BY DEF SInv, FirstInv, FinishedInv, SamplesAreIterations, IterationsOf, Tracked
<1> QED BY <1>1, <1>2, <1>3, PTL DEF Spec

(***************************************************************************)
(* FunctionNode.                                                           *)
(***************************************************************************)
-----------------------------------------------------------------------------
(* Numbers and sequences                                                   *)

LEMMA Least ==
    ASSUME NEW S, S \subseteq Nat, S # {}
    PROVE  \E x \in S : \A y \in S : x =< y
<1> DEFINE R == {ss \in Nat \X Nat : ss[1] < ss[2]}
<1>1. IsWellFoundedOn(R, Nat)
  BY NatLessThanWellFounded DEF OpToRel
<1>2. \E x \in S : \A y \in S : ~ (<<y, x>> \in R)
  <2> HIDE DEF R
  <2> QED BY <1>1, WFMin
<1>3. PICK x \in S : \A y \in S : <<y, x>> \notin R
  BY <1>2
<1>4. ASSUME NEW y \in S PROVE x =< y
  <2>1. x \in Nat /\ y \in Nat /\ <<y, x>> \notin R
    BY <1>3
  <2> QED BY <2>1
<1> QED BY <1>4

LEMMA MinIn == ASSUME NEW S, S \subseteq Nat, S # {} PROVE Min(S) \in S
BY Least DEF Min

LEMMA MaxIn == ASSUME NEW n \in Nat, NEW S, S \subseteq 0 .. n, S # {} PROVE Max(S) \in S
<1> DEFINE T == {n - x : x \in S}
<1>1. PICK y \in T : \A z \in T : y =< z
  <2>1. \A x \in S : n - x \in Nat
    <3>1. \A x \in S : x \in 0 .. n
      OBVIOUS
    <3> QED BY <3>1
  <2>2. T \subseteq Nat /\ T # {}
    BY <2>1
  <2> HIDE DEF T
  <2> QED BY <2>2, Least
<1>2. PICK x \in S : y = n - x
  BY <1>1
<1>3. \A z \in S : x >= z
  <2> SUFFICES ASSUME NEW z \in S PROVE x >= z
    OBVIOUS
  <2>1. n - x =< n - z
    BY <1>1, <1>2
  <2>2. x \in 0 .. n /\ z \in 0 .. n
    OBVIOUS
  <2> QED BY <2>1, <2>2
<1> QED BY <1>3 DEF Max

\* A set of numbers up to n that holds 0 and with every number the next.
LEMMA UpTo ==
    ASSUME NEW n \in Nat, NEW S, 0 \in S, \A k \in 1 .. n : k - 1 \in S => k \in S
    PROVE  0 .. n \subseteq S
<1> DEFINE T == {k \in 0 .. n : k \notin S}
<1> SUFFICES ASSUME T # {} PROVE FALSE
  OBVIOUS
<1>1. PICK k \in T : \A j \in T : k =< j
  <2>1. T \subseteq Nat
    OBVIOUS
  <2> HIDE DEF T
  <2> QED BY <2>1, Least
<1>2. k \in 1 .. n /\ k - 1 \notin T
  BY <1>1
<1> QED BY <1>1, <1>2

LEMMA AppendSame ==
    ASSUME NEW E, NEW x \in Seq(E), NEW y \in Seq(E), NEW w \in E,
           Append(x, w) = Append(y, w)
    PROVE  x = y
<1>1. Len(x) = Len(y)
  <2>1. Len(Append(x, w)) = Len(x) + 1 /\ Len(Append(y, w)) = Len(y) + 1
    OBVIOUS
  <2> QED BY <2>1
<1>2. ASSUME NEW i \in 1 .. Len(x) PROVE x[i] = y[i]
  <2>1. Append(x, w)[i] = x[i] /\ Append(y, w)[i] = y[i]
    BY <1>1
  <2> QED BY <2>1
<1> QED BY <1>1, <1>2

LEMMA ConcatLonger ==
    ASSUME NEW E, NEW s \in Seq(E), NEW t \in Seq(E), Len(t) > 0
    PROVE  s \o t \in Seq(E) /\ Len(s \o t) > 0 /\ Len(s \o t) > Len(s)
<1>1. Len(s \o t) = Len(s) + Len(t) /\ Len(s) \in Nat /\ Len(t) \in Nat
  OBVIOUS
<1> QED BY <1>1

LEMMA ConcatParts ==
    ASSUME NEW E, NEW s \in Seq(E), NEW t \in Seq(E)
    PROVE  /\ s \o t \in Seq(E) /\ Len(s \o t) = Len(s) + Len(t)
           /\ Len(s \o t) >= Len(s)
           /\ \A m \in 1 .. Len(s) : (s \o t)[m] = s[m]
           /\ \A i \in 1 .. Len(t) : (s \o t)[Len(s) + i] = t[i]
<1>1. Len(s \o t) = Len(s) + Len(t) /\ Len(s) \in Nat /\ Len(t) \in Nat
  OBVIOUS
<1>2. \A m \in 1 .. Len(s) : (s \o t)[m] = s[m]
  OBVIOUS
<1>3. \A i \in 1 .. Len(t) : (s \o t)[Len(s) + i] = t[i]
  OBVIOUS
<1> QED BY <1>1, <1>2, <1>3

FlattenRule(s, f, n) ==
    f = [i \in 1 .. n |-> IF i = 1 THEN s[i] ELSE f[i-1] \o s[i]]

LEMMA FlattenExists ==
    ASSUME NEW s, Len(s) \in Nat PROVE \E f : FlattenRule(s, f, Len(s))
<1> DEFINE S == {n \in 0 .. Len(s) : \E f : FlattenRule(s, f, n)}
<1>1. 0 \in S
  <2>1. FlattenRule(s, [k \in 1 .. 0 |-> <<>>], 0)
    BY DEF FlattenRule
  <2> QED BY <2>1
<1>2. ASSUME NEW n \in 1 .. Len(s), n - 1 \in S PROVE n \in S
  <2>1. PICK f : FlattenRule(s, f, n - 1)
    BY <1>2
  <2> DEFINE h == [k \in 1 .. n |-> IF k < n THEN f[k]
                                    ELSE IF n = 1 THEN s[1] ELSE f[n-1] \o s[n]]
  <2>2. ASSUME NEW k \in 1 .. n PROVE h[k] = IF k = 1 THEN s[k] ELSE h[k-1] \o s[k]
    <3>1. CASE k < n
      <4>1. h[k] = f[k] /\ (k > 1 => h[k-1] = f[k-1])
        BY <3>1
      <4>2. k \in 1 .. n - 1
        BY <3>1
      <4>3. f[k] = IF k = 1 THEN s[k] ELSE f[k-1] \o s[k]
        BY <2>1, <4>2 DEF FlattenRule
      <4> HIDE DEF h
      <4> QED BY <4>1, <4>2, <4>3
    <3>2. CASE k = n
      <4>1. /\ h[n] = IF n = 1 THEN s[1] ELSE f[n-1] \o s[n]
            /\ n > 1 => h[n-1] = f[n-1]
        OBVIOUS
      <4> HIDE DEF h
      <4> QED BY <3>2, <4>1
    <3> QED BY <3>1, <3>2
  <2>3. h = [k \in 1 .. n |-> h[k]]
    OBVIOUS
  <2> HIDE DEF h
  <2>4. FlattenRule(s, h, n)
    BY <2>2, <2>3 DEF FlattenRule
  <2> QED BY <2>4
<1> HIDE DEF S
<1>3. 0 .. Len(s) \subseteq S
  BY <1>1, <1>2, UpTo
<1>4. Len(s) \in S
  BY <1>3
<1> QED BY <1>4 DEF S

\* Flattening gives words, and at least one of each key.
LEMMA FlattenTyped ==
    ASSUME NEW path \in Paths
    PROVE  /\ FlattenSeq(path) \in Seq(STRING)
           /\ path = <<>> => FlattenSeq(path) = <<>>
           /\ path # <<>> => Len(FlattenSeq(path)) > 0
<1>0. Len(path) \in Nat /\ \A i \in 1 .. Len(path) : path[i] \in Seq(STRING) /\ path[i] # <<>>
  BY DEF Paths
<1>1. CASE path = <<>>
  BY <1>1 DEF FlattenSeq
<1>2. CASE path # <<>>
  <2> DEFINE g == CHOOSE f : FlattenRule(path, f, Len(path))
             S == {n \in 0 .. Len(path) : n > 0 => g[n] \in Seq(STRING) /\ Len(g[n]) > 0}
  <2>1. FlattenRule(path, g, Len(path))
    BY <1>0, FlattenExists
  <2>2. FlattenSeq(path) = g[Len(path)]
    BY <1>0, <1>2 DEF FlattenSeq, FlattenRule, Paths
  <2>3. \A n \in 1 .. Len(path) : g[n] = IF n = 1 THEN path[n] ELSE g[n-1] \o path[n]
    <3> HIDE DEF g
    <3> QED BY <2>1 DEF FlattenRule
  <2> HIDE DEF g
  <2>4. 0 \in S
    BY <1>0
  <2>5. ASSUME NEW n \in 1 .. Len(path), n - 1 \in S PROVE n \in S
    <3>1. path[n] \in Seq(STRING) /\ path[n] # <<>> /\ Len(path[n]) > 0
      BY <1>0
    <3>2. CASE n = 1
      BY <2>3, <3>1, <3>2
    <3>3. CASE n > 1
      <4>1. g[n-1] \in Seq(STRING) /\ Len(g[n-1]) > 0
        BY <2>5, <3>3
      <4>2. g[n] = g[n-1] \o path[n]
        <5>1. n # 1
          BY <1>0, <3>3
        <5>2. g[n] = IF n = 1 THEN path[n] ELSE g[n-1] \o path[n]
          BY <2>3
        <5> QED BY <5>1, <5>2, Zenon
      <4>3. g[n] \in Seq(STRING) /\ Len(g[n]) > 0
        BY <3>1, <4>1, <4>2, ConcatLonger
      <4> QED BY <1>0, <4>3
    <3> QED BY <1>0, <3>2, <3>3
  <2> HIDE DEF S
  <2>6. 0 .. Len(path) \subseteq S
    BY <1>0, <2>4, <2>5, UpTo
  <2>7. Len(path) \in S /\ Len(path) > 0
    BY <1>0, <1>2, <2>6 DEF Paths
  <2> QED BY <1>2, <2>2, <2>7 DEF S
<1> QED BY <1>1, <1>2

\* A flat name is the name and more, but for a tensor by itself.
LEMMA FlatNameTyped ==
    ASSUME NEW name \in Seq(STRING), NEW path \in Paths
    PROVE  /\ FlatName(name, path) \in Seq(STRING)
           /\ path = <<>> => FlatName(name, path) = name
           /\ path # <<>> => Len(FlatName(name, path)) > Len(name)
<1>1. FlattenSeq(path) \in Seq(STRING)
  BY FlattenTyped
<1>2. path # <<>> => Len(FlattenSeq(path)) > 0
  BY FlattenTyped
<1>3. path = <<>> => FlattenSeq(path) = <<>>
  BY FlattenTyped
<1>4. CASE path = <<>>
  <2>1. name \o <<>> = name
    OBVIOUS
  <2> QED BY <1>3, <1>4, <2>1 DEF FlatName
<1>5. CASE path # <<>>
  BY <1>1, <1>2, <1>5, ConcatLonger DEF FlatName
<1> QED BY <1>4, <1>5

-----------------------------------------------------------------------------
(* Descriptions                                                            *)

\* STRING, with the suffixes of a rename, which the provers do not place in it.
Words == STRING \cup {"in", "out"}

LEMMA NameInWords == ASSUME NEW x \in Seq(STRING) PROVE x \in Seq(Words)
<1>1. x = [i \in 1 .. Len(x) |-> x[i]] /\ Len(x) \in Nat
  OBVIOUS
<1>2. \A i \in 1 .. Len(x) : x[i] \in Words
  BY DEF Words
<1> QED BY <1>1, <1>2

Values == (Nat \X Nat \X Paths) \cup {Zeros}
Descs == [name : Seq(Words), port : Seq(STRING), value : Values,
          cached : [1 .. MaxCache -> Values]]
Formats == [name : Seq(STRING), paths : Seq(Paths), at : Seq(Nat)]
Ios == [list : Seq(Descs), formats : Seq(Formats), raised : BOOLEAN]

\* Something passed or returned under one name.
IsGiven(v) ==
    /\ v.name \in Seq(STRING) /\ v.paths \in Seq(Paths) /\ v.foreign \in BOOLEAN
    /\ \A i \in 1 .. Len(v.paths) : v.value[v.paths[i]] \in Values

LEMMA DescribeTyped ==
    ASSUME NEW v, IsGiven(v)
    PROVE  /\ Describe(v.name, v.paths, v.value) \in Seq(Descs)
           /\ Len(Describe(v.name, v.paths, v.value)) = Len(v.paths)
           /\ \A i \in 1 .. Len(v.paths) :
                 LET d == Describe(v.name, v.paths, v.value)[i]
                 IN  d.name = FlatName(v.name, v.paths[i]) /\ d.value = v.value[v.paths[i]]
<1> DEFINE D(i) == [name   |-> FlatName(v.name, v.paths[i]),
                    port   |-> FlatName(v.name, v.paths[i]),
                    value  |-> v.value[v.paths[i]],
                    cached |-> [k \in 1 .. MaxCache |-> Zeros]]
<1>0. DOMAIN v.paths = 1 .. Len(v.paths) /\ Len(v.paths) \in Nat
  BY DEF IsGiven
<1>1. Describe(v.name, v.paths, v.value) = [i \in 1 .. Len(v.paths) |-> D(i)]
  BY <1>0 DEF Describe
<1>2. ASSUME NEW i \in 1 .. Len(v.paths) PROVE D(i) \in Descs
  <2>1. FlatName(v.name, v.paths[i]) \in Seq(STRING)
    <3>1. v.name \in Seq(STRING) /\ v.paths[i] \in Paths
      BY <1>0 DEF IsGiven
    <3> QED BY <3>1, FlatNameTyped
  <2>2. v.value[v.paths[i]] \in Values /\ Zeros \in Values
    BY DEF IsGiven, Values
  <2>3. FlatName(v.name, v.paths[i]) \in Seq(Words)
    BY <2>1, NameInWords
  <2> QED BY <2>1, <2>2, <2>3 DEF Descs
<1>3. \A i \in 1 .. Len(v.paths) :
         D(i).name = FlatName(v.name, v.paths[i]) /\ D(i).value = v.value[v.paths[i]]
  OBVIOUS
<1> HIDE DEF D
<1>4. Describe(v.name, v.paths, v.value) \in Seq(Descs)
  BY <1>0, <1>1, <1>2
<1>5. Len(Describe(v.name, v.paths, v.value)) = Len(v.paths)
  BY <1>0, <1>1
<1> QED BY <1>1, <1>3, <1>4, <1>5

\* r is io with v added to its end, under names it did not have.
Extended(io, v, r) ==
    /\ ~r.raised
    /\ Len(r.list) = Len(io.list) + Len(v.paths)
    /\ \A i \in 1 .. Len(v.paths) :
          /\ r.list[Len(io.list) + i].name = FlatName(v.name, v.paths[i])
          /\ r.list[Len(io.list) + i].value = v.value[v.paths[i]]
          /\ \A m \in 1 .. Len(io.list) : io.list[m].name # FlatName(v.name, v.paths[i])
          /\ \A j \in 1 .. i - 1 : FlatName(v.name, v.paths[j]) # FlatName(v.name, v.paths[i])
    /\ r.formats = Append(io.formats,
                          [name |-> v.name, paths |-> v.paths,
                           at |-> [i \in 1 .. Len(v.paths) |-> Len(io.list) + i]])

\* r has the descriptions of io and perhaps more.
Longer(io, r) ==
    /\ Len(r.list) >= Len(io.list)
    /\ \A m \in 1 .. Len(io.list) : r.list[m] = io.list[m]

LEMMA AddLeaves ==
    ASSUME NEW io \in Ios, NEW v, IsGiven(v), ~io.raised
    PROVE  /\ Add(io, v.name, v.paths, v.value) \in Ios
           /\ Longer(io, Add(io, v.name, v.paths, v.value))
           /\ \/ /\ Add(io, v.name, v.paths, v.value).raised
                 /\ Add(io, v.name, v.paths, v.value).formats = io.formats
              \/ Extended(io, v, Add(io, v.name, v.paths, v.value))
<1> DEFINE descs == Describe(v.name, v.paths, v.value)
           r     == Add(io, v.name, v.paths, v.value)
           taken == {i \in DOMAIN descs : Taken(io.list, descs, i)}
           new   == [name |-> v.name, paths |-> v.paths,
                     at |-> [i \in 1 .. Len(v.paths) |-> Len(io.list) + i]]
           n     == Len(v.paths)
<1>0. /\ io.list \in Seq(Descs) /\ io.formats \in Seq(Formats) /\ Len(io.list) \in Nat
      /\ v.paths \in Seq(Paths) /\ DOMAIN v.paths = 1 .. Len(v.paths) /\ Len(v.paths) \in Nat
      /\ v.name \in Seq(STRING)
  BY DEF Ios, IsGiven
<1>1. descs \in Seq(Descs) /\ Len(descs) = n /\ DOMAIN descs = 1 .. n
  BY DescribeTyped
<1>2. \A i \in 1 .. n : descs[i].name = FlatName(v.name, v.paths[i])
                        /\ descs[i].value = v.value[v.paths[i]]
  BY DescribeTyped
<1>3. CASE taken = {}
  <2>1. r = [io EXCEPT !.list = io.list \o descs, !.formats = Append(io.formats, new)]
    BY <1>0, <1>3 DEF Add
  <2>2. new \in Formats
    BY <1>0 DEF Formats
  <2> HIDE DEF descs, new, r
  <2>3. io.list \o descs \in Seq(Descs) /\ Append(io.formats, new) \in Seq(Formats)
    BY <1>0, <1>1, <2>2
  <2>4. r \in Ios /\ r.list = io.list \o descs /\ r.formats = Append(io.formats, new)
        /\ r.raised = io.raised
    BY <2>1, <2>3 DEF Ios
  <2>5. /\ Len(r.list) = Len(io.list) + n
        /\ \A m \in 1 .. Len(io.list) : r.list[m] = io.list[m]
        /\ \A i \in 1 .. n : r.list[Len(io.list) + i] = descs[i]
    <3> DEFINE l == io.list \o descs
    <3>1. io.list \in Seq(Descs) /\ descs \in Seq(Descs)
      BY <1>0, <1>1
    <3>2. Len(l) = Len(io.list) + Len(descs)
      BY <3>1, ConcatParts
    <3>3. \A m \in 1 .. Len(io.list) : l[m] = io.list[m]
      BY <3>1, ConcatParts
    <3>4. \A i \in 1 .. Len(descs) : l[Len(io.list) + i] = descs[i]
      BY <3>1, ConcatParts
    <3>5. r.list = l
      BY <2>4
    <3> HIDE DEF l
    <3> QED BY <1>1, <3>2, <3>3, <3>4, <3>5
  <2>6. ASSUME NEW i \in 1 .. n
        PROVE  /\ \A m \in 1 .. Len(io.list) : io.list[m].name # FlatName(v.name, v.paths[i])
               /\ \A j \in 1 .. i - 1 :
                     FlatName(v.name, v.paths[j]) # FlatName(v.name, v.paths[i])
    <3>1. descs[i].name \notin NamesOf(io.list) \cup NamesOf(SubSeq(descs, 1, i - 1))
      BY <1>1, <1>3 DEF Taken
    <3>2. \A m \in 1 .. Len(io.list) : io.list[m].name # descs[i].name
      BY <1>0, <3>1 DEF NamesOf
    <3>3. SubSeq(descs, 1, i - 1) = [j \in 1 .. i - 1 |-> descs[j]]
      BY <1>1
    <3>4. \A j \in 1 .. i - 1 : descs[j].name # descs[i].name
      BY <3>1, <3>3 DEF NamesOf
    <3>5. \A j \in 1 .. i - 1 : descs[j].name = FlatName(v.name, v.paths[j])
      BY <1>0, <1>2
    <3> QED BY <1>2, <3>2, <3>4, <3>5
  <2>7. Extended(io, v, r)
    BY <1>2, <2>4, <2>5, <2>6 DEF Extended, new
  <2>8. Longer(io, r)
    <3>1. Len(io.list) + n >= Len(io.list)
      <4>1. Len(io.list) \in Nat /\ n \in Nat
        BY <1>0
      <4> HIDE DEF n
      <4> QED BY <4>1
    <3> QED BY <2>5, <3>1 DEF Longer
  <2> QED BY <2>4, <2>7, <2>8 DEF r
<1>4. CASE taken # {}
  <2> DEFINE k == Min(taken)
  <2>1. r = [io EXCEPT !.list = io.list \o SubSeq(descs, 1, k - 1), !.raised = TRUE]
    BY <1>4 DEF Add
  <2>2. k \in 1 .. n
    <3>1. taken \subseteq 1 .. n /\ taken \subseteq Nat
      BY <1>0, <1>1
    <3> HIDE DEF taken
    <3> QED BY <1>4, <3>1, MinIn
  <2> HIDE DEF descs, r, k
  <2>3. SubSeq(descs, 1, k - 1) \in Seq(Descs)
    BY <1>0, <1>1, <2>2
  <2>4. io.list \o SubSeq(descs, 1, k - 1) \in Seq(Descs)
    BY <1>0, <2>3
  <2>5. r \in Ios /\ r.raised /\ r.formats = io.formats
        /\ r.list = io.list \o SubSeq(descs, 1, k - 1)
    BY <2>1, <2>4 DEF Ios
  <2>6. Longer(io, r)
    <3> DEFINE l == io.list \o SubSeq(descs, 1, k - 1)
    <3>1. io.list \in Seq(Descs) /\ SubSeq(descs, 1, k - 1) \in Seq(Descs)
      BY <1>0, <2>3
    <3>2. Len(l) >= Len(io.list)
      BY <3>1, ConcatParts
    <3>3. \A m \in 1 .. Len(io.list) : l[m] = io.list[m]
      BY <3>1, ConcatParts
    <3>4. r.list = l
      BY <2>5
    <3> HIDE DEF l
    <3> QED BY <3>2, <3>3, <3>4 DEF Longer
  <2> QED BY <2>5, <2>6 DEF r
<1> QED BY <1>3, <1>4

-----------------------------------------------------------------------------
(* Capturing an interface                                                  *)

\* Where leaf i of structure p is described.
At(io, p, i) == io.formats[p].at[i]

\* The structures called names[p], of the leaves shape[p], in order.
Interface(io, names, shape, n) ==
    /\ Len(io.formats) = n
    /\ \A p \in 1 .. n :
          /\ io.formats[p].name = names[p] /\ io.formats[p].paths = shape[p]
          /\ DOMAIN io.formats[p].at = 1 .. Len(shape[p])
    /\ \A p \in 1 .. n : \A i \in 1 .. Len(shape[p]) : At(io, p, i) \in 1 .. Len(io.list)
    /\ \A m \in 1 .. Len(io.list) :
          \E p \in 1 .. n : \E i \in 1 .. Len(shape[p]) : At(io, p, i) = m
    /\ \A p, q \in 1 .. n : \A i \in 1 .. Len(shape[p]) : \A j \in 1 .. Len(shape[q]) :
          p < q \/ (p = q /\ i < j) => At(io, p, i) < At(io, q, j)

Named(io, names, shape, n) ==
    \A p \in 1 .. n : \A i \in 1 .. Len(shape[p]) :
        io.list[At(io, p, i)].name = FlatName(names[p], shape[p][i])

Holds(io, value, shape, n) ==
    \A p \in 1 .. n : \A i \in 1 .. Len(shape[p]) :
        io.list[At(io, p, i)].value = value[p][shape[p][i]]

Distinct(io) ==
    \A l, m \in 1 .. Len(io.list) : io.list[l].name = io.list[m].name => l = m

Captured(io, names, shape, value, n) ==
    /\ Interface(io, names, shape, n) /\ Named(io, names, shape, n)
    /\ Holds(io, value, shape, n) /\ Distinct(io)

\* The positions in the formats are those of descriptions.
Placed(io) ==
    \A p \in 1 .. Len(io.formats) : \A i \in DOMAIN io.formats[p].at :
        At(io, p, i) \in 1 .. Len(io.list)

LEMMA NothingCaptured ==
    ASSUME NEW names, NEW shape, NEW value
    PROVE  Empty \in Ios /\ Placed(Empty) /\ Captured(Empty, names, shape, value, 0)
<1>1. Empty.list = <<>> /\ Empty.formats = <<>> /\ Empty.raised = FALSE
  BY DEF Empty
<1>2. Empty \in Ios
  BY DEF Empty, Ios
<1>3. Len(Empty.list) = 0 /\ Len(Empty.formats) = 0
  BY <1>1
<1> HIDE DEF Empty
<1> QED BY <1>2, <1>3
        DEF Placed, Captured, Interface, Named, Holds, Distinct

LEMMA FormatsOf ==
    ASSUME NEW io \in Ios, NEW v, IsGiven(v), NEW r \in Ios, Extended(io, v, r)
    PROVE  /\ Len(r.formats) = Len(io.formats) + 1
           /\ \A p \in 1 .. Len(io.formats) : r.formats[p] = io.formats[p]
           /\ r.formats[Len(io.formats) + 1].name = v.name
           /\ r.formats[Len(io.formats) + 1].paths = v.paths
           /\ DOMAIN r.formats[Len(io.formats) + 1].at = 1 .. Len(v.paths)
           /\ \A i \in 1 .. Len(v.paths) :
                 r.formats[Len(io.formats) + 1].at[i] = Len(io.list) + i
<1> DEFINE new == [name |-> v.name, paths |-> v.paths,
                   at |-> [i \in 1 .. Len(v.paths) |-> Len(io.list) + i]]
<1>1. io.formats \in Seq(Formats) /\ Len(io.formats) \in Nat
  BY DEF Ios
<1>2. new \in Formats
  <2>1. Len(io.list) \in Nat /\ v.paths \in Seq(Paths) /\ Len(v.paths) \in Nat
    BY DEF Ios, IsGiven
  <2>2. [i \in 1 .. Len(v.paths) |-> Len(io.list) + i] \in Seq(Nat)
    BY <2>1
  <2> QED BY <2>1, <2>2 DEF Formats, IsGiven
<1>3. /\ new.name = v.name /\ new.paths = v.paths
      /\ DOMAIN new.at = 1 .. Len(v.paths)
      /\ \A i \in 1 .. Len(v.paths) : new.at[i] = Len(io.list) + i
  OBVIOUS
<1>4. r.formats = Append(io.formats, new)
  BY DEF Extended
<1> HIDE DEF new
<1>5. /\ Len(r.formats) = Len(io.formats) + 1
      /\ r.formats[Len(io.formats) + 1] = new
  BY <1>1, <1>2, <1>4
<1>6. \A p \in 1 .. Len(io.formats) : r.formats[p] = io.formats[p]
  BY <1>1, <1>2, <1>4
<1> QED BY <1>3, <1>5, <1>6

\* One more structure.
LEMMA OneMore ==
    ASSUME NEW io \in Ios, NEW v, IsGiven(v), NEW r \in Ios, Extended(io, v, r), Longer(io, r),
           NEW names, NEW shape, NEW value, NEW n \in Nat, n > 0,
           v.name = names[n], v.paths = shape[n], v.value = value[n],
           Captured(io, names, shape, value, n - 1)
    PROVE  Captured(r, names, shape, value, n)
<1> DEFINE k == Len(io.list)
<1>0. k \in Nat /\ Len(shape[n]) \in Nat /\ Len(io.formats) = n - 1
  BY DEF Ios, IsGiven, Captured, Interface
<1>1. /\ Len(r.formats) = n
      /\ \A p \in 1 .. n - 1 : r.formats[p] = io.formats[p]
      /\ r.formats[n].name = names[n] /\ r.formats[n].paths = shape[n]
      /\ DOMAIN r.formats[n].at = 1 .. Len(shape[n])
      /\ \A i \in 1 .. Len(shape[n]) : At(r, n, i) = k + i
  BY <1>0, FormatsOf DEF At
<1>2. /\ Len(r.list) = k + Len(shape[n])
      /\ \A m \in 1 .. k : r.list[m] = io.list[m]
      /\ \A i \in 1 .. Len(shape[n]) :
            /\ r.list[k + i].name = FlatName(names[n], shape[n][i])
            /\ r.list[k + i].value = value[n][shape[n][i]]
            /\ \A m \in 1 .. k : io.list[m].name # FlatName(names[n], shape[n][i])
            /\ \A j \in 1 .. i - 1 : FlatName(names[n], shape[n][j])
                                      # FlatName(names[n], shape[n][i])
  BY DEF Extended, Longer
<1>3. /\ \A p \in 1 .. n - 1 :
            /\ io.formats[p].name = names[p] /\ io.formats[p].paths = shape[p]
            /\ DOMAIN io.formats[p].at = 1 .. Len(shape[p])
      /\ \A p \in 1 .. n - 1 : \A i \in 1 .. Len(shape[p]) : At(io, p, i) \in 1 .. k
      /\ \A m \in 1 .. k :
            \E p \in 1 .. n - 1 : \E i \in 1 .. Len(shape[p]) : At(io, p, i) = m
      /\ \A p, q \in 1 .. n - 1 :
            \A i \in 1 .. Len(shape[p]) : \A j \in 1 .. Len(shape[q]) :
               p < q \/ (p = q /\ i < j) => At(io, p, i) < At(io, q, j)
  BY DEF Captured, Interface
<1>4. \A p \in 1 .. n - 1 : \A i : At(r, p, i) = At(io, p, i)
  BY <1>1 DEF At
<1>5. \A p \in 1 .. n : p \in 1 .. n - 1 \/ p = n
  OBVIOUS
<1> HIDE DEF k
<1>6. Interface(r, names, shape, n)
  <2>1. \A p \in 1 .. n :
           /\ r.formats[p].name = names[p] /\ r.formats[p].paths = shape[p]
           /\ DOMAIN r.formats[p].at = 1 .. Len(shape[p])
    BY <1>1, <1>3, <1>5
  <2>2. \A p \in 1 .. n : \A i \in 1 .. Len(shape[p]) : At(r, p, i) \in 1 .. Len(r.list)
    <3>1. \A i \in 1 .. Len(shape[n]) : At(r, n, i) \in 1 .. Len(r.list)
      BY <1>0, <1>1, <1>2
    <3>2. \A p \in 1 .. n - 1 : \A i \in 1 .. Len(shape[p]) : At(r, p, i) \in 1 .. Len(r.list)
      BY <1>0, <1>2, <1>3, <1>4
    <3> QED BY <1>5, <3>1, <3>2
  <2>3. ASSUME NEW m \in 1 .. Len(r.list)
        PROVE  \E p \in 1 .. n : \E i \in 1 .. Len(shape[p]) : At(r, p, i) = m
    <3>1. CASE m \in 1 .. k
      <4>1. PICK p \in 1 .. n - 1 : \E i \in 1 .. Len(shape[p]) : At(io, p, i) = m
        BY <1>3, <3>1
      <4>2. p \in 1 .. n
        OBVIOUS
      <4> QED BY <1>4, <4>1, <4>2
    <3>2. CASE m \notin 1 .. k
      <4>1. m - k \in 1 .. Len(shape[n]) /\ k + (m - k) = m /\ n \in 1 .. n
        BY <1>0, <1>2, <3>2
      <4>2. At(r, n, m - k) = m
        BY <1>1, <4>1
      <4> QED BY <4>1, <4>2
    <3> QED BY <3>1, <3>2
  <2>4. ASSUME NEW p \in 1 .. n, NEW q \in 1 .. n,
               NEW i \in 1 .. Len(shape[p]), NEW j \in 1 .. Len(shape[q]),
               p < q \/ (p = q /\ i < j)
        PROVE  At(r, p, i) < At(r, q, j)
    <3>1. CASE q \in 1 .. n - 1
      <4>1. p \in 1 .. n - 1
        BY <2>4, <3>1
      <4> QED BY <1>3, <1>4, <2>4, <3>1, <4>1
    <3>2. CASE q = n /\ p \in 1 .. n - 1
      <4>1. At(r, p, i) \in 1 .. k /\ At(r, q, j) = k + j
        BY <1>1, <1>3, <1>4, <3>2
      <4> QED BY <1>0, <3>2, <4>1
    <3>3. CASE q = n /\ p = n
      <4>1. At(r, p, i) = k + i /\ At(r, q, j) = k + j /\ i < j
        BY <1>1, <2>4, <3>3
      <4> QED BY <1>0, <3>3, <4>1
    <3> QED BY <1>5, <3>1, <3>2, <3>3
  <2> QED BY <1>1, <2>1, <2>2, <2>3, <2>4 DEF Interface
<1>7. ASSUME NEW p \in 1 .. n - 1, NEW i \in 1 .. Len(shape[p])
       PROVE  r.list[At(r, p, i)] = io.list[At(io, p, i)]
  <2>1. At(io, p, i) \in 1 .. k /\ At(r, p, i) = At(io, p, i)
    BY <1>3, <1>4
  <2> QED BY <1>2, <2>1
<1>8. Named(r, names, shape, n)
  <2>1. \A p \in 1 .. n - 1 : \A i \in 1 .. Len(shape[p]) :
           r.list[At(r, p, i)].name = FlatName(names[p], shape[p][i])
    BY <1>7 DEF Captured, Named
  <2>2. \A i \in 1 .. Len(shape[n]) :
           r.list[At(r, n, i)].name = FlatName(names[n], shape[n][i])
    BY <1>1, <1>2
  <2> QED BY <1>5, <2>1, <2>2 DEF Named
<1>9. Holds(r, value, shape, n)
  <2>1. \A p \in 1 .. n - 1 : \A i \in 1 .. Len(shape[p]) :
           r.list[At(r, p, i)].value = value[p][shape[p][i]]
    BY <1>7 DEF Captured, Holds
  <2>2. \A i \in 1 .. Len(shape[n]) : r.list[At(r, n, i)].value = value[n][shape[n][i]]
    BY <1>1, <1>2
  <2> QED BY <1>5, <2>1, <2>2 DEF Holds
<1>10. Distinct(r)
  <2>1. ASSUME NEW l \in 1 .. Len(r.list), NEW m \in 1 .. Len(r.list), l < m
        PROVE  r.list[l].name # r.list[m].name
    <3>1. CASE m \in 1 .. k
      <4>1. l \in 1 .. k
        BY <1>0, <2>1, <3>1
      <4>2. io.list[l].name # io.list[m].name
        BY <1>0, <2>1, <3>1, <4>1 DEF Captured, Distinct, k
      <4> QED BY <1>2, <3>1, <4>1, <4>2
    <3>2. CASE m \notin 1 .. k
      <4>1. m - k \in 1 .. Len(shape[n]) /\ k + (m - k) = m
        BY <1>0, <1>2, <3>2
      <4>2. r.list[m].name = FlatName(names[n], shape[n][m - k])
        BY <1>2, <4>1
      <4>3. CASE l \in 1 .. k
        <5>1. r.list[l].name = io.list[l].name
          BY <1>2, <4>3
        <5>2. io.list[l].name # FlatName(names[n], shape[n][m - k])
          BY <1>2, <4>1, <4>3
        <5> QED BY <4>2, <5>1, <5>2
      <4>4. CASE l \notin 1 .. k
        <5>1. l - k \in 1 .. Len(shape[n]) /\ k + (l - k) = l /\ l - k \in 1 .. (m - k) - 1
          BY <1>0, <1>2, <2>1, <4>4
        <5>2. r.list[l].name = FlatName(names[n], shape[n][l - k])
          BY <1>2, <5>1
        <5>3. FlatName(names[n], shape[n][l - k]) # FlatName(names[n], shape[n][m - k])
          BY <1>2, <4>1, <5>1
        <5> QED BY <4>2, <5>2, <5>3
      <4> QED BY <4>3, <4>4
    <3> QED BY <3>1, <3>2
  <2>2. Len(r.list) \in Nat
    BY <1>0, <1>2
  <2> QED
    <3> SUFFICES ASSUME NEW l \in 1 .. Len(r.list), NEW m \in 1 .. Len(r.list), l # m
                 PROVE  r.list[l].name # r.list[m].name
      BY DEF Distinct
    <3>1. l < m \/ m < l
      BY <2>2
    <3> QED BY <2>1, <3>1
<1> QED BY <1>6, <1>8, <1>9, <1>10 DEF Captured

-----------------------------------------------------------------------------
(* Recording one after the other                                           *)

RecordRule(io, values, slot, f, n) ==
    f = [k \in 0 .. n |-> IF k = 0 THEN io ELSE RecordOne(f[k-1], values[k], slot)]

RecordTrail(io, values, slot) == CHOOSE f : RecordRule(io, values, slot, f, Len(values))

LEMMA RecordExists ==
    ASSUME NEW io, NEW values, Len(values) \in Nat, NEW slot
    PROVE  \E f : RecordRule(io, values, slot, f, Len(values))
<1> DEFINE S == {n \in 0 .. Len(values) : \E f : RecordRule(io, values, slot, f, n)}
<1>1. 0 \in S
  <2>1. RecordRule(io, values, slot, [k \in 0 .. 0 |-> io], 0)
    BY DEF RecordRule
  <2> QED BY <2>1
<1>2. ASSUME NEW n \in 1 .. Len(values), n - 1 \in S PROVE n \in S
  <2>1. PICK f : RecordRule(io, values, slot, f, n - 1)
    BY <1>2
  <2> DEFINE h == [k \in 0 .. n |-> IF k < n THEN f[k] ELSE RecordOne(f[n-1], values[n], slot)]
  <2>2. \A k \in 0 .. n : h[k] = IF k = 0 THEN io ELSE RecordOne(h[k-1], values[k], slot)
    <3> SUFFICES ASSUME NEW k \in 0 .. n
                 PROVE  h[k] = IF k = 0 THEN io ELSE RecordOne(h[k-1], values[k], slot)
      OBVIOUS
    <3>1. CASE k < n
      <4>1. h[k] = f[k] /\ (k > 0 => h[k-1] = f[k-1])
        BY <3>1
      <4>2. f[k] = IF k = 0 THEN io ELSE RecordOne(f[k-1], values[k], slot)
        BY <2>1, <3>1 DEF RecordRule
      <4> HIDE DEF h
      <4> QED BY <4>1, <4>2
    <3>2. CASE k = n
      <4>1. h[n] = RecordOne(f[n-1], values[n], slot) /\ h[n-1] = f[n-1]
        OBVIOUS
      <4> HIDE DEF h
      <4> QED BY <3>2, <4>1
    <3> QED BY <3>1, <3>2
  <2>3. h = [k \in 0 .. n |-> h[k]]
    OBVIOUS
  <2> HIDE DEF h
  <2>4. RecordRule(io, values, slot, h, n)
    BY <2>2, <2>3 DEF RecordRule
  <2> QED BY <2>4
<1> HIDE DEF S
<1>3. 0 .. Len(values) \subseteq S
  BY <1>1, <1>2, UpTo
<1>4. Len(values) \in S
  BY <1>3
<1> QED BY <1>4 DEF S

LEMMA RecordedDef ==
    ASSUME NEW io, NEW values, Len(values) \in Nat, NEW slot
    PROVE  /\ RecordTrail(io, values, slot)[0] = io
           /\ \A k \in 1 .. Len(values) :
                 RecordTrail(io, values, slot)[k]
                    = RecordOne(RecordTrail(io, values, slot)[k-1], values[k], slot)
           /\ Recorded(io, values, slot) = RecordTrail(io, values, slot)[Len(values)]
<1>1. RecordRule(io, values, slot, RecordTrail(io, values, slot), Len(values))
  BY RecordExists DEF RecordTrail
<1>2. Recorded(io, values, slot) = RecordTrail(io, values, slot)[Len(values)]
  BY DEF Recorded, RecordTrail, RecordRule
<1> HIDE DEF RecordTrail
<1> QED BY <1>1, <1>2 DEF RecordRule

LEMMA PlacedLonger ==
    ASSUME NEW io \in Ios, Placed(io), NEW r \in Ios, Longer(io, r),
           NEW v, IsGiven(v), r.formats = io.formats \/ Extended(io, v, r)
    PROVE  Placed(r)
<1>0. /\ Len(io.list) \in Nat /\ Len(r.list) \in Nat /\ Len(io.list) =< Len(r.list)
      /\ Len(io.formats) \in Nat /\ Len(v.paths) \in Nat
  BY DEF Ios, Longer, IsGiven
<1>1. CASE r.formats = io.formats
  BY <1>0, <1>1 DEF Placed, At
<1>2. CASE Extended(io, v, r)
  <2>1. /\ Len(r.formats) = Len(io.formats) + 1
        /\ \A p \in 1 .. Len(io.formats) : r.formats[p] = io.formats[p]
        /\ DOMAIN r.formats[Len(io.formats) + 1].at = 1 .. Len(v.paths)
        /\ \A i \in 1 .. Len(v.paths) :
              r.formats[Len(io.formats) + 1].at[i] = Len(io.list) + i
    BY <1>2, FormatsOf
  <2>2. Len(r.list) = Len(io.list) + Len(v.paths)
    BY <1>2 DEF Extended
  <2>3. ASSUME NEW p \in 1 .. Len(r.formats), NEW i \in DOMAIN r.formats[p].at
        PROVE  At(r, p, i) \in 1 .. Len(r.list)
    <3>1. CASE p \in 1 .. Len(io.formats)
      <4>1. At(r, p, i) = At(io, p, i) /\ i \in DOMAIN io.formats[p].at
        BY <2>1, <2>3, <3>1 DEF At
      <4>2. At(io, p, i) \in 1 .. Len(io.list)
        BY <3>1, <4>1 DEF Placed
      <4> QED BY <1>0, <4>1, <4>2
    <3>2. CASE p = Len(io.formats) + 1
      <4>1. i \in 1 .. Len(v.paths) /\ At(r, p, i) = Len(io.list) + i
        BY <2>1, <2>3, <3>2 DEF At
      <4> DEFINE a == Len(io.list)
                 b == Len(v.paths)
      <4>2. a \in Nat /\ b \in Nat /\ i \in 1 .. b /\ At(r, p, i) = a + i /\ Len(r.list) = a + b
        BY <1>0, <2>2, <4>1
      <4> HIDE DEF a, b
      <4> QED BY <4>2
    <3> QED BY <1>0, <2>1, <3>1, <3>2
  <2> QED BY <2>3 DEF Placed
<1> QED BY <1>1, <1>2

\* What is passed or returned in a call, by position.
Givens(vs, names, shape, value) ==
    /\ Len(vs) \in Nat
    /\ \A p \in 1 .. Len(vs) :
          /\ IsGiven(vs[p])
          /\ vs[p].name = names[p] /\ vs[p].paths = shape[p] /\ vs[p].value = value[p]

LEMMA CaptureAll ==
    ASSUME NEW vs, NEW names, NEW shape, NEW value, Givens(vs, names, shape, value)
    PROVE  /\ Recorded(Empty, vs, 0) \in Ios /\ Placed(Recorded(Empty, vs, 0))
           /\ ~Recorded(Empty, vs, 0).raised =>
                 Captured(Recorded(Empty, vs, 0), names, shape, value, Len(vs))
<1> DEFINE T == RecordTrail(Empty, vs, 0)
           S == {k \in 0 .. Len(vs) :
                    /\ T[k] \in Ios /\ Placed(T[k])
                    /\ ~T[k].raised => Captured(T[k], names, shape, value, k)}
<1>0. Len(vs) \in Nat
  BY DEF Givens
<1>1. T[0] = Empty /\ \A k \in 1 .. Len(vs) : T[k] = RecordOne(T[k-1], vs[k], 0)
  BY <1>0, RecordedDef
<1>2. Recorded(Empty, vs, 0) = T[Len(vs)]
  BY <1>0, RecordedDef
<1> HIDE DEF T
<1>3. 0 \in S
  BY <1>0, <1>1, NothingCaptured
<1>4. ASSUME NEW k \in 1 .. Len(vs), k - 1 \in S PROVE k \in S
  <2> DEFINE io == T[k-1]
             v  == vs[k]
  <2>1. io \in Ios /\ Placed(io) /\ (~io.raised => Captured(io, names, shape, value, k - 1))
    BY <1>4
  <2>2. IsGiven(v) /\ v.name = names[k] /\ v.paths = shape[k] /\ v.value = value[k]
    BY DEF Givens
  <2>3. T[k] = RecordOne(io, v, 0)
    BY <1>1
  <2>4. k \in 0 .. Len(vs) /\ k \in Nat /\ k > 0
    BY <1>0
  <2> HIDE DEF io, v
  <2>5. CASE io.raised
    <3>1. T[k] = io
      BY <2>3, <2>5 DEF RecordOne
    <3> QED BY <2>1, <2>4, <2>5, <3>1
  <2>6. CASE ~io.raised /\ v.foreign
    <3>1. T[k] = [io EXCEPT !.raised = TRUE]
      BY <2>3, <2>6 DEF RecordOne
    <3>2. T[k] \in Ios /\ T[k].raised /\ T[k].list = io.list /\ T[k].formats = io.formats
      BY <2>1, <3>1 DEF Ios
    <3>3. Placed(T[k])
      BY <2>1, <3>2 DEF Placed, At
    <3> QED BY <2>4, <3>2, <3>3
  <2>7. CASE ~io.raised /\ ~v.foreign
    <3> DEFINE r == Add(io, v.name, v.paths, v.value)
    <3>1. T[k] = r
      BY <2>3, <2>7 DEF RecordOne
    <3>2. /\ r \in Ios /\ Longer(io, r)
          /\ (r.raised /\ r.formats = io.formats) \/ Extended(io, v, r)
      BY <2>1, <2>2, <2>7, AddLeaves
    <3> HIDE DEF r
    <3>3. Placed(r)
      BY <2>1, <2>2, <3>2, PlacedLonger
    <3>4. ASSUME ~r.raised PROVE Captured(r, names, shape, value, k)
      <4>1. Extended(io, v, r)
        BY <3>2, <3>4
      <4> QED BY <2>1, <2>2, <2>4, <2>7, <3>2, <4>1, OneMore
    <3> QED BY <2>4, <3>1, <3>2, <3>3, <3>4
  <2> QED BY <2>5, <2>6, <2>7
<1> HIDE DEF S
<1>5. 0 .. Len(vs) \subseteq S
  BY <1>0, <1>3, <1>4, UpTo
<1>6. Len(vs) \in S
  BY <1>0, <1>5
<1> QED BY <1>2, <1>6 DEF S

-----------------------------------------------------------------------------
(* Storing a sample                                                        *)

\* r is io but for what its descriptions hold in one slot.
Kept(io, r, slot) ==
    /\ Len(r.list) = Len(io.list) /\ r.formats = io.formats
    /\ \A m \in 1 .. Len(io.list) :
          /\ r.list[m].name = io.list[m].name /\ r.list[m].port = io.list[m].port
          /\ r.list[m].value = io.list[m].value
          /\ \A k \in 1 .. MaxCache : k # slot => r.list[m].cached[k] = io.list[m].cached[k]

\* The leaf j of v is the only one called like description m.
Alone(io, v, m, j) ==
    \A i \in 1 .. Len(v.paths) : FlatName(v.name, v.paths[i]) = io.list[m].name <=> i = j

\* No leaf of v is called like description m.
Absent(io, v, m) ==
    \A i \in 1 .. Len(v.paths) : FlatName(v.name, v.paths[i]) # io.list[m].name

\* Where one leaf of v is called like a description, r holds it in the slot.
Writes(io, r, v, slot) ==
    \A m \in 1 .. Len(io.list) : \A j \in 1 .. Len(v.paths) :
        Alone(io, v, m, j) => r.list[m].cached[slot] = v.value[v.paths[j]]

LEMMA StoreLeaves ==
    ASSUME NEW io \in Ios, NEW v, IsGiven(v), NEW slot \in Nat, slot > 0
    PROVE  /\ Store(io, v.name, v.paths, v.value, slot) \in Ios
           /\ Kept(io, Store(io, v.name, v.paths, v.value, slot), slot)
           /\ ~Store(io, v.name, v.paths, v.value, slot).raised =>
                 \A i \in 1 .. Len(v.paths) :
                     \E m \in 1 .. Len(io.list) : io.list[m].name = FlatName(v.name, v.paths[i])
           /\ \A m \in 1 .. Len(io.list) : Absent(io, v, m) =>
                 Store(io, v.name, v.paths, v.value, slot).list[m] = io.list[m]
           /\ ~Store(io, v.name, v.paths, v.value, slot).raised /\ slot =< MaxCache =>
                 Writes(io, Store(io, v.name, v.paths, v.value, slot), v, slot)
<1> DEFINE descs   == Describe(v.name, v.paths, v.value)
           unknown == {i \in DOMAIN descs : descs[i].name \notin NamesOf(io.list)}
           stored  == {i \in DOMAIN descs : \A j \in unknown : i < j}
           Of(d)   == {i \in stored : descs[i].name = d.name}
           Written(d) == IF slot > MaxCache \/ Of(d) = {} THEN d
                         ELSE [d EXCEPT !.cached[slot] = descs[Max(Of(d))].value]
           r == Store(io, v.name, v.paths, v.value, slot)
           n == Len(v.paths)
<1>0. /\ io.list \in Seq(Descs) /\ Len(io.list) \in Nat /\ DOMAIN io.list = 1 .. Len(io.list)
      /\ n \in Nat /\ MaxCache \in Int
  BY ProgramAssumption DEF Ios, IsGiven
<1>1. descs \in Seq(Descs) /\ Len(descs) = n /\ DOMAIN descs = 1 .. n
  BY DescribeTyped
<1>2. \A i \in 1 .. n : descs[i].name = FlatName(v.name, v.paths[i])
                        /\ descs[i].value = v.value[v.paths[i]]
  BY DescribeTyped
<1>3. r = [io EXCEPT !.list = [i \in DOMAIN io.list |-> Written(io.list[i])],
                     !.raised = unknown # {}]
  BY DEF Store
<1>4. ASSUME NEW d, Of(d) # {} PROVE Max(Of(d)) \in Of(d)
  <2>1. Of(d) \subseteq 0 .. n
    BY <1>0, <1>1
  <2> HIDE DEF Of
  <2> QED BY <1>0, <1>4, <2>1, MaxIn
<1>5. \A i \in 1 .. n : descs[i].value \in Values
  <2>1. \A i \in 1 .. n : descs[i] \in Descs
    BY <1>1
  <2> QED BY <2>1 DEF Descs
<1>6. ASSUME NEW d \in Descs
      PROVE  /\ Written(d) \in Descs
             /\ Written(d).name = d.name /\ Written(d).port = d.port
             /\ Written(d).value = d.value
             /\ \A k \in 1 .. MaxCache : k # slot => Written(d).cached[k] = d.cached[k]
             /\ Of(d) = {} => Written(d) = d
             /\ Of(d) # {} /\ slot =< MaxCache =>
                   Written(d).cached[slot] = descs[Max(Of(d))].value
  <2>1. CASE slot > MaxCache \/ Of(d) = {}
    <3>1. Written(d) = d
      BY <2>1
    <3> HIDE DEF Written, Of
    <3> QED BY <1>0, <2>1, <3>1
  <2>2. CASE ~(slot > MaxCache \/ Of(d) = {})
    <3> DEFINE x == descs[Max(Of(d))].value
    <3>1. x \in Values
      <4>1. Max(Of(d)) \in Of(d)
        BY <1>4, <2>2
      <4>2. Max(Of(d)) \in 1 .. n
        BY <1>1, <4>1
      <4> HIDE DEF Of, descs
      <4> QED BY <1>5, <4>2
    <3>2. Written(d) = [d EXCEPT !.cached = [d.cached EXCEPT ![slot] = x]]
      BY <2>2
    <3>3. slot \in 1 .. MaxCache /\ ~(Of(d) = {})
      BY <1>0, <2>2
    <3> HIDE DEF Written, Of, x
    <3>4. d.cached \in [1 .. MaxCache -> Values]
      BY DEF Descs
    <3>5. [d.cached EXCEPT ![slot] = x] \in [1 .. MaxCache -> Values]
      BY <3>1, <3>4
    <3>6. /\ [d.cached EXCEPT ![slot] = x][slot] = x
          /\ \A k \in 1 .. MaxCache : k # slot =>
                [d.cached EXCEPT ![slot] = x][k] = d.cached[k]
      BY <3>3, <3>4
    <3>7. /\ Written(d) \in Descs /\ Written(d).name = d.name /\ Written(d).port = d.port
          /\ Written(d).value = d.value
          /\ Written(d).cached = [d.cached EXCEPT ![slot] = x]
      BY <3>2, <3>5 DEF Descs
    <3> QED BY <3>3, <3>6, <3>7 DEF x
  <2> QED BY <2>1, <2>2
<1> HIDE DEF Written
<1>7. \A m \in 1 .. Len(io.list) : io.list[m] \in Descs
  BY <1>0
<1>8. [i \in DOMAIN io.list |-> Written(io.list[i])] \in Seq(Descs)
  <2>1. \A m \in 1 .. Len(io.list) : Written(io.list[m]) \in Descs
    BY <1>6, <1>7
  <2> QED BY <1>0, <2>1
<1>9. /\ r \in Ios /\ r.formats = io.formats
      /\ r.list = [i \in 1 .. Len(io.list) |-> Written(io.list[i])]
      /\ r.raised = (unknown # {})
  <2> HIDE DEF r, unknown
  <2>1. (unknown # {}) \in BOOLEAN
    OBVIOUS
  <2> QED BY <1>0, <1>3, <1>8, <2>1 DEF Ios
<1>10. Len(r.list) = Len(io.list) /\ \A m \in 1 .. Len(io.list) : r.list[m] = Written(io.list[m])
  <2> HIDE DEF r
  <2> QED BY <1>0, <1>9
<1>11. Kept(io, r, slot)
  <2> HIDE DEF r, Of
  <2> QED BY <1>6, <1>7, <1>9, <1>10 DEF Kept
<1>12. ASSUME ~r.raised, NEW i \in 1 .. n
       PROVE  \E m \in 1 .. Len(io.list) : io.list[m].name = FlatName(v.name, v.paths[i])
  <2>1. i \notin unknown
    BY <1>9, <1>12
  <2>2. descs[i].name \in NamesOf(io.list)
    BY <1>1, <2>1
  <2> QED BY <1>0, <1>2, <2>2 DEF NamesOf
<1>13. ASSUME NEW m \in 1 .. Len(io.list), Absent(io, v, m) PROVE r.list[m] = io.list[m]
  <2>1. \A i \in 1 .. n : descs[i].name # io.list[m].name
    BY <1>2, <1>13 DEF Absent
  <2>2. Of(io.list[m]) = {}
    BY <1>1, <2>1
  <2> HIDE DEF Of, r
  <2> QED BY <1>6, <1>7, <1>10, <2>2
<1>14. ASSUME ~r.raised, slot =< MaxCache, NEW m \in 1 .. Len(io.list), NEW j \in 1 .. n,
              Alone(io, v, m, j)
       PROVE  r.list[m].cached[slot] = v.value[v.paths[j]]
  <2>1. unknown = {}
    BY <1>9, <1>14
  <2>2. \A i \in 1 .. n : descs[i].name = io.list[m].name <=> i = j
    BY <1>2, <1>14 DEF Alone
  <2>3. Of(io.list[m]) = {j}
    BY <1>1, <2>1, <2>2
  <2>4. Max(Of(io.list[m])) = j
    BY <1>4, <2>3
  <2> HIDE DEF Of, r, descs, unknown
  <2>5. r.list[m].cached[slot] = descs[j].value
    <3>1. r.list[m] = Written(io.list[m]) /\ io.list[m] \in Descs
      BY <1>7, <1>10
    <3>2. Written(io.list[m]).cached[slot] = descs[Max(Of(io.list[m]))].value
      BY <1>6, <1>14, <2>3, <3>1
    <3> QED BY <2>4, <3>1, <3>2
  <2> QED BY <1>2, <2>5
<1> HIDE DEF r
<1>15. ~r.raised /\ slot =< MaxCache => Writes(io, r, v, slot)
  BY <1>14 DEF Writes
<1> QED BY <1>9, <1>11, <1>12, <1>13, <1>15 DEF r

LEMMA KeptTrans ==
    ASSUME NEW a \in Ios, NEW b \in Ios, NEW c \in Ios, NEW slot, Kept(a, b, slot), Kept(b, c, slot)
    PROVE  Kept(a, c, slot)
<1>1. Len(c.list) = Len(a.list) /\ c.formats = a.formats
  BY DEF Kept
<1>2. ASSUME NEW m \in 1 .. Len(a.list)
      PROVE  /\ c.list[m].name = a.list[m].name /\ c.list[m].port = a.list[m].port
             /\ c.list[m].value = a.list[m].value
             /\ \A k \in 1 .. MaxCache : k # slot => c.list[m].cached[k] = a.list[m].cached[k]
  <2>1. m \in 1 .. Len(b.list)
    BY DEF Kept
  <2> QED BY <2>1 DEF Kept
<1> QED BY <1>1, <1>2 DEF Kept

LEMMA KeptSame == ASSUME NEW a \in Ios, NEW slot PROVE Kept(a, a, slot)
BY DEF Kept

\* No two leaves under one name.
OneName(names, shape, n) ==
    \A p, q \in 1 .. n : \A i \in 1 .. Len(shape[p]) : \A j \in 1 .. Len(shape[q]) :
        FlatName(names[p], shape[p][i]) = FlatName(names[q], shape[q][j]) => p = q /\ i = j

Known(io, names, shape, n) ==
    \A p \in 1 .. n : \A i \in 1 .. Len(shape[p]) :
        \E m \in 1 .. Len(io.list) : io.list[m].name = FlatName(names[p], shape[p][i])

StoredIn(io, r, names, shape, value, slot, n) ==
    \A p \in 1 .. n : \A i \in 1 .. Len(shape[p]) : \A m \in 1 .. Len(io.list) :
        io.list[m].name = FlatName(names[p], shape[p][i])
            => r.list[m].cached[slot] = value[p][shape[p][i]]

LEMMA StoreAll ==
    ASSUME NEW io \in Ios, ~io.raised, NEW slot \in Nat, slot > 0,
           NEW vs, NEW names, NEW shape, NEW value, Givens(vs, names, shape, value)
    PROVE  /\ Recorded(io, vs, slot) \in Ios /\ Kept(io, Recorded(io, vs, slot), slot)
           /\ ~Recorded(io, vs, slot).raised => Known(io, names, shape, Len(vs))
           /\ ~Recorded(io, vs, slot).raised /\ slot =< MaxCache
                  /\ OneName(names, shape, Len(vs)) =>
                StoredIn(io, Recorded(io, vs, slot), names, shape, value, slot, Len(vs))
<1> DEFINE T == RecordTrail(io, vs, slot)
           S == {k \in 0 .. Len(vs) :
                    /\ T[k] \in Ios /\ Kept(io, T[k], slot)
                    /\ ~T[k].raised => Known(io, names, shape, k)
                    /\ ~T[k].raised /\ slot =< MaxCache /\ OneName(names, shape, Len(vs)) =>
                          StoredIn(io, T[k], names, shape, value, slot, k)}
<1>0. Len(vs) \in Nat
  BY DEF Givens
<1>1. T[0] = io /\ \A k \in 1 .. Len(vs) : T[k] = RecordOne(T[k-1], vs[k], slot)
  BY <1>0, RecordedDef
<1>2. Recorded(io, vs, slot) = T[Len(vs)]
  BY <1>0, RecordedDef
<1> HIDE DEF T
<1>3. 0 \in S
  <2>1. Kept(io, io, slot)
    BY KeptSame
  <2> QED BY <1>0, <1>1, <2>1 DEF Known, StoredIn
<1>4. ASSUME NEW k \in 1 .. Len(vs), k - 1 \in S PROVE k \in S
  <2> DEFINE a == T[k-1]
             v == vs[k]
             b == T[k]
  <2>1. /\ a \in Ios /\ Kept(io, a, slot)
        /\ ~a.raised => Known(io, names, shape, k - 1)
        /\ ~a.raised /\ slot =< MaxCache /\ OneName(names, shape, Len(vs)) =>
              StoredIn(io, a, names, shape, value, slot, k - 1)
    BY <1>4
  <2>2. IsGiven(v) /\ v.name = names[k] /\ v.paths = shape[k] /\ v.value = value[k]
    BY DEF Givens
  <2>3. b = RecordOne(a, v, slot)
    BY <1>1
  <2>4. k \in 0 .. Len(vs) /\ k \in Nat /\ k > 0 /\ \A p \in 1 .. k : p \in 1 .. k - 1 \/ p = k
    BY <1>0
  <2>5. Len(a.list) = Len(io.list) /\ \A m \in 1 .. Len(io.list) : a.list[m].name = io.list[m].name
    BY <2>1 DEF Kept
  <2> SUFFICES /\ b \in Ios /\ Kept(io, b, slot)
               /\ ~b.raised => Known(io, names, shape, k)
               /\ ~b.raised /\ slot =< MaxCache /\ OneName(names, shape, Len(vs)) =>
                     StoredIn(io, b, names, shape, value, slot, k)
    BY <2>4
  <2> HIDE DEF a, v, b, S
  <2>6. CASE a.raised
    <3>1. b = a
      BY <2>3, <2>6 DEF RecordOne
    <3> QED BY <2>1, <2>6, <3>1
  <2>7. CASE ~a.raised /\ v.foreign
    <3>1. b = [a EXCEPT !.raised = TRUE]
      BY <2>3, <2>7 DEF RecordOne
    <3>2. b \in Ios /\ b.raised /\ b.list = a.list /\ b.formats = a.formats
      BY <2>1, <3>1 DEF Ios
    <3>3. Kept(io, b, slot)
      BY <2>1, <3>2 DEF Kept
    <3> QED BY <3>2, <3>3
  <2>8. CASE ~a.raised /\ ~v.foreign
    <3>1. b = Store(a, v.name, v.paths, v.value, slot)
      BY <2>3, <2>8 DEF RecordOne
    <3>2. b \in Ios /\ Kept(a, b, slot)
      BY <2>1, <2>2, <3>1, StoreLeaves
    <3>3. ~b.raised => \A i \in 1 .. Len(v.paths) :
             \E m \in 1 .. Len(a.list) : a.list[m].name = FlatName(v.name, v.paths[i])
      BY <2>1, <2>2, <3>1, StoreLeaves
    <3>4. \A m \in 1 .. Len(a.list) : Absent(a, v, m) => b.list[m] = a.list[m]
      BY <2>1, <2>2, <3>1, StoreLeaves
    <3>5. ~b.raised /\ slot =< MaxCache => Writes(a, b, v, slot)
      BY <2>1, <2>2, <3>1, StoreLeaves
    <3>6. Kept(io, b, slot)
      BY <2>1, <3>2, KeptTrans
    <3>7. ASSUME ~b.raised PROVE Known(io, names, shape, k)
      <4>1. \A i \in 1 .. Len(shape[k]) :
               \E m \in 1 .. Len(io.list) : io.list[m].name = FlatName(names[k], shape[k][i])
        BY <2>2, <2>5, <3>3, <3>7
      <4> QED BY <2>1, <2>4, <2>8, <4>1 DEF Known
    <3>8. ASSUME ~b.raised, slot =< MaxCache, OneName(names, shape, Len(vs)),
                 NEW p \in 1 .. k, NEW i \in 1 .. Len(shape[p]), NEW m \in 1 .. Len(io.list),
                 io.list[m].name = FlatName(names[p], shape[p][i])
          PROVE  b.list[m].cached[slot] = value[p][shape[p][i]]
      <4>0. p \in 1 .. Len(vs) /\ k \in 1 .. Len(vs)
        BY <1>0, <2>4
      <4>1. \A j \in 1 .. Len(shape[k]) :
               FlatName(names[k], shape[k][j]) = a.list[m].name => p = k /\ i = j
        <5>1. a.list[m].name = FlatName(names[p], shape[p][i])
          BY <2>5, <3>8
        <5>2. p \in 1 .. Len(vs) /\ i \in 1 .. Len(shape[p]) /\ k \in 1 .. Len(vs)
          BY <3>8, <4>0
        <5>3. \A j \in 1 .. Len(shape[k]) :
                 FlatName(names[p], shape[p][i]) = FlatName(names[k], shape[k][j])
                    => p = k /\ i = j
          BY <3>8, <5>2 DEF OneName
        <5> QED BY <5>1, <5>3
      <4>2. CASE p = k
        <5>1. Alone(a, v, m, i)
          BY <2>2, <2>5, <3>8, <4>1, <4>2 DEF Alone
        <5> QED BY <2>2, <2>5, <3>5, <3>8, <4>2, <5>1 DEF Writes
      <4>3. CASE p # k
        <5>1. Absent(a, v, m)
          BY <2>2, <4>1, <4>3 DEF Absent
        <5>2. b.list[m] = a.list[m]
          BY <2>5, <3>4, <5>1
        <5>3. p \in 1 .. k - 1
          BY <2>4, <4>3
        <5>4. StoredIn(io, a, names, shape, value, slot, k - 1)
          BY <2>1, <2>8, <3>8
        <5> QED BY <3>8, <5>2, <5>3, <5>4 DEF StoredIn
      <4> QED BY <4>2, <4>3
    <3> QED BY <3>2, <3>6, <3>7, <3>8 DEF StoredIn
  <2> QED BY <2>6, <2>7, <2>8
<1> HIDE DEF S
<1>5. 0 .. Len(vs) \subseteq S
  BY <1>0, <1>3, <1>4, UpTo
<1>6. Len(vs) \in S
  BY <1>0, <1>5
<1> QED BY <1>2, <1>6 DEF S

-----------------------------------------------------------------------------
(* Annotated functions                                                     *)

OutPaths(f) == [r \in DOMAIN f.returns |-> f.body[r].paths]

\* The leaf of the arguments that leaf i of result r is.
From(f, r, i) == f.body[r].from[i]

LEMMA ProgramTyped ==
    ASSUME NEW f \in Programs
    PROVE  /\ f.params \in Seq(Seq(STRING)) /\ DOMAIN f.params = 1 .. Len(f.params)
           /\ Len(f.params) \in Nat
           /\ \A p, q \in 1 .. Len(f.params) : f.params[p] = f.params[q] => p = q
           /\ f.returns \in Seq(Seq(STRING)) /\ DOMAIN f.returns = 1 .. Len(f.returns)
           /\ Len(f.returns) \in Nat
           /\ DOMAIN f.body = DOMAIN f.returns
BY ProgramAssumption DEF IsProgram

LEMMA StructureFacts ==
    ASSUME NEW paths, IsStructure(paths)
    PROVE  /\ paths \in Seq(Paths) /\ Len(paths) \in Nat /\ DOMAIN paths = 1 .. Len(paths)
           /\ \A i, j \in 1 .. Len(paths) : paths[i] = paths[j] => i = j
           /\ \A i \in 1 .. Len(paths) : paths[i] = <<>> => Len(paths) = 1 /\ paths = BareTensor
<1>1. paths \in Seq(Paths) /\ Len(paths) \in Nat /\ DOMAIN paths = 1 .. Len(paths)
  BY DEF IsStructure
<1>2. ASSUME NEW i \in 1 .. Len(paths), NEW j \in 1 .. Len(paths), paths[i] = paths[j]
      PROVE  i = j
  <2>1. Len(paths[i]) =< Len(paths[j])
    <3>1. Len(paths[i]) \in Nat
      BY <1>1 DEF Paths
    <3> QED BY <1>2, <3>1
  <2>2. IsPrefix(paths[i], paths[j])
    BY <1>2, <2>1 DEF IsPrefix
  <2> QED BY <1>1, <2>2 DEF IsStructure
<1>3. ASSUME NEW i \in 1 .. Len(paths), paths[i] = <<>>
      PROVE  Len(paths) = 1 /\ paths = BareTensor
  <2>1. ASSUME NEW j \in 1 .. Len(paths) PROVE i = j
    <3>1. paths[j] \in Paths
      BY <1>1
    <3>2. Len(paths[j]) \in Nat /\ SubSeq(paths[j], 1, 0) = <<>>
      BY <3>1 DEF Paths
    <3>3. Len(<<>>) = 0 /\ SubSeq(<<>>, 1, 0) = <<>>
      OBVIOUS
    <3>4. IsPrefix(<<>>, paths[j])
      BY <3>2, <3>3 DEF IsPrefix
    <3> QED BY <1>1, <1>3, <3>4 DEF IsStructure
  <2>2. Len(paths) = 1
    <3>1. 1 \in 1 .. Len(paths) /\ Len(paths) \in 1 .. Len(paths)
      BY <1>1
    <3> QED BY <2>1, <3>1
  <2>3. paths[1] = <<>>
    BY <1>3, <2>2
  <2> QED BY <1>1, <2>2, <2>3 DEF BareTensor
<1> QED BY <1>1, <1>2, <1>3

LEMMA ShapeTyped ==
    ASSUME NEW f \in Programs, NEW s \in ShapesOf(f)
    PROVE  DOMAIN s = 1 .. Len(f.params) /\ \A p \in 1 .. Len(f.params) : IsStructure(s[p])
<1>1. DOMAIN f.params = 1 .. Len(f.params)
  BY ProgramTyped
<1>2. DOMAIN s = DOMAIN f.params /\ \A p \in DOMAIN f.params : s[p] \in f.shapes[p]
  BY DEF ShapesOf
<1>3. \A p \in DOMAIN f.params : \A paths \in f.shapes[p] : IsStructure(paths)
  BY ProgramAssumption DEF IsProgram
<1> QED BY <1>1, <1>2, <1>3

LEMMA BodyTyped ==
    ASSUME NEW f \in Programs
    PROVE  /\ DOMAIN OutPaths(f) = 1 .. Len(f.returns)
           /\ \A r \in 1 .. Len(f.returns) :
                 /\ OutPaths(f)[r] = f.body[r].paths /\ IsStructure(f.body[r].paths)
                 /\ DOMAIN f.body[r].from = 1 .. Len(f.body[r].paths)
                 /\ \A i \in 1 .. Len(f.body[r].paths) :
                       From(f, r, i) \in (1 .. Len(f.params)) \X Paths
<1>1. DOMAIN f.params = 1 .. Len(f.params) /\ DOMAIN f.returns = 1 .. Len(f.returns)
      /\ DOMAIN f.body = DOMAIN f.returns
  BY ProgramTyped
<1>2. \A r \in DOMAIN f.body :
         /\ IsStructure(f.body[r].paths)
         /\ DOMAIN f.body[r].from = DOMAIN f.body[r].paths
         /\ \A i \in DOMAIN f.body[r].from : f.body[r].from[i] \in (DOMAIN f.params) \X Paths
  BY ProgramAssumption DEF IsProgram
<1>3. \A r \in DOMAIN f.body : DOMAIN f.body[r].paths = 1 .. Len(f.body[r].paths)
  BY <1>2, StructureFacts
<1> QED BY <1>1, <1>2, <1>3 DEF OutPaths, From

\* An interface with no name twice has one leaf under each.
LEMMA OneNameOf ==
    ASSUME NEW names, NEW shape, NEW n \in Nat, DOMAIN names = 1 .. n,
           \A p \in 1 .. n : DOMAIN shape[p] = 1 .. Len(shape[p])
    PROVE  /\ OneName(names, shape, n) <=> IsInjective(LeafNames(names, shape))
           /\ Range(LeafNames(names, shape)) =
                 {FlatName(names[x[1]], shape[x[1]][x[2]]) :
                    x \in UNION {{p} \X (1 .. Len(shape[p])) : p \in 1 .. n}}
<1> DEFINE D == UNION {{p} \X (1 .. Len(shape[p])) : p \in 1 .. n}
           N(x) == FlatName(names[x[1]], shape[x[1]][x[2]])
<1>1. D = UNION {{p} \X (DOMAIN shape[p]) : p \in DOMAIN names}
  OBVIOUS
<1>2. LeafNames(names, shape) = [x \in D |-> N(x)]
  BY <1>1 DEF LeafNames
<1>3. ASSUME NEW x \in D
      PROVE  x[1] \in 1 .. n /\ x[2] \in 1 .. Len(shape[x[1]]) /\ x = <<x[1], x[2]>>
  <2>1. PICK p \in 1 .. n : x \in {p} \X (1 .. Len(shape[p]))
    OBVIOUS
  <2> QED BY <2>1
<1>4. ASSUME NEW p \in 1 .. n, NEW i \in 1 .. Len(shape[p])
      PROVE  <<p, i>> \in D /\ N(<<p, i>>) = FlatName(names[p], shape[p][i])
  <2>1. <<p, i>> \in {p} \X (1 .. Len(shape[p]))
    OBVIOUS
  <2> QED BY <2>1
<1>5. ASSUME OneName(names, shape, n), NEW x \in D, NEW y \in D, N(x) = N(y) PROVE x = y
  <2>1. x[1] = y[1] /\ x[2] = y[2]
    BY <1>3, <1>5 DEF OneName
  <2> QED BY <1>3, <2>1
<1>6. ASSUME \A x, y \in D : N(x) = N(y) => x = y,
             NEW p \in 1 .. n, NEW q \in 1 .. n, NEW i \in 1 .. Len(shape[p]),
             NEW j \in 1 .. Len(shape[q]),
             FlatName(names[p], shape[p][i]) = FlatName(names[q], shape[q][j])
      PROVE  p = q /\ i = j
  <2>1. <<p, i>> = <<q, j>>
    <3>1. <<p, i>> \in D /\ <<q, j>> \in D /\ N(<<p, i>>) = N(<<q, j>>)
      BY <1>4, <1>6
    <3> HIDE DEF D, N
    <3> QED BY <1>6, <3>1
  <2> QED BY <2>1
<1>7. IsInjective(LeafNames(names, shape)) <=> \A x, y \in D : N(x) = N(y) => x = y
  <2> HIDE DEF D, N
  <2> QED BY <1>2 DEF IsInjective
<1>8. Range(LeafNames(names, shape)) = {N(x) : x \in D}
  <2> HIDE DEF D, N
  <2> QED BY <1>2 DEF Range
<1>9. OneName(names, shape, n) <=> \A x, y \in D : N(x) = N(y) => x = y
  <2>1. OneName(names, shape, n) => \A x, y \in D : N(x) = N(y) => x = y
    BY <1>5
  <2>2. (\A x, y \in D : N(x) = N(y) => x = y) => OneName(names, shape, n)
    <3> HIDE DEF D, N
    <3> QED BY <1>6 DEF OneName
  <2> QED BY <2>1, <2>2
<1> QED BY <1>7, <1>8, <1>9

\* What a call names is among what was named at the first.
LEMMA AmongNames ==
    ASSUME NEW io \in Ios, NEW names, NEW shape, NEW other, NEW n \in Nat, DOMAIN names = 1 .. n,
           \A p \in 1 .. n : DOMAIN shape[p] = 1 .. Len(shape[p]),
           \A p \in 1 .. n : DOMAIN other[p] = 1 .. Len(other[p]),
           Interface(io, names, shape, n), Named(io, names, shape, n),
           Known(io, names, other, n)
    PROVE  Range(LeafNames(names, other)) \subseteq Range(LeafNames(names, shape))
<1> DEFINE D == UNION {{p} \X (1 .. Len(shape[p])) : p \in 1 .. n}
           E == UNION {{p} \X (1 .. Len(other[p])) : p \in 1 .. n}
           M(x) == FlatName(names[x[1]], shape[x[1]][x[2]])
           N(x) == FlatName(names[x[1]], other[x[1]][x[2]])
<1>1. Range(LeafNames(names, shape)) = {M(x) : x \in D}
      /\ Range(LeafNames(names, other)) = {N(x) : x \in E}
  BY OneNameOf
<1>2. ASSUME NEW x \in E PROVE \E y \in D : N(x) = M(y)
  <2>1. PICK p \in 1 .. n : x \in {p} \X (1 .. Len(other[p]))
    OBVIOUS
  <2>2. x[1] = p /\ x[2] \in 1 .. Len(other[p])
    BY <2>1
  <2>3. PICK m \in 1 .. Len(io.list) : io.list[m].name = N(x)
    BY <2>2 DEF Known
  <2>4. PICK q \in 1 .. n : \E i \in 1 .. Len(shape[q]) : At(io, q, i) = m
    BY DEF Interface
  <2> PICK i \in 1 .. Len(shape[q]) : At(io, q, i) = m
    BY <2>4
  <2>5. io.list[m].name = FlatName(names[q], shape[q][i])
    BY <2>4 DEF Named
  <2>6. <<q, i>> \in {q} \X (1 .. Len(shape[q]))
    OBVIOUS
  <2>7. <<q, i>> \in D /\ M(<<q, i>>) = FlatName(names[q], shape[q][i])
    BY <2>6
  <2> HIDE DEF D, M, N
  <2> QED BY <2>3, <2>5, <2>7
<1> HIDE DEF D, E, M, N
<1> QED BY <1>1, <1>2
-----------------------------------------------------------------------------
(* A call                                                                  *)

\* What the results of a call are, by position.
ResultsOf(args) == [r \in DOMAIN program.returns |-> Result(r, args)]

LEMMA ResultLeaf ==
    ASSUME program \in Programs, NEW args, NEW r \in 1 .. Len(program.returns),
           NEW i \in 1 .. Len(program.body[r].paths)
    PROVE  Result(r, args)[program.body[r].paths[i]]
              = args[From(program, r, i)[1]][From(program, r, i)[2]]
<1> DEFINE b == program.body[r]
           From1(path) == b.from[CHOOSE j \in DOMAIN b.paths : b.paths[j] = path]
<1>1. IsStructure(b.paths)
  BY BodyTyped
<1>2. DOMAIN b.paths = 1 .. Len(b.paths)
      /\ \A k, j \in 1 .. Len(b.paths) : b.paths[k] = b.paths[j] => k = j
  BY <1>1, StructureFacts
<1>3. b.paths[i] \in ToSet(b.paths)
  BY <1>2 DEF ToSet
<1>4. (CHOOSE j \in DOMAIN b.paths : b.paths[j] = b.paths[i]) = i
  BY <1>2
<1>5. Result(r, args) = [path \in ToSet(b.paths) |-> args[From1(path)[1]][From1(path)[2]]]
  BY DEF Result
<1>6. From1(b.paths[i]) = From(program, r, i)
  BY <1>4 DEF From
<1> HIDE DEF From1
<1>7. Result(r, args)[b.paths[i]] = args[From1(b.paths[i])[1]][From1(b.paths[i])[2]]
  BY <1>3, <1>5
<1> QED BY <1>6, <1>7

\* The leaf of an argument at a path it has.
LEMMA ArgumentLeaf ==
    ASSUME NEW shape, NEW p \in ParamIds, NEW path \in ToSet(shape[p])
    PROVE  DOMAIN Args(shape)[p] = ToSet(shape[p])
           /\ Args(shape)[p][path] = <<calls + 1, p, path>>
BY DEF Args, Argument

LEMMA ArgumentsGiven ==
    ASSUME program \in Programs, calls \in Nat, NEW shape \in Shapes,
           NEW active \in ParamIds \cup {0}
    PROVE  /\ Givens(Arguments(shape, active), program.params, shape, Args(shape))
           /\ Len(Arguments(shape, active)) = Len(program.params)
<1>1. /\ program.params \in Seq(Seq(STRING)) /\ ParamIds = 1 .. Len(program.params)
      /\ Len(program.params) \in Nat
  BY ProgramTyped DEF ParamIds
<1>2. \A p \in ParamIds : IsStructure(shape[p])
  BY <1>1, ShapeTyped DEF Shapes
<1> DEFINE V(p) == [name  |-> program.params[p], paths |-> shape[p],
                    value |-> Args(shape)[p], foreign |-> p = active]
<1>3. Arguments(shape, active) = [p \in 1 .. Len(program.params) |-> V(p)]
  BY <1>1 DEF Arguments
<1>4. ASSUME NEW p \in 1 .. Len(program.params)
      PROVE  IsGiven(V(p)) /\ V(p).name = program.params[p] /\ V(p).paths = shape[p]
             /\ V(p).value = Args(shape)[p]
  <2>1. program.params[p] \in Seq(STRING) /\ shape[p] \in Seq(Paths)
        /\ DOMAIN shape[p] = 1 .. Len(shape[p])
    BY <1>1, <1>2, StructureFacts
  <2>2. ASSUME NEW i \in 1 .. Len(shape[p]) PROVE Args(shape)[p][shape[p][i]] \in Values
    <3>1. shape[p][i] \in Paths /\ shape[p][i] \in ToSet(shape[p])
      BY <2>1 DEF ToSet
    <3>2. Args(shape)[p][shape[p][i]] = <<calls + 1, p, shape[p][i]>>
      BY <1>1, <3>1, ArgumentLeaf
    <3>3. calls + 1 \in Nat /\ p \in Nat
      BY <1>1
    <3> QED BY <3>1, <3>2, <3>3 DEF Values
  <2>3. (p = active) \in BOOLEAN
    OBVIOUS
  <2> QED BY <2>1, <2>2, <2>3 DEF IsGiven
<1> HIDE DEF V
<1>5. Len(Arguments(shape, active)) = Len(program.params)
  BY <1>1, <1>3
<1> QED BY <1>1, <1>3, <1>4, <1>5 DEF Givens

\* A body that does not raise reads leaves that are there.
LEMMA ReadsFound ==
    ASSUME program \in Programs, NEW shape \in Shapes, ~BodyRaises(Args(shape)),
           NEW r \in 1 .. Len(program.returns), NEW i \in 1 .. Len(program.body[r].paths)
    PROVE  /\ From(program, r, i)[1] \in 1 .. Len(program.params)
           /\ From(program, r, i)[2] \in ToSet(shape[From(program, r, i)[1]])
<1> DEFINE w == From(program, r, i)
<1>1. w \in (1 .. Len(program.params)) \X Paths
  BY BodyTyped
<1>2. DOMAIN program.body = 1 .. Len(program.returns)
      /\ i \in DOMAIN program.body[r].from /\ ParamIds = 1 .. Len(program.params)
  BY ProgramTyped, BodyTyped DEF ParamIds
<1>3. w \in Reads
  BY <1>2 DEF Reads, ToSet, From
<1>4. w[2] \in DOMAIN Args(shape)[w[1]]
  BY <1>3 DEF BodyRaises
<1>5. DOMAIN Args(shape)[w[1]] = ToSet(shape[w[1]])
  BY <1>1, <1>2 DEF Args, Argument
<1> QED BY <1>1, <1>4, <1>5

LEMMA ResultsGiven ==
    ASSUME program \in Programs, calls \in Nat, NEW shape \in Shapes,
           ~BodyRaises(Args(shape))
    PROVE  /\ Givens(Results(shape), program.returns, OutPaths(program),
                     ResultsOf(Args(shape)))
           /\ Len(Results(shape)) = Len(program.returns)
<1>1. /\ program.returns \in Seq(Seq(STRING))
      /\ DOMAIN program.returns = 1 .. Len(program.returns)
      /\ Len(program.returns) \in Nat /\ ParamIds = 1 .. Len(program.params)
      /\ Len(program.params) \in Nat
  BY ProgramTyped DEF ParamIds
<1>2. \A p \in ParamIds : IsStructure(shape[p])
  BY <1>1, ShapeTyped DEF Shapes
<1> DEFINE V(r) == [name  |-> program.returns[r], paths |-> program.body[r].paths,
                    value |-> Result(r, Args(shape)), foreign |-> FALSE]
<1>3. Results(shape) = [r \in 1 .. Len(program.returns) |-> V(r)]
  BY <1>1 DEF Results
<1>4. ASSUME NEW r \in 1 .. Len(program.returns)
      PROVE  IsGiven(V(r)) /\ V(r).name = program.returns[r]
             /\ V(r).paths = OutPaths(program)[r]
             /\ V(r).value = ResultsOf(Args(shape))[r]
  <2>1. program.returns[r] \in Seq(STRING) /\ program.body[r].paths \in Seq(Paths)
        /\ OutPaths(program)[r] = program.body[r].paths
    BY <1>1, BodyTyped, StructureFacts
  <2>2. ASSUME NEW i \in 1 .. Len(program.body[r].paths)
        PROVE  Result(r, Args(shape))[program.body[r].paths[i]] \in Values
    <3> DEFINE w == From(program, r, i)
    <3>1. w[1] \in ParamIds /\ w[2] \in ToSet(shape[w[1]])
      BY <1>1, ReadsFound
    <3>2. w[2] \in Paths
      <4>1. shape[w[1]] \in Seq(Paths) /\ DOMAIN shape[w[1]] = 1 .. Len(shape[w[1]])
        BY <1>2, <3>1, StructureFacts
      <4> HIDE DEF w
      <4> QED BY <3>1, <4>1 DEF ToSet
    <3>3. Args(shape)[w[1]][w[2]] = <<calls + 1, w[1], w[2]>>
      BY <3>1, ArgumentLeaf
    <3>4. Result(r, Args(shape))[program.body[r].paths[i]] = Args(shape)[w[1]][w[2]]
      BY ResultLeaf
    <3>5. calls + 1 \in Nat /\ w[1] \in Nat
      BY <1>1, <3>1
    <3> HIDE DEF w
    <3> QED BY <3>2, <3>3, <3>4, <3>5 DEF Values
  <2>3. ResultsOf(Args(shape))[r] = Result(r, Args(shape))
    BY <1>1 DEF ResultsOf
  <2> QED BY <2>1, <2>2, <2>3 DEF IsGiven
<1> HIDE DEF V
<1>5. Len(Results(shape)) = Len(program.returns)
  BY <1>1, <1>3
<1> QED BY <1>1, <1>3, <1>4, <1>5 DEF Givens
-----------------------------------------------------------------------------
(* Names apart                                                             *)

\* No variable an argument is assigned to is an input of a later argument.
PackApart(io, names, shape, n) ==
    \A p, q \in 1 .. n : \A i \in 1 .. Len(shape[q]) :
        p < q => io.list[At(io, q, i)].name # names[p]

\* No variable a result is held in is an output assigned before one of its own.
UnpackApart(io, names, shape, n) ==
    \A q, r \in 1 .. n : \A i \in 1 .. Len(shape[q]) : \A j \in 1 .. Len(shape[r]) :
        q < r \/ (q = r /\ i < j) => io.list[At(io, q, i)].name # names[r]

NoNameTwice(names, n) == \A p, q \in 1 .. n : names[p] = names[q] => p = q

\* The interface captured with the arguments s, which forward() can unflatten.
Interfaced(f, ins, outs, s) ==
    /\ Interface(ins, f.params, s, Len(f.params)) /\ Distinct(ins)
    /\ PackApart(ins, f.params, s, Len(f.params))
    /\ Interface(outs, f.returns, OutPaths(f), Len(f.returns)) /\ Distinct(outs)
    /\ UnpackApart(outs, f.returns, OutPaths(f), Len(f.returns))
    /\ NoNameTwice(f.returns, Len(f.returns))

LEMMA DistinctOne ==
    ASSUME NEW io \in Ios, NEW names, NEW shape, NEW n \in Nat,
           \A p \in 1 .. n : Len(shape[p]) \in Nat,
           Interface(io, names, shape, n), Named(io, names, shape, n), Distinct(io)
    PROVE  OneName(names, shape, n)
<1>1. ASSUME NEW p \in 1 .. n, NEW q \in 1 .. n, NEW i \in 1 .. Len(shape[p]),
             NEW j \in 1 .. Len(shape[q]),
             FlatName(names[p], shape[p][i]) = FlatName(names[q], shape[q][j])
      PROVE  p = q /\ i = j
  <2>1. io.list[At(io, p, i)].name = io.list[At(io, q, j)].name
    BY <1>1 DEF Named
  <2>2. At(io, p, i) \in 1 .. Len(io.list) /\ At(io, q, j) \in 1 .. Len(io.list)
    BY DEF Interface
  <2>3. At(io, p, i) = At(io, q, j)
    BY <2>1, <2>2 DEF Distinct
  <2>4. At(io, p, i) \in Int
    BY <2>2
  <2>5. ~(p < q \/ (p = q /\ i < j))
    <3>1. p < q \/ (p = q /\ i < j) => At(io, p, i) < At(io, q, j)
      BY DEF Interface
    <3> QED BY <2>3, <2>4, <3>1
  <2>6. ~(q < p \/ (q = p /\ j < i))
    <3>1. q < p \/ (q = p /\ j < i) => At(io, q, j) < At(io, p, i)
      BY DEF Interface
    <3> QED BY <2>3, <2>4, <3>1
  <2> QED BY <2>5, <2>6
<1> QED BY <1>1 DEF OneName

LEMMA ApartNames ==
    ASSUME NEW f \in Programs, NamesApart(f), NEW s \in ShapesOf(f),
           OneName(f.returns, OutPaths(f), Len(f.returns)),
           OneName(f.params, s, Len(f.params))
    PROVE  ResultsApart(f) /\ ArgumentsApart(f, s)
<1>1. /\ DOMAIN f.params = 1 .. Len(f.params) /\ Len(f.params) \in Nat
      /\ DOMAIN f.returns = 1 .. Len(f.returns) /\ Len(f.returns) \in Nat
      /\ DOMAIN f.body = DOMAIN f.returns
  BY ProgramTyped
<1>2. \A p \in 1 .. Len(f.params) : DOMAIN s[p] = 1 .. Len(s[p])
  BY ShapeTyped, StructureFacts
<1>3. \A r \in 1 .. Len(f.returns) : DOMAIN OutPaths(f)[r] = 1 .. Len(OutPaths(f)[r])
  BY BodyTyped, StructureFacts
<1>4. IsInjective(LeafNames(f.params, s))
  BY <1>1, <1>2, OneNameOf
<1>5. IsInjective(LeafNames(f.returns, OutPaths(f)))
  BY <1>1, <1>3, OneNameOf
<1>6. OutPaths(f) = [r \in DOMAIN f.body |-> f.body[r].paths]
  BY <1>1 DEF OutPaths
<1> QED BY <1>4, <1>5, <1>6 DEF NamesApart

\* A bare argument or result is called like its only leaf.
LEMMA BareName ==
    ASSUME NEW name \in Seq(STRING), NEW paths, paths = BareTensor
    PROVE  Len(paths) = 1 /\ FlatName(name, paths[1]) = name
<1>1. paths[1] = <<>> /\ Len(paths) = 1 /\ <<>> \in Paths
  BY DEF BareTensor, Paths
<1> QED BY <1>1, FlatNameTyped

\* The names of results differ, nested ones by the assumption, bare ones as leaves.
LEMMA ReturnsApart ==
    ASSUME NEW f \in Programs, ResultsApart(f),
           OneName(f.returns, OutPaths(f), Len(f.returns))
    PROVE  NoNameTwice(f.returns, Len(f.returns))
<1>1. DOMAIN f.returns = 1 .. Len(f.returns) /\ Len(f.returns) \in Nat
      /\ f.returns \in Seq(Seq(STRING))
  BY ProgramTyped
<1>2. \A r \in 1 .. Len(f.returns) : OutPaths(f)[r] = f.body[r].paths
  BY BodyTyped
<1>3. ASSUME NEW r \in 1 .. Len(f.returns), NEW q \in 1 .. Len(f.returns), r # q
      PROVE  f.returns[r] # f.returns[q]
  <2>1. CASE f.body[q].paths # BareTensor
    BY <1>1, <1>3, <2>1 DEF ResultsApart
  <2>2. CASE f.body[r].paths # BareTensor
    BY <1>1, <1>3, <2>2 DEF ResultsApart
  <2>3. CASE f.body[q].paths = BareTensor /\ f.body[r].paths = BareTensor
    <3>1. /\ Len(OutPaths(f)[r]) = 1 /\ FlatName(f.returns[r], OutPaths(f)[r][1]) = f.returns[r]
          /\ Len(OutPaths(f)[q]) = 1 /\ FlatName(f.returns[q], OutPaths(f)[q][1]) = f.returns[q]
      <4>1. f.returns[r] \in Seq(STRING) /\ f.returns[q] \in Seq(STRING)
        BY <1>1
      <4>2. OutPaths(f)[r] = BareTensor /\ OutPaths(f)[q] = BareTensor
        BY <1>2, <2>3
      <4> QED BY <4>1, <4>2, BareName
    <3>2. 1 \in 1 .. Len(OutPaths(f)[r]) /\ 1 \in 1 .. Len(OutPaths(f)[q])
      BY <3>1
    <3>3. FlatName(f.returns[r], OutPaths(f)[r][1]) = FlatName(f.returns[q], OutPaths(f)[q][1])
             => r = q
      BY <3>2 DEF OneName
    <3> QED BY <1>3, <3>1, <3>3
  <2> QED BY <2>1, <2>2, <2>3
<1> QED BY <1>3 DEF NoNameTwice

\* Two leaves of one result lie deeper than the result itself.
LEMMA LeavesDeeper ==
    ASSUME NEW paths, IsStructure(paths), NEW name \in Seq(STRING),
           NEW i \in 1 .. Len(paths), NEW j \in 1 .. Len(paths), i < j
    PROVE  /\ FlatName(name, paths[i]) \in Seq(STRING)
           /\ Len(FlatName(name, paths[i])) > Len(name)
<1>1. paths[i] \in Paths /\ Len(paths) \in Nat
  BY StructureFacts
<1>2. paths[i] # <<>>
  <2>1. ASSUME Len(paths) = 1 PROVE FALSE
    <3>1. i \in 1 .. 1 /\ j \in 1 .. 1
      BY <2>1
    <3>2. i = 1 /\ j = 1
      BY <3>1
    <3> QED BY <3>2
  <2> QED BY <2>1, StructureFacts
<1> QED BY <1>1, <1>2, FlatNameTyped

LEMMA CapturedApart ==
    ASSUME NEW f \in Programs, NamesApart(f), NEW s \in ShapesOf(f),
           NEW ins \in Ios, NEW outs \in Ios,
           Interface(ins, f.params, s, Len(f.params)),
           Named(ins, f.params, s, Len(f.params)), Distinct(ins),
           Interface(outs, f.returns, OutPaths(f), Len(f.returns)),
           Named(outs, f.returns, OutPaths(f), Len(f.returns)), Distinct(outs)
    PROVE  /\ Interfaced(f, ins, outs, s)
           /\ OneName(f.returns, OutPaths(f), Len(f.returns))
           /\ OneName(f.params, s, Len(f.params))
           /\ ResultsApart(f) /\ ArgumentsApart(f, s)
<1>1. /\ DOMAIN f.params = 1 .. Len(f.params) /\ Len(f.params) \in Nat
      /\ DOMAIN f.returns = 1 .. Len(f.returns) /\ Len(f.returns) \in Nat
      /\ f.params \in Seq(Seq(STRING)) /\ f.returns \in Seq(Seq(STRING))
  BY ProgramTyped
<1>2. \A p \in 1 .. Len(f.params) : IsStructure(s[p]) /\ DOMAIN s[p] = 1 .. Len(s[p])
                                    /\ Len(s[p]) \in Nat
  BY ShapeTyped, StructureFacts
<1>3. \A r \in 1 .. Len(f.returns) :
         /\ OutPaths(f)[r] = f.body[r].paths /\ IsStructure(OutPaths(f)[r])
         /\ DOMAIN OutPaths(f)[r] = 1 .. Len(OutPaths(f)[r]) /\ Len(OutPaths(f)[r]) \in Nat
  BY BodyTyped, StructureFacts
<1>4. OneName(f.params, s, Len(f.params))
  BY <1>1, <1>2, DistinctOne
<1>5. OneName(f.returns, OutPaths(f), Len(f.returns))
  BY <1>1, <1>3, DistinctOne
<1>6. ResultsApart(f) /\ ArgumentsApart(f, s)
  BY <1>4, <1>5, ApartNames
<1>7. NoNameTwice(f.returns, Len(f.returns))
  BY <1>5, <1>6, ReturnsApart
<1>8. ASSUME NEW p \in 1 .. Len(f.params), NEW q \in 1 .. Len(f.params),
             NEW i \in 1 .. Len(s[q]), p < q
      PROVE  ins.list[At(ins, q, i)].name # f.params[p]
  <2>1. ins.list[At(ins, q, i)].name = FlatName(f.params[q], s[q][i])
    BY DEF Named
  <2>2. CASE s[p] # BareTensor
    <3>1. f.params[p] # FlatName(f.params[q], s[q][i])
      BY <1>1, <1>2, <1>6, <1>8, <2>2 DEF ArgumentsApart
    <3> QED BY <2>1, <3>1
  <2>3. CASE s[p] = BareTensor
    <3>1. Len(s[p]) = 1 /\ FlatName(f.params[p], s[p][1]) = f.params[p]
      BY <1>1, <2>3, BareName
    <3>2. 1 \in 1 .. Len(s[p]) /\ p # q
      BY <1>8, <3>1
    <3>3. FlatName(f.params[p], s[p][1]) = FlatName(f.params[q], s[q][i]) => p = q
      BY <1>4, <3>2 DEF OneName
    <3> QED BY <2>1, <3>1, <3>2, <3>3
  <2> QED BY <2>2, <2>3
<1>9. ASSUME NEW q \in 1 .. Len(f.returns), NEW r \in 1 .. Len(f.returns),
             NEW i \in 1 .. Len(OutPaths(f)[q]), NEW j \in 1 .. Len(OutPaths(f)[r]),
             q < r \/ (q = r /\ i < j)
      PROVE  outs.list[At(outs, q, i)].name # f.returns[r]
  <2>1. outs.list[At(outs, q, i)].name = FlatName(f.returns[q], OutPaths(f)[q][i])
    BY DEF Named
  <2>2. CASE q = r
    <3>0. /\ i \in 1 .. Len(OutPaths(f)[r]) /\ i < j
          /\ IsStructure(OutPaths(f)[r]) /\ f.returns[r] \in Seq(STRING)
      BY <1>1, <1>3, <1>9, <2>2
    <3>1. Len(FlatName(f.returns[r], OutPaths(f)[r][i])) > Len(f.returns[r])
      BY <3>0, LeavesDeeper
    <3>2. Len(f.returns[r]) \in Nat
      BY <1>1
    <3> QED BY <2>1, <2>2, <3>1, <3>2
  <2>3. CASE q < r /\ OutPaths(f)[r] # BareTensor
    <3>0. /\ q \in DOMAIN f.returns /\ r \in DOMAIN f.returns
          /\ f.body[r].paths # BareTensor /\ i \in DOMAIN f.body[q].paths
      BY <1>1, <1>3, <2>3
    <3>1. f.returns[r] # FlatName(f.returns[q], f.body[q].paths[i])
      BY <1>6, <2>3, <3>0 DEF ResultsApart
    <3> QED BY <1>3, <2>1, <3>1
  <2>4. CASE q < r /\ OutPaths(f)[r] = BareTensor
    <3>1. Len(OutPaths(f)[r]) = 1 /\ FlatName(f.returns[r], OutPaths(f)[r][1]) = f.returns[r]
      BY <1>1, <2>4, BareName
    <3>2. 1 \in 1 .. Len(OutPaths(f)[r]) /\ q # r
      BY <2>4, <3>1
    <3>3. FlatName(f.returns[q], OutPaths(f)[q][i]) = FlatName(f.returns[r], OutPaths(f)[r][1])
             => q = r
      BY <1>5, <3>2 DEF OneName
    <3> QED BY <2>1, <3>1, <3>2, <3>3
  <2> QED BY <1>9, <2>2, <2>3, <2>4
<1>10. PackApart(ins, f.params, s, Len(f.params))
  BY <1>8 DEF PackApart
<1>11. UnpackApart(outs, f.returns, OutPaths(f), Len(f.returns))
  BY <1>9 DEF UnpackApart
<1> QED BY <1>4, <1>5, <1>6, <1>7, <1>10, <1>11 DEF Interfaced
-----------------------------------------------------------------------------
(* What a step does to the node                                            *)

NodeStates == [new : {FALSE}, idx : Nat, bounds : BOOLEAN, ins : Ios, outs : Ios]

\* A node between calls.
IsNode(n) ==
    /\ n \in NodeStates /\ ~n.ins.raised /\ ~n.outs.raised
    /\ n.idx = 0 \/ n.idx =< MaxCache

FunctionTyped ==
    /\ program \in Programs /\ calls \in Nat /\ indexed \in BOOLEAN /\ compiled \in BOOLEAN
    /\ node # NoNode => IsNode(node)
    /\ indexed => node # NoNode

LEMMA IsNodeNot == ASSUME NEW n, IsNode(n) PROVE n # NoNode
<1>1. n.new = FALSE
  BY DEF IsNode, NodeStates
<1>2. NoNode.new = TRUE
  BY DEF NoNode
<1> QED BY <1>1, <1>2

Quiet(io) == [io EXCEPT !.raised = FALSE]

LEMMA QuietSame ==
    ASSUME NEW io \in Ios
    PROVE  /\ Quiet(io) \in Ios /\ ~Quiet(io).raised
           /\ Quiet(io).list = io.list /\ Quiet(io).formats = io.formats
BY DEF Quiet, Ios

LEMMA QuietCaptured ==
    ASSUME NEW io \in Ios, NEW names, NEW shape, NEW value, NEW n
    PROVE  Captured(Quiet(io), names, shape, value, n) <=> Captured(io, names, shape, value, n)
<1>1. Quiet(io).list = io.list /\ Quiet(io).formats = io.formats
  BY QuietSame
<1>2. Interface(Quiet(io), names, shape, n) <=> Interface(io, names, shape, n)
  BY <1>1 DEF Interface, At
<1>3. Named(Quiet(io), names, shape, n) <=> Named(io, names, shape, n)
  BY <1>1 DEF Named, At
<1>4. Holds(Quiet(io), value, shape, n) <=> Holds(io, value, shape, n)
  BY <1>1 DEF Holds, At
<1>5. Distinct(Quiet(io)) <=> Distinct(io)
  BY <1>1 DEF Distinct
<1> QED BY <1>2, <1>3, <1>4, <1>5 DEF Captured

LEMMA CaptureFacts ==
    ASSUME FunctionTyped, NEW shape \in Shapes, NEW active \in ParamIds \cup {0},
           NEW fails \in BOOLEAN, Capture(shape, active, fails)
    PROVE  /\ node = NoNode /\ IsNode(node') /\ node'.idx = 0 /\ Placed(node'.outs)
           /\ indexed' \in BOOLEAN
           /\ ports' = ports \/ ports' = Publish(node'.outs)
           /\ indexed' =>
                 /\ ~BodyRaises(Args(shape))
                 /\ Captured(node'.ins, program.params, shape, Args(shape), Len(program.params))
                 /\ Captured(node'.outs, program.returns, OutPaths(program),
                             ResultsOf(Args(shape)), Len(program.returns))
<1> DEFINE ins  == Recorded(Empty, Arguments(shape, active), 0)
           ran  == ~ins.raised /\ ~fails /\ ~BodyRaises(Args(shape))
           outs == IF ran THEN Recorded(Empty, Results(shape), 0) ELSE Empty
<1>1. /\ node = NoNode
      /\ node' = [new |-> FALSE, idx |-> 0, bounds |-> ~ins.raised,
                  ins |-> Quiet(ins), outs |-> Quiet(outs)]
      /\ indexed' = (ran /\ ~outs.raised)
      /\ ports' = IF ran THEN Publish(outs) ELSE ports
  BY DEF Capture, Quiet
<1>2. ins \in Ios
      /\ (~ins.raised => Captured(ins, program.params, shape, Args(shape), Len(program.params)))
  <2>1. Givens(Arguments(shape, active), program.params, shape, Args(shape))
        /\ Len(Arguments(shape, active)) = Len(program.params)
    BY ArgumentsGiven DEF FunctionTyped
  <2> QED BY <2>1, CaptureAll
<1>3. /\ outs \in Ios /\ Placed(outs)
      /\ ran /\ ~outs.raised =>
            Captured(outs, program.returns, OutPaths(program), ResultsOf(Args(shape)),
                     Len(program.returns))
  <2>1. CASE ran
    <3>1. Givens(Results(shape), program.returns, OutPaths(program), ResultsOf(Args(shape)))
          /\ Len(Results(shape)) = Len(program.returns)
      BY <2>1, ResultsGiven DEF FunctionTyped
    <3>2. outs = Recorded(Empty, Results(shape), 0)
      BY <2>1
    <3> HIDE DEF outs
    <3> QED BY <3>1, <3>2, CaptureAll
  <2>2. CASE ~ran
    <3>1. outs = Empty
      BY <2>2
    <3> QED BY <2>2, <3>1, NothingCaptured
  <2> QED BY <2>1, <2>2
<1>4. ran => ~BodyRaises(Args(shape)) /\ ~ins.raised
  OBVIOUS
<1>5. ran \in BOOLEAN /\ (~ins.raised) \in BOOLEAN
  OBVIOUS
<1> HIDE DEF ins, ran, outs
<1>6. /\ Quiet(ins) \in Ios /\ ~Quiet(ins).raised
      /\ Quiet(outs) \in Ios /\ ~Quiet(outs).raised
      /\ Quiet(outs).list = outs.list /\ Quiet(outs).formats = outs.formats
  BY <1>2, <1>3, QuietSame
<1>7. node'.ins = Quiet(ins) /\ node'.outs = Quiet(outs) /\ node'.idx = 0
  BY <1>1
<1>8. node' \in NodeStates
  BY <1>1, <1>5, <1>6 DEF NodeStates
<1>9. IsNode(node')
  BY <1>6, <1>7, <1>8 DEF IsNode
<1>10. Placed(node'.outs)
  BY <1>3, <1>6, <1>7 DEF Placed, At
<1>11. Publish(outs) = Publish(node'.outs)
  BY <1>6, <1>7 DEF Publish, Described
<1>12. ASSUME indexed'
       PROVE  /\ ~BodyRaises(Args(shape))
              /\ Captured(node'.ins, program.params, shape, Args(shape), Len(program.params))
              /\ Captured(node'.outs, program.returns, OutPaths(program),
                          ResultsOf(Args(shape)), Len(program.returns))
  <2>1. ran /\ ~outs.raised /\ ~ins.raised
    BY <1>1, <1>4, <1>12
  <2>2. Captured(ins, program.params, shape, Args(shape), Len(program.params))
    BY <1>2, <2>1
  <2>3. Captured(outs, program.returns, OutPaths(program), ResultsOf(Args(shape)),
                 Len(program.returns))
    BY <1>3, <2>1
  <2> QED BY <1>2, <1>3, <1>4, <1>7, <2>1, <2>2, <2>3, QuietCaptured
<1>13. indexed' \in BOOLEAN
  BY <1>1
<1>14. ports' = ports \/ ports' = Publish(node'.outs)
  BY <1>1, <1>11
<1> QED BY <1>1, <1>7, <1>9, <1>10, <1>12, <1>13, <1>14

\* The sample a call completed.
NewSample(shape) ==
    /\ ~BodyRaises(Args(shape))
    /\ Known(node.ins, program.params, shape, Len(program.params))
    /\ OneName(program.params, shape, Len(program.params)) =>
          StoredIn(node.ins, node'.ins, program.params, shape, Args(shape), node.idx + 1,
                   Len(program.params))
    /\ OneName(program.returns, OutPaths(program), Len(program.returns)) =>
          StoredIn(node.outs, node'.outs, program.returns, OutPaths(program),
                   ResultsOf(Args(shape)), node.idx + 1, Len(program.returns))

LEMMA KeptQuiet ==
    ASSUME NEW a, NEW b \in Ios, NEW slot, Kept(a, b, slot) PROVE Kept(a, Quiet(b), slot)
BY QuietSame DEF Kept

LEMMA ReenterFacts ==
    ASSUME FunctionTyped, NEW shape \in Shapes, NEW active \in ParamIds \cup {0},
           NEW fails \in BOOLEAN, Reenter(shape, active, fails)
    PROVE  /\ node # NoNode /\ IsNode(node') /\ UNCHANGED <<indexed, ports>>
           /\ Kept(node.ins, node'.ins, node.idx + 1)
           /\ Kept(node.outs, node'.outs, node.idx + 1)
           /\ \/ node'.idx = node.idx
              \/ node'.idx = node.idx + 1 /\ node.idx + 1 =< MaxCache /\ NewSample(shape)
<1> DEFINE slot == node.idx + 1
           ins  == Recorded(node.ins, Arguments(shape, active), slot)
           ran  == ~ins.raised /\ ~fails /\ ~BodyRaises(Args(shape))
           outs == IF ran THEN Recorded(node.outs, Results(shape), slot) ELSE node.outs
           idx  == IF ran /\ ~outs.raised /\ node.idx < MaxCache THEN node.idx + 1 ELSE node.idx
<1>1. /\ node # NoNode /\ UNCHANGED <<indexed, ports>>
      /\ node' = [node EXCEPT !.ins = Quiet(ins), !.outs = Quiet(outs), !.idx = idx]
  BY DEF Reenter, Quiet
<1>2. /\ node \in NodeStates /\ ~node.ins.raised /\ ~node.outs.raised
      /\ node.ins \in Ios /\ node.outs \in Ios /\ node.idx \in Nat
      /\ node.idx = 0 \/ node.idx =< MaxCache
  BY <1>1 DEF FunctionTyped, IsNode, NodeStates
<1>3. slot \in Nat /\ slot > 0
  BY <1>2
<1>4. /\ ins \in Ios /\ Kept(node.ins, ins, slot)
      /\ ~ins.raised => Known(node.ins, program.params, shape, Len(program.params))
      /\ ~ins.raised /\ slot =< MaxCache
            /\ OneName(program.params, shape, Len(program.params)) =>
           StoredIn(node.ins, ins, program.params, shape, Args(shape), slot,
                    Len(program.params))
  <2>1. Givens(Arguments(shape, active), program.params, shape, Args(shape))
        /\ Len(Arguments(shape, active)) = Len(program.params)
    BY ArgumentsGiven DEF FunctionTyped
  <2> HIDE DEF slot
  <2> QED BY <1>2, <1>3, <2>1, StoreAll
<1>5. /\ outs \in Ios /\ Kept(node.outs, outs, slot)
      /\ ran /\ ~outs.raised /\ slot =< MaxCache
            /\ OneName(program.returns, OutPaths(program), Len(program.returns)) =>
           StoredIn(node.outs, outs, program.returns, OutPaths(program),
                    ResultsOf(Args(shape)), slot, Len(program.returns))
  <2>1. CASE ran
    <3>1. Givens(Results(shape), program.returns, OutPaths(program), ResultsOf(Args(shape)))
          /\ Len(Results(shape)) = Len(program.returns)
      BY <2>1, ResultsGiven DEF FunctionTyped
    <3>2. outs = Recorded(node.outs, Results(shape), slot)
      BY <2>1
    <3> HIDE DEF outs, slot, ran
    <3> QED BY <1>2, <1>3, <3>1, <3>2, StoreAll
  <2>2. CASE ~ran
    <3>1. outs = node.outs
      BY <2>2
    <3> HIDE DEF ran, slot
    <3> QED BY <1>2, <2>2, <3>1, KeptSame
  <2> QED BY <2>1, <2>2
<1>6. ran => ~BodyRaises(Args(shape)) /\ ~ins.raised
  OBVIOUS
<1>7. idx = node.idx
      \/ (ran /\ ~outs.raised /\ node.idx < MaxCache /\ idx = node.idx + 1)
  OBVIOUS
<1> HIDE DEF ins, ran, outs, idx
<1>8. /\ Quiet(ins) \in Ios /\ ~Quiet(ins).raised /\ Quiet(ins).list = ins.list
      /\ Quiet(outs) \in Ios /\ ~Quiet(outs).raised /\ Quiet(outs).list = outs.list
  BY <1>4, <1>5, QuietSame
<1>9. idx \in Nat /\ (idx = 0 \/ idx =< MaxCache)
  BY <1>2, <1>7, ProgramAssumption
<1>10. /\ node' \in NodeStates
       /\ node'.ins = Quiet(ins) /\ node'.outs = Quiet(outs) /\ node'.idx = idx
  BY <1>1, <1>2, <1>8, <1>9 DEF NodeStates
<1>11. IsNode(node')
  BY <1>8, <1>9, <1>10 DEF IsNode
<1>12. Kept(node.ins, node'.ins, slot) /\ Kept(node.outs, node'.outs, slot)
  <2> HIDE DEF slot
  <2> QED BY <1>4, <1>5, <1>10, KeptQuiet
<1>13. ASSUME ran, ~outs.raised, node.idx < MaxCache
       PROVE  node.idx + 1 =< MaxCache /\ NewSample(shape)
  <2>1. slot =< MaxCache
    BY <1>2, <1>13, ProgramAssumption
  <2>2. OneName(program.params, shape, Len(program.params)) =>
           StoredIn(node.ins, node'.ins, program.params, shape, Args(shape), slot,
                    Len(program.params))
    <3> HIDE DEF slot
    <3> QED BY <1>4, <1>6, <1>8, <1>10, <1>13, <2>1 DEF StoredIn
  <2>3. OneName(program.returns, OutPaths(program), Len(program.returns)) =>
           StoredIn(node.outs, node'.outs, program.returns, OutPaths(program),
                    ResultsOf(Args(shape)), slot, Len(program.returns))
    <3> HIDE DEF slot
    <3> QED BY <1>5, <1>8, <1>10, <1>13, <2>1 DEF StoredIn
  <2> QED BY <1>4, <1>6, <1>13, <2>1, <2>2, <2>3 DEF NewSample
<1> QED BY <1>1, <1>7, <1>10, <1>11, <1>12, <1>13

LEMMA RenamedFacts ==
    ASSUME NEW io \in Ios, NEW both, NEW suffix \in Words
    PROVE  /\ Renamed(io, both, suffix) \in Ios
           /\ Renamed(io, both, suffix).formats = io.formats
           /\ Renamed(io, both, suffix).raised = io.raised
           /\ Len(Renamed(io, both, suffix).list) = Len(io.list)
           /\ \A m \in 1 .. Len(io.list) :
                 LET d == Renamed(io, both, suffix).list[m]
                 IN  /\ d.name = IF io.list[m].name \in both
                                 THEN Append(io.list[m].name, suffix) ELSE io.list[m].name
                     /\ d.value = io.list[m].value /\ d.port = io.list[m].port
                     /\ d.cached = io.list[m].cached
<1> DEFINE W(d) == IF d.name \in both THEN [d EXCEPT !.name = Append(d.name, suffix)] ELSE d
           r == Renamed(io, both, suffix)
<1>1. io.list \in Seq(Descs) /\ Len(io.list) \in Nat /\ DOMAIN io.list = 1 .. Len(io.list)
  BY DEF Ios
<1>2. r = [io EXCEPT !.list = [i \in 1 .. Len(io.list) |-> W(io.list[i])]]
  BY <1>1 DEF Renamed
<1>3. ASSUME NEW d \in Descs
      PROVE  /\ W(d) \in Descs
             /\ W(d).name = IF d.name \in both THEN Append(d.name, suffix) ELSE d.name
             /\ W(d).value = d.value /\ W(d).port = d.port /\ W(d).cached = d.cached
  <2>1. CASE d.name \in both
    <3>1. Append(d.name, suffix) \in Seq(Words)
      BY DEF Descs
    <3>2. W(d) = [d EXCEPT !.name = Append(d.name, suffix)]
      BY <2>1
    <3> HIDE DEF W
    <3> QED BY <2>1, <3>1, <3>2 DEF Descs
  <2>2. CASE d.name \notin both
    BY <2>2
  <2> QED BY <2>1, <2>2
<1> HIDE DEF W
<1>4. \A m \in 1 .. Len(io.list) : io.list[m] \in Descs
  BY <1>1
<1>5. [i \in 1 .. Len(io.list) |-> W(io.list[i])] \in Seq(Descs)
  BY <1>1, <1>3, <1>4
<1> HIDE DEF r
<1>6. /\ r \in Ios /\ r.formats = io.formats /\ r.raised = io.raised
      /\ r.list = [i \in 1 .. Len(io.list) |-> W(io.list[i])]
  BY <1>2, <1>5 DEF Ios
<1>7. Len(r.list) = Len(io.list) /\ \A m \in 1 .. Len(io.list) : r.list[m] = W(io.list[m])
  BY <1>1, <1>6
<1> QED BY <1>3, <1>4, <1>6, <1>7 DEF r
NamesUsed(n) == NamesOf(n.ins.list) \cup NamesOf(n.outs.list)

\* The names in `both` are given suffixes that make no name in use.
LEMMA CompileFacts ==
    ASSUME FunctionTyped, NEW onnx \in BOOLEAN, Compile(onnx)
    PROVE  /\ indexed /\ ~compiled /\ compiled' = TRUE /\ IsNode(node')
           /\ UNCHANGED <<program, calls, indexed, ports>> /\ node'.idx = node.idx
           /\ \E both :
                 /\ \A x \in both : Append(x, "in") \notin NamesUsed(node)
                                    /\ Append(x, "out") \notin NamesUsed(node)
                 /\ node'.ins = Renamed(node.ins, both, "in")
                 /\ node'.outs = Renamed(node.outs, both, "out")
<1> DEFINE both == IF onnx THEN NamesOf(node.ins.list) \cap NamesOf(node.outs.list) ELSE {}
<1>1. /\ indexed /\ ~compiled /\ compiled' = TRUE
      /\ UNCHANGED <<program, calls, indexed, ports>>
      /\ \A x \in both : Append(x, "in") \notin NamesUsed(node)
                         /\ Append(x, "out") \notin NamesUsed(node)
      /\ node' = [node EXCEPT !.ins = Renamed(node.ins, both, "in"),
                              !.outs = Renamed(node.outs, both, "out")]
  BY DEF Compile, NamesUsed
<1>2. IsNode(node)
  BY <1>1 DEF FunctionTyped
<1>3. node \in NodeStates /\ node.ins \in Ios /\ node.outs \in Ios
      /\ ~node.ins.raised /\ ~node.outs.raised
  BY <1>2 DEF IsNode, NodeStates
<1> HIDE DEF both
<1>4. "in" \in Words /\ "out" \in Words
  BY DEF Words
<1>5. Renamed(node.ins, both, "in") \in Ios /\ ~Renamed(node.ins, both, "in").raised
  BY <1>3, <1>4, RenamedFacts
<1>6. Renamed(node.outs, both, "out") \in Ios /\ ~Renamed(node.outs, both, "out").raised
  BY <1>3, <1>4, RenamedFacts
<1>7. /\ node' \in NodeStates /\ node'.ins = Renamed(node.ins, both, "in")
      /\ node'.outs = Renamed(node.outs, both, "out") /\ node'.idx = node.idx
  BY <1>1, <1>3, <1>5, <1>6 DEF NodeStates
<1>8. IsNode(node')
  BY <1>2, <1>5, <1>6, <1>7 DEF IsNode
<1> QED BY <1>1, <1>7, <1>8

LEMMA FunctionStart == FunctionInit => FunctionTyped
<1> SUFFICES ASSUME FunctionInit PROVE FunctionTyped
  OBVIOUS
<1>1. program \in Programs /\ calls = 0 /\ node = NoNode
  BY DEF FunctionInit
<1>2. indexed = FALSE /\ compiled = FALSE
  BY DEF FunctionInit
<1>3. calls \in Nat
  BY <1>1
<1>4. indexed \in BOOLEAN /\ compiled \in BOOLEAN /\ ~indexed
  BY <1>2, Zenon
<1> QED BY <1>1, <1>3, <1>4 DEF FunctionTyped

LEMMA FunctionStep == FunctionTyped /\ [FunctionNext]_functionVars => FunctionTyped'
<1> SUFFICES ASSUME FunctionTyped, [FunctionNext]_functionVars PROVE FunctionTyped'
  OBVIOUS
<1>1. CASE Call
  <2>1. calls' = calls + 1 /\ UNCHANGED <<program, compiled>>
    BY <1>1 DEF Call
  <2>2. CASE \E shape \in Shapes, active \in ParamIds \cup {0}, fails \in BOOLEAN :
                Capture(shape, active, fails)
    <3>1. IsNode(node') /\ indexed' \in BOOLEAN
      BY <2>2, CaptureFacts
    <3>2. node' # NoNode
      BY <3>1, IsNodeNot
    <3> QED BY <2>1, <3>1, <3>2 DEF FunctionTyped
  <2>3. CASE \E shape \in Shapes, active \in ParamIds \cup {0}, fails \in BOOLEAN :
                Reenter(shape, active, fails)
    <3>1. IsNode(node') /\ indexed' = indexed
      BY <2>3, ReenterFacts
    <3>2. node' # NoNode
      BY <3>1, IsNodeNot
    <3> QED BY <2>1, <3>1, <3>2 DEF FunctionTyped
  <2>4. CASE Refused
    BY <2>1, <2>4 DEF Refused, FunctionTyped
  <2> QED BY <1>1, <2>2, <2>3, <2>4 DEF Call
<1>2. CASE \E onnx \in BOOLEAN : Compile(onnx)
  <2>1. IsNode(node') /\ compiled' = TRUE /\ UNCHANGED <<program, calls, indexed, ports>>
    BY <1>2, CompileFacts
  <2>2. node' # NoNode
    BY <2>1, IsNodeNot
  <2> QED BY <2>1, <2>2 DEF FunctionTyped
<1>3. CASE UNCHANGED functionVars
  BY <1>3 DEF FunctionTyped, functionVars
<1> QED BY <1>1, <1>2, <1>3 DEF FunctionNext

\* What a function node records keeps its type, its index stays within the
\* samples kept, and a completed node has been called.
THEOREM FunctionTypeCorrect == FunctionSpec => []FunctionTyped
  BY FunctionStart, FunctionStep, PTL DEF FunctionSpec

-----------------------------------------------------------------------------
(* Output ports                                                            *)

PortsInv == (node = NoNode => ports = << >>) /\ PortsNameOutputs

\* A node published once: what its ports say is what its descriptions do.
LEMMA PublishNames ==
    ASSUME ports = << >>, NEW io \in Ios, Placed(io), NEW t \in DOMAIN Publish(io)
    PROVE  \E i \in DOMAIN io.list :
               io.list[i].value = t /\ io.list[i].port = Publish(io)[t]
<1> DEFINE Of == {i \in Described(io) : io.list[i].value = t}
<1>1. DOMAIN io.list = 1 .. Len(io.list) /\ Len(io.list) \in Nat
      /\ DOMAIN io.formats = 1 .. Len(io.formats)
  BY DEF Ios
<1>2. Described(io) \subseteq 1 .. Len(io.list)
  <2> SUFFICES ASSUME NEW m \in Described(io) PROVE m \in 1 .. Len(io.list)
    OBVIOUS
  <2>1. PICK p \in 1 .. Len(io.formats) : m \in ToSet(io.formats[p].at)
    BY <1>1 DEF Described, ToSet
  <2>2. PICK i \in DOMAIN io.formats[p].at : m = io.formats[p].at[i]
    BY <2>1 DEF ToSet
  <2> QED BY <2>2 DEF Placed, At
<1>3. DOMAIN ports = {}
  OBVIOUS
<1>4. t \in {io.list[i].value : i \in Described(io)}
  BY <1>3 DEF Publish
<1>5. Of # {} /\ Of \subseteq 0 .. Len(io.list)
  BY <1>1, <1>2, <1>4
<1>6. Publish(io)[t] = IF Of = {} THEN ports[t] ELSE io.list[Max(Of)].port
  BY <1>3, <1>4 DEF Publish
<1>7. Max(Of) \in Of
  <2> HIDE DEF Of
  <2> QED BY <1>1, <1>5, MaxIn
<1>8. Max(Of) \in DOMAIN io.list /\ io.list[Max(Of)].value = t
  BY <1>1, <1>2, <1>7
<1> HIDE DEF Of
<1> QED BY <1>5, <1>6, <1>8

\* Later steps leave the values and the ports of the descriptions alone.
LEMMA PortsKept ==
    ASSUME IsNode(node), IsNode(node'), PortsNameOutputs, ports' = ports,
           Len(node'.outs.list) = Len(node.outs.list),
           \A m \in 1 .. Len(node.outs.list) :
               /\ node'.outs.list[m].value = node.outs.list[m].value
               /\ node'.outs.list[m].port = node.outs.list[m].port
    PROVE  PortsNameOutputs'
<1>1. DOMAIN node.outs.list = 1 .. Len(node.outs.list)
      /\ DOMAIN node'.outs.list = 1 .. Len(node.outs.list)
  BY DEF IsNode, NodeStates, Ios
<1> QED BY <1>1 DEF PortsNameOutputs

LEMMA PortsStep ==
    FunctionTyped /\ PortsInv /\ [FunctionNext]_functionVars => PortsInv'
<1> SUFFICES ASSUME FunctionTyped, PortsInv, [FunctionNext]_functionVars PROVE PortsInv'
  OBVIOUS
<1>1. ASSUME NEW shape \in Shapes, NEW active \in ParamIds \cup {0}, NEW fails \in BOOLEAN,
             Capture(shape, active, fails)
      PROVE  PortsInv'
  <2>1. /\ node = NoNode /\ IsNode(node') /\ Placed(node'.outs)
        /\ ports' = ports \/ ports' = Publish(node'.outs)
    BY <1>1, CaptureFacts
  <2>2. node' # NoNode /\ node'.outs \in Ios /\ ports = << >>
    BY <2>1, IsNodeNot DEF IsNode, NodeStates, PortsInv
  <2>3. CASE ports' = ports
    BY <2>2, <2>3 DEF PortsInv, PortsNameOutputs
  <2>4. CASE ports' = Publish(node'.outs)
    <3>1. \A t \in DOMAIN Publish(node'.outs) : \E i \in DOMAIN node'.outs.list :
             node'.outs.list[i].value = t /\ node'.outs.list[i].port = Publish(node'.outs)[t]
      BY <2>1, <2>2, PublishNames
    <3> QED BY <2>2, <2>4, <3>1 DEF PortsInv, PortsNameOutputs
  <2> QED BY <2>1, <2>3, <2>4
<1>2. ASSUME NEW shape \in Shapes, NEW active \in ParamIds \cup {0}, NEW fails \in BOOLEAN,
             Reenter(shape, active, fails)
      PROVE  PortsInv'
  <2>1. /\ node # NoNode /\ IsNode(node') /\ ports' = ports
        /\ Kept(node.outs, node'.outs, node.idx + 1)
    BY <1>2, ReenterFacts
  <2>2. IsNode(node) /\ node' # NoNode
    BY <2>1, IsNodeNot DEF FunctionTyped
  <2>3. PortsNameOutputs'
    BY <2>1, <2>2, PortsKept DEF Kept, PortsInv
  <2> QED BY <2>2, <2>3 DEF PortsInv
<1>3. CASE Refused
  BY <1>3 DEF Refused, PortsInv, PortsNameOutputs
<1>4. ASSUME NEW onnx \in BOOLEAN, Compile(onnx) PROVE PortsInv'
  <2>1. indexed /\ IsNode(node') /\ ports' = ports
    BY <1>4, CompileFacts
  <2>2. PICK both : node'.outs = Renamed(node.outs, both, "out")
    BY <1>4, CompileFacts
  <2>3. IsNode(node) /\ node' # NoNode /\ node.outs \in Ios
    BY <2>1, IsNodeNot DEF FunctionTyped, IsNode, NodeStates
  <2> "out" \in Words
    BY DEF Words
  <2>4. /\ Len(node'.outs.list) = Len(node.outs.list)
        /\ \A m \in 1 .. Len(node.outs.list) :
              /\ node'.outs.list[m].value = node.outs.list[m].value
              /\ node'.outs.list[m].port = node.outs.list[m].port
    BY <2>2, <2>3, RenamedFacts
  <2>5. PortsNameOutputs'
    BY <2>1, <2>3, <2>4, PortsKept DEF PortsInv
  <2> QED BY <2>3, <2>5 DEF PortsInv
<1>5. CASE UNCHANGED functionVars
  BY <1>5 DEF functionVars, PortsInv, PortsNameOutputs
<1> QED BY <1>1, <1>2, <1>3, <1>4, <1>5 DEF FunctionNext, Call

\* The port a returned tensor carries names the description that holds it, for
\* every annotated function and every sequence of calls.
THEOREM PortsAlways == FunctionSpec => []PortsNameOutputs
<1>1. FunctionInit => FunctionTyped /\ PortsInv
  <2>1. FunctionInit => PortsInv
    BY DEF FunctionInit, PortsInv, PortsNameOutputs
  <2> QED BY <2>1, FunctionStart
<1>2. FunctionTyped /\ PortsInv /\ [FunctionNext]_functionVars => FunctionTyped' /\ PortsInv'
  BY FunctionStep, PortsStep
<1>3. PortsInv => PortsNameOutputs
  BY DEF PortsInv
<1> QED BY <1>1, <1>2, <1>3, PTL DEF FunctionSpec
-----------------------------------------------------------------------------
(* The samples                                                             *)

SampleAt(io, k, m) == IF k = 0 THEN io.list[m].value ELSE io.list[m].cached[k]

\* In sample k each leaf of a result is the leaf of an argument the body says.
Agree(f, ins, outs, s, k) ==
    \A r \in 1 .. Len(f.returns) : \A i \in 1 .. Len(f.body[r].paths) :
        \E j \in 1 .. Len(s[From(f, r, i)[1]]) :
            /\ s[From(f, r, i)[1]][j] = From(f, r, i)[2]
            /\ SampleAt(outs, k, At(outs, r, i))
                  = SampleAt(ins, k, At(ins, From(f, r, i)[1], j))

FirstNames(f, ins, outs, s) ==
    /\ Named(ins, f.params, s, Len(f.params))
    /\ Named(outs, f.returns, OutPaths(f), Len(f.returns))

Replayable(f, n, renamed, s) ==
    /\ Interfaced(f, n.ins, n.outs, s)
    /\ \A k \in 0 .. n.idx : Agree(f, n.ins, n.outs, s, k)
    /\ ~renamed => FirstNames(f, n.ins, n.outs, s)

SamplesInv == indexed => \E s \in Shapes : Replayable(program, node, compiled, s)

LEMMA CaptureReplayable ==
    ASSUME FunctionTyped, NamesApart(program), NEW shape \in Shapes,
           NEW active \in ParamIds \cup {0}, NEW fails \in BOOLEAN,
           Capture(shape, active, fails), indexed'
    PROVE  Replayable(program, node', compiled, shape)
<1> DEFINE ins  == node'.ins
           outs == node'.outs
<1>1. /\ node'.idx = 0 /\ ~BodyRaises(Args(shape)) /\ IsNode(node')
      /\ Captured(ins, program.params, shape, Args(shape), Len(program.params))
      /\ Captured(outs, program.returns, OutPaths(program), ResultsOf(Args(shape)),
                  Len(program.returns))
  BY CaptureFacts
<1>2. program \in Programs /\ shape \in ShapesOf(program)
  BY DEF FunctionTyped, Shapes
<1>3. ins \in Ios /\ outs \in Ios
  BY <1>1 DEF IsNode, NodeStates
<1>4. FirstNames(program, ins, outs, shape)
  BY <1>1 DEF Captured, FirstNames
<1>5. Interfaced(program, ins, outs, shape)
  <2> HIDE DEF ins, outs
  <2> QED BY <1>1, <1>2, <1>3, CapturedApart DEF Captured
<1>6. ASSUME NEW r \in 1 .. Len(program.returns), NEW i \in 1 .. Len(program.body[r].paths)
      PROVE  \E j \in 1 .. Len(shape[From(program, r, i)[1]]) :
                /\ shape[From(program, r, i)[1]][j] = From(program, r, i)[2]
                /\ SampleAt(outs, 0, At(outs, r, i))
                      = SampleAt(ins, 0, At(ins, From(program, r, i)[1], j))
  <2> DEFINE w == From(program, r, i)
  <2>1. w[1] \in 1 .. Len(program.params) /\ w[2] \in ToSet(shape[w[1]])
    BY <1>1, <1>2, ReadsFound
  <2>2. DOMAIN shape[w[1]] = 1 .. Len(shape[w[1]])
    BY <1>2, <2>1, ShapeTyped, StructureFacts
  <2>3. PICK j \in 1 .. Len(shape[w[1]]) : shape[w[1]][j] = w[2]
    BY <2>1, <2>2 DEF ToSet
  <2>4. ins.list[At(ins, w[1], j)].value = Args(shape)[w[1]][w[2]]
    <3> HIDE DEF w, ins
    <3> QED BY <1>1, <2>1, <2>3 DEF Captured, Holds
  <2>5. OutPaths(program)[r] = program.body[r].paths
    BY <1>2, BodyTyped
  <2>6. outs.list[At(outs, r, i)].value = ResultsOf(Args(shape))[r][program.body[r].paths[i]]
    <3> HIDE DEF outs
    <3> QED BY <1>1, <2>5 DEF Captured, Holds
  <2>7. ResultsOf(Args(shape))[r] = Result(r, Args(shape))
    <3>1. DOMAIN program.returns = 1 .. Len(program.returns)
      BY <1>2, ProgramTyped
    <3> QED BY <3>1 DEF ResultsOf
  <2>8. Result(r, Args(shape))[program.body[r].paths[i]] = Args(shape)[w[1]][w[2]]
    BY <1>2, ResultLeaf
  <2>9. SampleAt(outs, 0, At(outs, r, i)) = SampleAt(ins, 0, At(ins, w[1], j))
    BY <2>4, <2>6, <2>7, <2>8 DEF SampleAt
  <2> QED BY <2>3, <2>9
<1>7. Agree(program, ins, outs, shape, 0)
  BY <1>6 DEF Agree
<1>8. \A k \in 0 .. node'.idx : k = 0
  BY <1>1
<1> QED BY <1>4, <1>5, <1>7, <1>8 DEF Replayable

\* Storing a sample keeps the interface.
LEMMA KeptInterface ==
    ASSUME NEW io \in Ios, NEW r, NEW slot, Kept(io, r, slot), NEW names, NEW shape, NEW n,
           Interface(io, names, shape, n)
    PROVE  /\ Interface(r, names, shape, n)
           /\ \A p \in 1 .. n : \A i \in 1 .. Len(shape[p]) :
                 /\ At(r, p, i) = At(io, p, i) /\ At(io, p, i) \in 1 .. Len(io.list)
                 /\ r.list[At(r, p, i)].name = io.list[At(io, p, i)].name
           /\ Distinct(io) => Distinct(r)
<1>1. Len(r.list) = Len(io.list) /\ r.formats = io.formats
      /\ \A m \in 1 .. Len(io.list) : r.list[m].name = io.list[m].name
  BY DEF Kept
<1>2. Interface(r, names, shape, n)
  BY <1>1 DEF Interface, At
<1>3. Distinct(io) => Distinct(r)
  BY <1>1 DEF Distinct
<1>4. \A p, i : At(r, p, i) = At(io, p, i)
  BY <1>1 DEF At
<1>5. \A p \in 1 .. n : \A i \in 1 .. Len(shape[p]) : At(io, p, i) \in 1 .. Len(io.list)
  BY DEF Interface
<1> QED BY <1>1, <1>2, <1>3, <1>4, <1>5

LEMMA KeptInterfaced ==
    ASSUME NEW f, NEW s, NEW ins \in Ios, NEW outs \in Ios, NEW slot,
           NEW ins2, NEW outs2, Kept(ins, ins2, slot), Kept(outs, outs2, slot),
           Interfaced(f, ins, outs, s)
    PROVE  /\ Interfaced(f, ins2, outs2, s)
           /\ FirstNames(f, ins, outs, s) => FirstNames(f, ins2, outs2, s)
<1>1. /\ Interface(ins2, f.params, s, Len(f.params)) /\ Distinct(ins2)
      /\ \A p \in 1 .. Len(f.params) : \A i \in 1 .. Len(s[p]) :
            ins2.list[At(ins2, p, i)].name = ins.list[At(ins, p, i)].name
  BY KeptInterface DEF Interfaced
<1>2. /\ Interface(outs2, f.returns, OutPaths(f), Len(f.returns)) /\ Distinct(outs2)
      /\ \A r \in 1 .. Len(f.returns) : \A i \in 1 .. Len(OutPaths(f)[r]) :
            outs2.list[At(outs2, r, i)].name = outs.list[At(outs, r, i)].name
  BY KeptInterface DEF Interfaced
<1>3. PackApart(ins2, f.params, s, Len(f.params))
  BY <1>1 DEF Interfaced, PackApart
<1>4. UnpackApart(outs2, f.returns, OutPaths(f), Len(f.returns))
  BY <1>2 DEF Interfaced, UnpackApart
<1>5. FirstNames(f, ins, outs, s) => FirstNames(f, ins2, outs2, s)
  BY <1>1, <1>2 DEF FirstNames, Named
<1> QED BY <1>1, <1>2, <1>3, <1>4, <1>5 DEF Interfaced

\* The samples before the one stored are as they were.
LEMMA KeptAgree ==
    ASSUME NEW f \in Programs, NEW s \in ShapesOf(f), NEW ins \in Ios, NEW outs \in Ios,
           NEW slot \in Nat, NEW ins2, NEW outs2,
           Kept(ins, ins2, slot), Kept(outs, outs2, slot), Interfaced(f, ins, outs, s),
           NEW k \in Nat, k # slot, k = 0 \/ k =< MaxCache, Agree(f, ins, outs, s, k)
    PROVE  Agree(f, ins2, outs2, s, k)
<1>0. MaxCache \in Int
  BY ProgramAssumption
<1>1. k = 0 \/ k \in 1 .. MaxCache
  BY <1>0
<1>2. \A m \in 1 .. Len(ins.list) : SampleAt(ins2, k, m) = SampleAt(ins, k, m)
  BY <1>1 DEF Kept, SampleAt
<1>3. \A m \in 1 .. Len(outs.list) : SampleAt(outs2, k, m) = SampleAt(outs, k, m)
  BY <1>1 DEF Kept, SampleAt
<1>4. \A p \in 1 .. Len(f.params) : \A i \in 1 .. Len(s[p]) :
         At(ins2, p, i) = At(ins, p, i) /\ At(ins, p, i) \in 1 .. Len(ins.list)
  BY KeptInterface DEF Interfaced
<1>5. \A r \in 1 .. Len(f.returns) : \A i \in 1 .. Len(OutPaths(f)[r]) :
         At(outs2, r, i) = At(outs, r, i) /\ At(outs, r, i) \in 1 .. Len(outs.list)
  BY KeptInterface DEF Interfaced
<1>6. ASSUME NEW r \in 1 .. Len(f.returns), NEW i \in 1 .. Len(f.body[r].paths)
      PROVE  \E j \in 1 .. Len(s[From(f, r, i)[1]]) :
                /\ s[From(f, r, i)[1]][j] = From(f, r, i)[2]
                /\ SampleAt(outs2, k, At(outs2, r, i))
                      = SampleAt(ins2, k, At(ins2, From(f, r, i)[1], j))
  <2> DEFINE w == From(f, r, i)
  <2>1. w[1] \in 1 .. Len(f.params) /\ OutPaths(f)[r] = f.body[r].paths
    BY BodyTyped
  <2>2. PICK j \in 1 .. Len(s[w[1]]) :
           /\ s[w[1]][j] = w[2]
           /\ SampleAt(outs, k, At(outs, r, i)) = SampleAt(ins, k, At(ins, w[1], j))
    BY DEF Agree
  <2> HIDE DEF w
  <2>3. SampleAt(ins2, k, At(ins2, w[1], j)) = SampleAt(ins, k, At(ins, w[1], j))
    BY <1>2, <1>4, <2>1
  <2>4. SampleAt(outs2, k, At(outs2, r, i)) = SampleAt(outs, k, At(outs, r, i))
    BY <1>3, <1>5, <2>1
  <2> QED BY <2>2, <2>3, <2>4 DEF w
<1> QED BY <1>6 DEF Agree

LEMMA NewAgree ==
    ASSUME FunctionTyped, NamesApart(program), node # NoNode,
           NEW s \in Shapes, Interfaced(program, node.ins, node.outs, s),
           FirstNames(program, node.ins, node.outs, s),
           Agree(program, node.ins, node.outs, s, 0),
           NEW shape \in Shapes, NewSample(shape),
           Kept(node.ins, node'.ins, node.idx + 1), Kept(node.outs, node'.outs, node.idx + 1)
    PROVE  Agree(program, node'.ins, node'.outs, s, node.idx + 1)
<1> DEFINE slot == node.idx + 1
           ins  == node.ins
           outs == node.outs
<1>1. /\ program \in Programs /\ s \in ShapesOf(program) /\ shape \in ShapesOf(program)
      /\ ins \in Ios /\ outs \in Ios /\ slot # 0
  BY DEF FunctionTyped, Shapes, IsNode, NodeStates
<1>2. /\ DOMAIN program.params = 1 .. Len(program.params) /\ Len(program.params) \in Nat
      /\ DOMAIN program.returns = 1 .. Len(program.returns) /\ Len(program.returns) \in Nat
  BY <1>1, ProgramTyped
<1>3. \A p \in 1 .. Len(program.params) :
         DOMAIN s[p] = 1 .. Len(s[p]) /\ DOMAIN shape[p] = 1 .. Len(shape[p])
  BY <1>1, ShapeTyped, StructureFacts
<1>4. /\ OneName(program.returns, OutPaths(program), Len(program.returns))
      /\ ArgumentsApart(program, s)
  BY <1>1, CapturedApart DEF FirstNames, Interfaced
<1>5. OneName(program.params, shape, Len(program.params))
  <2>1. Range(LeafNames(program.params, shape)) \subseteq Range(LeafNames(program.params, s))
    <3>1. Known(ins, program.params, shape, Len(program.params))
      BY DEF NewSample
    <3>2. Interface(ins, program.params, s, Len(program.params))
          /\ Named(ins, program.params, s, Len(program.params))
      BY DEF Interfaced, FirstNames
    <3> HIDE DEF ins
    <3> QED BY <1>1, <1>2, <1>3, <3>1, <3>2, AmongNames
  <2>2. IsInjective(LeafNames(program.params, shape))
    BY <1>1, <1>4, <2>1 DEF ArgumentsApart
  <2> QED BY <1>2, <1>3, <2>2, OneNameOf
<1>6. StoredIn(ins, node'.ins, program.params, shape, Args(shape), slot, Len(program.params))
  BY <1>5 DEF NewSample
<1>7. StoredIn(outs, node'.outs, program.returns, OutPaths(program), ResultsOf(Args(shape)),
               slot, Len(program.returns))
  BY <1>4 DEF NewSample
<1>8. \A p \in 1 .. Len(program.params) : \A i \in 1 .. Len(s[p]) :
         At(node'.ins, p, i) = At(ins, p, i) /\ At(ins, p, i) \in 1 .. Len(ins.list)
  <2> HIDE DEF slot
  <2> QED BY <1>1, KeptInterface DEF Interfaced, slot
<1>9. \A r \in 1 .. Len(program.returns) : \A i \in 1 .. Len(OutPaths(program)[r]) :
         At(node'.outs, r, i) = At(outs, r, i) /\ At(outs, r, i) \in 1 .. Len(outs.list)
  <2> HIDE DEF slot
  <2> QED BY <1>1, KeptInterface DEF Interfaced, slot
<1> HIDE DEF slot, ins, outs
<1>10. ASSUME NEW r \in 1 .. Len(program.returns),
              NEW i \in 1 .. Len(program.body[r].paths)
       PROVE  \E j \in 1 .. Len(s[From(program, r, i)[1]]) :
                 /\ s[From(program, r, i)[1]][j] = From(program, r, i)[2]
                 /\ SampleAt(node'.outs, slot, At(node'.outs, r, i))
                       = SampleAt(node'.ins, slot, At(node'.ins, From(program, r, i)[1], j))
  <2> DEFINE w == From(program, r, i)
  <2>1. w[1] \in 1 .. Len(program.params) /\ w[2] \in ToSet(shape[w[1]])
    BY <1>1, ReadsFound DEF NewSample
  <2>2. PICK h \in 1 .. Len(shape[w[1]]) : shape[w[1]][h] = w[2]
    BY <1>3, <2>1 DEF ToSet
  <2>3. PICK j \in 1 .. Len(s[w[1]]) : s[w[1]][j] = w[2]
    BY DEF Agree
  <2>4. ins.list[At(ins, w[1], j)].name = FlatName(program.params[w[1]], w[2])
    BY <2>1, <2>3 DEF FirstNames, Named, ins
  <2>5. node'.ins.list[At(ins, w[1], j)].cached[slot] = Args(shape)[w[1]][w[2]]
    <3>1. At(ins, w[1], j) \in 1 .. Len(ins.list)
      BY <1>8, <2>1
    <3>2. ins.list[At(ins, w[1], j)].name = FlatName(program.params[w[1]], shape[w[1]][h])
      BY <2>2, <2>4
    <3>3. w[1] \in 1 .. Len(program.params)
      BY <2>1
    <3> HIDE DEF w
    <3>4. node'.ins.list[At(ins, w[1], j)].cached[slot] = Args(shape)[w[1]][shape[w[1]][h]]
      BY <1>6, <3>1, <3>2, <3>3 DEF StoredIn
    <3> QED BY <2>2, <3>4
  <2>6. OutPaths(program)[r] = program.body[r].paths
    BY <1>1, BodyTyped
  <2>7. outs.list[At(outs, r, i)].name = FlatName(program.returns[r], program.body[r].paths[i])
    BY <2>6 DEF FirstNames, Named, outs
  <2>8. node'.outs.list[At(outs, r, i)].cached[slot]
           = ResultsOf(Args(shape))[r][program.body[r].paths[i]]
    <3>1. At(outs, r, i) \in 1 .. Len(outs.list)
      BY <1>9, <2>6
    <3>2. outs.list[At(outs, r, i)].name
             = FlatName(program.returns[r], OutPaths(program)[r][i])
      BY <2>6, <2>7
    <3>3. i \in 1 .. Len(OutPaths(program)[r])
      BY <2>6
    <3>4. node'.outs.list[At(outs, r, i)].cached[slot]
             = ResultsOf(Args(shape))[r][OutPaths(program)[r][i]]
      BY <1>7, <3>1, <3>2, <3>3 DEF StoredIn
    <3> QED BY <2>6, <3>4
  <2>9. ResultsOf(Args(shape))[r] = Result(r, Args(shape))
    BY <1>2 DEF ResultsOf
  <2>10. Result(r, Args(shape))[program.body[r].paths[i]] = Args(shape)[w[1]][w[2]]
    BY <1>1, ResultLeaf
  <2>11. At(node'.ins, w[1], j) = At(ins, w[1], j) /\ At(node'.outs, r, i) = At(outs, r, i)
    BY <1>8, <1>9, <2>1, <2>6
  <2> HIDE DEF w
  <2>12. SampleAt(node'.outs, slot, At(node'.outs, r, i))
            = SampleAt(node'.ins, slot, At(node'.ins, w[1], j))
    BY <1>1, <2>5, <2>8, <2>9, <2>10, <2>11 DEF SampleAt
  <2> QED BY <2>3, <2>12 DEF w
<1> QED BY <1>10 DEF Agree, slot

LEMMA ReenterReplayable ==
    ASSUME FunctionTyped, NamesApart(program), ~compiled, NEW s \in Shapes,
           Replayable(program, node, compiled, s),
           NEW shape \in Shapes, NEW active \in ParamIds \cup {0}, NEW fails \in BOOLEAN,
           Reenter(shape, active, fails)
    PROVE  Replayable(program, node', compiled, s)
<1>1. /\ node # NoNode
      /\ Kept(node.ins, node'.ins, node.idx + 1) /\ Kept(node.outs, node'.outs, node.idx + 1)
      /\ \/ node'.idx = node.idx
         \/ node'.idx = node.idx + 1 /\ node.idx + 1 =< MaxCache /\ NewSample(shape)
  BY ReenterFacts
<1>2. /\ program \in Programs /\ s \in ShapesOf(program)
      /\ node.ins \in Ios /\ node.outs \in Ios /\ node.idx \in Nat
      /\ node.idx = 0 \/ node.idx =< MaxCache
  BY <1>1 DEF FunctionTyped, Shapes, IsNode, NodeStates
<1>3. /\ Interfaced(program, node.ins, node.outs, s)
      /\ \A k \in 0 .. node.idx : Agree(program, node.ins, node.outs, s, k)
      /\ FirstNames(program, node.ins, node.outs, s)
  BY DEF Replayable
<1>4. /\ Interfaced(program, node'.ins, node'.outs, s)
      /\ FirstNames(program, node'.ins, node'.outs, s)
  BY <1>1, <1>2, <1>3, KeptInterfaced
<1>5. ASSUME NEW k \in 0 .. node.idx PROVE Agree(program, node'.ins, node'.outs, s, k)
  <2>1. /\ k \in Nat /\ k # node.idx + 1 /\ (k = 0 \/ k =< MaxCache) /\ node.idx + 1 \in Nat
        /\ Agree(program, node.ins, node.outs, s, k)
    BY <1>2, <1>3, ProgramAssumption
  <2> QED BY <1>1, <1>2, <1>3, <2>1, KeptAgree
<1>6. ASSUME NewSample(shape) PROVE Agree(program, node'.ins, node'.outs, s, node.idx + 1)
  <2>1. Agree(program, node.ins, node.outs, s, 0)
    BY <1>2, <1>3
  <2> QED BY <1>1, <1>3, <1>6, <2>1, NewAgree
<1>7. ASSUME NEW k \in 0 .. node'.idx PROVE Agree(program, node'.ins, node'.outs, s, k)
  <2>1. k \in 0 .. node.idx \/ (k = node.idx + 1 /\ NewSample(shape))
    BY <1>1, <1>2
  <2> QED BY <1>5, <1>6, <2>1
<1> QED BY <1>4, <1>7 DEF Replayable
-----------------------------------------------------------------------------
(* The rename                                                              *)

\* A suffixed name is none of those in use.
Fresh(both, suffix, used) == \A x \in both : Append(x, suffix) \notin used

LEMMA RenamedInterface ==
    ASSUME NEW io \in Ios, NEW both, NEW suffix \in Words, NEW used,
           Fresh(both, suffix, used), NamesOf(io.list) \subseteq used,
           NEW names, NEW shape, NEW n, Interface(io, names, shape, n), Distinct(io)
    PROVE  /\ Interface(Renamed(io, both, suffix), names, shape, n)
           /\ Distinct(Renamed(io, both, suffix))
           /\ \A p \in 1 .. n : \A i \in 1 .. Len(shape[p]) :
                 /\ At(Renamed(io, both, suffix), p, i) = At(io, p, i)
                 /\ At(io, p, i) \in 1 .. Len(io.list)
<1> DEFINE r == Renamed(io, both, suffix)
<1>1. /\ r.formats = io.formats /\ Len(r.list) = Len(io.list)
      /\ \A m \in 1 .. Len(io.list) :
            r.list[m].name = IF io.list[m].name \in both
                             THEN Append(io.list[m].name, suffix) ELSE io.list[m].name
  BY RenamedFacts
<1>2. \A p, i : At(r, p, i) = At(io, p, i)
  <2> HIDE DEF r
  <2> QED BY <1>1 DEF At
<1>3. Interface(r, names, shape, n)
  <2> HIDE DEF r
  <2>1. /\ Len(r.formats) = n
        /\ \A p \in 1 .. n : /\ r.formats[p].name = names[p] /\ r.formats[p].paths = shape[p]
                            /\ DOMAIN r.formats[p].at = 1 .. Len(shape[p])
    BY <1>1 DEF Interface
  <2>2. \A p \in 1 .. n : \A i \in 1 .. Len(shape[p]) : At(r, p, i) \in 1 .. Len(r.list)
    BY <1>1, <1>2 DEF Interface
  <2>3. \A m \in 1 .. Len(r.list) :
           \E p \in 1 .. n : \E i \in 1 .. Len(shape[p]) : At(r, p, i) = m
    BY <1>1, <1>2 DEF Interface
  <2>4. \A p, q \in 1 .. n : \A i \in 1 .. Len(shape[p]) : \A j \in 1 .. Len(shape[q]) :
           p < q \/ (p = q /\ i < j) => At(r, p, i) < At(r, q, j)
    BY <1>2 DEF Interface
  <2> QED BY <2>1, <2>2, <2>3, <2>4 DEF Interface
<1>4. \A m \in 1 .. Len(io.list) : io.list[m].name \in Seq(Words) /\ io.list[m].name \in used
  <2>1. io.list \in Seq(Descs) /\ DOMAIN io.list = 1 .. Len(io.list)
    BY DEF Ios
  <2>2. \A m \in 1 .. Len(io.list) : io.list[m] \in Descs /\ io.list[m].name \in NamesOf(io.list)
    BY <2>1 DEF NamesOf
  <2> QED BY <2>2 DEF Descs
<1> HIDE DEF r
<1>5. ASSUME NEW l \in 1 .. Len(io.list), NEW m \in 1 .. Len(io.list),
             r.list[l].name = r.list[m].name
      PROVE  l = m
  <2> DEFINE x == io.list[l].name
             y == io.list[m].name
  <2>1. x = y => l = m
    BY DEF Distinct
  <2>2. x \in Seq(Words) /\ y \in Seq(Words) /\ x \in used /\ y \in used
    BY <1>4
  <2>3. (IF x \in both THEN Append(x, suffix) ELSE x)
           = (IF y \in both THEN Append(y, suffix) ELSE y)
    BY <1>1, <1>5
  <2> HIDE DEF x, y
  <2>4. CASE x \in both /\ y \in both
    <3>1. Append(x, suffix) = Append(y, suffix)
      BY <2>3, <2>4
    <3> QED BY <2>1, <2>2, <3>1, AppendSame
  <2>5. CASE x \notin both \/ y \notin both
    BY <2>1, <2>2, <2>3, <2>5 DEF Fresh
  <2> QED BY <2>4, <2>5
<1>6. Distinct(r)
  BY <1>1, <1>5 DEF Distinct
<1>7. \A p \in 1 .. n : \A i \in 1 .. Len(shape[p]) : At(io, p, i) \in 1 .. Len(io.list)
  BY DEF Interface
<1> QED BY <1>2, <1>3, <1>6, <1>7 DEF r

LEMMA RenamedInterfaced ==
    ASSUME NEW f \in Programs, NamesApart(f), NEW s \in ShapesOf(f),
           NEW ins \in Ios, NEW outs \in Ios, NEW both, NEW used,
           Fresh(both, "in", used), Fresh(both, "out", used),
           NamesOf(ins.list) \subseteq used, NamesOf(outs.list) \subseteq used,
           Interfaced(f, ins, outs, s), FirstNames(f, ins, outs, s)
    PROVE  Interfaced(f, Renamed(ins, both, "in"), Renamed(outs, both, "out"), s)
<1> DEFINE ins2  == Renamed(ins, both, "in")
           outs2 == Renamed(outs, both, "out")
<1>0. "in" \in Words /\ "out" \in Words
  BY DEF Words
<1>1. /\ f.params \in Seq(Seq(STRING)) /\ DOMAIN f.params = 1 .. Len(f.params)
      /\ f.returns \in Seq(Seq(STRING)) /\ DOMAIN f.returns = 1 .. Len(f.returns)
      /\ Len(f.params) \in Nat /\ Len(f.returns) \in Nat
  BY ProgramTyped
<1>2. \A p \in 1 .. Len(f.params) : DOMAIN s[p] = 1 .. Len(s[p])
  BY ShapeTyped, StructureFacts
<1>3. \A r \in 1 .. Len(f.returns) :
         /\ OutPaths(f)[r] = f.body[r].paths /\ IsStructure(OutPaths(f)[r])
         /\ DOMAIN OutPaths(f)[r] = 1 .. Len(OutPaths(f)[r]) /\ Len(OutPaths(f)[r]) \in Nat
  BY BodyTyped, StructureFacts
<1>4. ResultsApart(f) /\ ArgumentsApart(f, s)
  BY CapturedApart DEF Interfaced, FirstNames
<1>5. /\ Interface(ins2, f.params, s, Len(f.params)) /\ Distinct(ins2)
      /\ \A p \in 1 .. Len(f.params) : \A i \in 1 .. Len(s[p]) :
            At(ins2, p, i) = At(ins, p, i) /\ At(ins, p, i) \in 1 .. Len(ins.list)
  BY <1>0, RenamedInterface DEF Interfaced
<1>6. /\ Interface(outs2, f.returns, OutPaths(f), Len(f.returns)) /\ Distinct(outs2)
      /\ \A r \in 1 .. Len(f.returns) : \A i \in 1 .. Len(OutPaths(f)[r]) :
            At(outs2, r, i) = At(outs, r, i) /\ At(outs, r, i) \in 1 .. Len(outs.list)
  BY <1>0, RenamedInterface DEF Interfaced
<1>7. \A m \in 1 .. Len(ins.list) :
         ins2.list[m].name = IF ins.list[m].name \in both
                             THEN Append(ins.list[m].name, "in") ELSE ins.list[m].name
  BY <1>0, RenamedFacts
<1>8. \A m \in 1 .. Len(outs.list) :
         outs2.list[m].name = IF outs.list[m].name \in both
                              THEN Append(outs.list[m].name, "out") ELSE outs.list[m].name
  BY <1>0, RenamedFacts
<1>9. /\ \A m \in 1 .. Len(ins.list) : ins.list[m].name \in used
      /\ \A m \in 1 .. Len(outs.list) : outs.list[m].name \in used
  <2>1. DOMAIN ins.list = 1 .. Len(ins.list) /\ DOMAIN outs.list = 1 .. Len(outs.list)
    BY DEF Ios
  <2> QED BY <2>1 DEF NamesOf
<1> HIDE DEF ins2, outs2
<1>10. ASSUME NEW p \in 1 .. Len(f.params), NEW q \in 1 .. Len(f.params),
              NEW i \in 1 .. Len(s[q]), p < q
       PROVE  ins2.list[At(ins2, q, i)].name # f.params[p]
  <2> DEFINE y == ins.list[At(ins, q, i)].name
  <2>1. /\ ins2.list[At(ins2, q, i)].name = IF y \in both THEN Append(y, "in") ELSE y
        /\ y = FlatName(f.params[q], s[q][i])
    BY <1>5, <1>7 DEF FirstNames, Named
  <2>2. y # f.params[p]
    BY <1>10 DEF Interfaced, PackApart
  <2> HIDE DEF y
  <2>3. CASE s[p] # BareTensor
    <3>1. f.params[p] # Append(FlatName(f.params[q], s[q][i]), "in")
      BY <1>1, <1>2, <1>4, <1>10, <2>3 DEF ArgumentsApart
    <3> QED BY <2>1, <2>2, <3>1
  <2>4. CASE s[p] = BareTensor
    <3>1. f.params[p] \in Seq(STRING)
      BY <1>1
    <3>2. Len(s[p]) = 1 /\ FlatName(f.params[p], s[p][1]) = f.params[p]
      BY <2>4, <3>1, BareName
    <3>3. 1 \in 1 .. Len(s[p])
      BY <3>2
    <3>4. ins.list[At(ins, p, 1)].name = f.params[p] /\ At(ins, p, 1) \in 1 .. Len(ins.list)
      BY <1>5, <3>2, <3>3 DEF FirstNames, Named
    <3>5. f.params[p] \in used
      BY <1>9, <3>4
    <3> QED BY <2>1, <2>2, <3>5 DEF Fresh
  <2> QED BY <2>3, <2>4
<1>11. ASSUME NEW q \in 1 .. Len(f.returns), NEW r \in 1 .. Len(f.returns),
              NEW i \in 1 .. Len(OutPaths(f)[q]), NEW j \in 1 .. Len(OutPaths(f)[r]),
              q < r \/ (q = r /\ i < j)
       PROVE  outs2.list[At(outs2, q, i)].name # f.returns[r]
  <2> DEFINE y == outs.list[At(outs, q, i)].name
  <2>1. /\ outs2.list[At(outs2, q, i)].name = IF y \in both THEN Append(y, "out") ELSE y
        /\ y = FlatName(f.returns[q], OutPaths(f)[q][i])
    BY <1>6, <1>8 DEF FirstNames, Named
  <2>2. y # f.returns[r]
    BY <1>11 DEF Interfaced, UnpackApart
  <2> HIDE DEF y
  <2>3. CASE q = r
    <3>0. /\ i \in 1 .. Len(OutPaths(f)[r]) /\ i < j
          /\ IsStructure(OutPaths(f)[r]) /\ f.returns[r] \in Seq(STRING)
      BY <1>1, <1>3, <1>11, <2>3
    <3>1. y \in Seq(STRING) /\ Len(y) > Len(f.returns[r])
      BY <2>1, <2>3, <3>0, LeavesDeeper
    <3>2. Append(y, "out") # f.returns[r]
      <4>1. y \in Seq(Words) /\ Len(y) \in Nat /\ Len(f.returns[r]) \in Nat
        BY <3>0, <3>1, NameInWords
      <4>2. Len(Append(y, "out")) = Len(y) + 1
        BY <1>0, <4>1
      <4> QED BY <3>1, <4>1, <4>2
    <3> QED BY <2>1, <2>2, <3>2
  <2>4. CASE q < r /\ OutPaths(f)[r] # BareTensor
    <3>0. /\ q \in DOMAIN f.returns /\ r \in DOMAIN f.returns
          /\ f.body[r].paths # BareTensor /\ i \in DOMAIN f.body[q].paths
      BY <1>1, <1>3, <2>4
    <3>1. f.returns[r] # Append(FlatName(f.returns[q], f.body[q].paths[i]), "out")
      BY <1>4, <2>4, <3>0 DEF ResultsApart
    <3> QED BY <1>3, <2>1, <2>2, <3>1
  <2>5. CASE OutPaths(f)[r] = BareTensor
    <3>1. f.returns[r] \in Seq(STRING)
      BY <1>1
    <3>2. Len(OutPaths(f)[r]) = 1 /\ FlatName(f.returns[r], OutPaths(f)[r][1]) = f.returns[r]
      BY <2>5, <3>1, BareName
    <3>3. 1 \in 1 .. Len(OutPaths(f)[r])
      BY <3>2
    <3>4. outs.list[At(outs, r, 1)].name = f.returns[r]
          /\ At(outs, r, 1) \in 1 .. Len(outs.list)
      BY <1>6, <3>2, <3>3 DEF FirstNames, Named
    <3>5. f.returns[r] \in used
      BY <1>9, <3>4
    <3> QED BY <2>1, <2>2, <3>5 DEF Fresh
  <2> QED BY <1>11, <2>3, <2>4, <2>5
<1>12. PackApart(ins2, f.params, s, Len(f.params))
  BY <1>10 DEF PackApart
<1>13. UnpackApart(outs2, f.returns, OutPaths(f), Len(f.returns))
  BY <1>11 DEF UnpackApart
<1>14. NoNameTwice(f.returns, Len(f.returns))
  BY DEF Interfaced
<1> QED BY <1>5, <1>6, <1>12, <1>13, <1>14 DEF Interfaced, ins2, outs2

LEMMA CompileReplayable ==
    ASSUME FunctionTyped, NamesApart(program), NEW s \in Shapes,
           Replayable(program, node, compiled, s), NEW onnx \in BOOLEAN, Compile(onnx)
    PROVE  Replayable(program, node', compiled', s)
<1>1. indexed /\ ~compiled /\ compiled' = TRUE /\ node'.idx = node.idx
  BY CompileFacts
<1>2. PICK both :
         /\ \A x \in both : Append(x, "in") \notin NamesUsed(node)
                            /\ Append(x, "out") \notin NamesUsed(node)
         /\ node'.ins = Renamed(node.ins, both, "in")
         /\ node'.outs = Renamed(node.outs, both, "out")
  BY CompileFacts
<1>3. /\ program \in Programs /\ s \in ShapesOf(program)
      /\ node.ins \in Ios /\ node.outs \in Ios /\ "in" \in Words /\ "out" \in Words
  BY <1>1 DEF FunctionTyped, Shapes, IsNode, NodeStates, Words
<1>4. /\ Interfaced(program, node.ins, node.outs, s)
      /\ \A k \in 0 .. node.idx : Agree(program, node.ins, node.outs, s, k)
      /\ FirstNames(program, node.ins, node.outs, s)
  BY <1>1 DEF Replayable
<1>5. /\ Fresh(both, "in", NamesUsed(node)) /\ Fresh(both, "out", NamesUsed(node))
      /\ NamesOf(node.ins.list) \subseteq NamesUsed(node)
      /\ NamesOf(node.outs.list) \subseteq NamesUsed(node)
  BY <1>2 DEF Fresh, NamesUsed
<1>6. Interfaced(program, node'.ins, node'.outs, s)
  BY <1>2, <1>3, <1>4, <1>5, RenamedInterfaced
<1>7. /\ \A m \in 1 .. Len(node.ins.list) : \A k : 
            SampleAt(node'.ins, k, m) = SampleAt(node.ins, k, m)
      /\ \A p, i : At(node'.ins, p, i) = At(node.ins, p, i)
  BY <1>2, <1>3, RenamedFacts DEF SampleAt, At
<1>8. /\ \A m \in 1 .. Len(node.outs.list) : \A k :
            SampleAt(node'.outs, k, m) = SampleAt(node.outs, k, m)
      /\ \A p, i : At(node'.outs, p, i) = At(node.outs, p, i)
  BY <1>2, <1>3, RenamedFacts DEF SampleAt, At
<1>9. \A p \in 1 .. Len(program.params) : \A i \in 1 .. Len(s[p]) :
         At(node.ins, p, i) \in 1 .. Len(node.ins.list)
  BY <1>4 DEF Interfaced, Interface
<1>10. \A r \in 1 .. Len(program.returns) : \A i \in 1 .. Len(OutPaths(program)[r]) :
         At(node.outs, r, i) \in 1 .. Len(node.outs.list)
  BY <1>4 DEF Interfaced, Interface
<1>11. ASSUME NEW k \in 0 .. node.idx, NEW r \in 1 .. Len(program.returns),
              NEW i \in 1 .. Len(program.body[r].paths)
       PROVE  \E j \in 1 .. Len(s[From(program, r, i)[1]]) :
                 /\ s[From(program, r, i)[1]][j] = From(program, r, i)[2]
                 /\ SampleAt(node'.outs, k, At(node'.outs, r, i))
                       = SampleAt(node'.ins, k, At(node'.ins, From(program, r, i)[1], j))
  <2> DEFINE w == From(program, r, i)
  <2>1. w[1] \in 1 .. Len(program.params) /\ OutPaths(program)[r] = program.body[r].paths
    BY <1>3, BodyTyped
  <2>2. PICK j \in 1 .. Len(s[w[1]]) :
           /\ s[w[1]][j] = w[2]
           /\ SampleAt(node.outs, k, At(node.outs, r, i))
                 = SampleAt(node.ins, k, At(node.ins, w[1], j))
    BY <1>4 DEF Agree
  <2> HIDE DEF w
  <2>3. SampleAt(node'.ins, k, At(node'.ins, w[1], j))
           = SampleAt(node.ins, k, At(node.ins, w[1], j))
    BY <1>7, <1>9, <2>1
  <2>4. SampleAt(node'.outs, k, At(node'.outs, r, i))
           = SampleAt(node.outs, k, At(node.outs, r, i))
    BY <1>8, <1>10, <2>1
  <2> QED BY <2>2, <2>3, <2>4 DEF w
<1>12. ASSUME NEW k \in 0 .. node'.idx PROVE Agree(program, node'.ins, node'.outs, s, k)
  <2>1. k \in 0 .. node.idx
    BY <1>1
  <2> QED BY <1>11, <2>1 DEF Agree
<1> QED BY <1>1, <1>6, <1>12 DEF Replayable

LEMMA SamplesStep ==
    ASSUME FunctionTyped, \A f \in Programs : NamesApart(f), SamplesInv,
           [FunctionNext]_functionVars
    PROVE  SamplesInv'
<1>0. NamesApart(program)
  BY DEF FunctionTyped
<1>1. ASSUME NEW shape \in Shapes, NEW active \in ParamIds \cup {0}, NEW fails \in BOOLEAN,
             Capture(shape, active, fails), UNCHANGED <<program, compiled>>
      PROVE  SamplesInv'
  <2>1. indexed' => Replayable(program, node', compiled, shape)
    BY <1>0, <1>1, CaptureReplayable
  <2>2. Shapes' = Shapes
    BY <1>1 DEF Shapes
  <2> QED BY <1>1, <2>1, <2>2 DEF SamplesInv
<1>2. ASSUME NEW shape \in Shapes, NEW active \in ParamIds \cup {0}, NEW fails \in BOOLEAN,
             Reenter(shape, active, fails), ~compiled, UNCHANGED <<program, compiled>>
      PROVE  SamplesInv'
  <2>1. indexed' = indexed
    BY <1>2 DEF Reenter
  <2>2. \A s \in Shapes : Replayable(program, node, compiled, s)
                             => Replayable(program, node', compiled, s)
    BY <1>0, <1>2, ReenterReplayable
  <2>3. Shapes' = Shapes
    BY <1>2 DEF Shapes
  <2> QED BY <1>2, <2>1, <2>2, <2>3 DEF SamplesInv
<1>3. CASE Refused /\ UNCHANGED <<program, compiled>>
  BY <1>3 DEF Refused, SamplesInv, Shapes
<1>4. ASSUME NEW onnx \in BOOLEAN, Compile(onnx) PROVE SamplesInv'
  <2>1. indexed' = indexed /\ program' = program
    BY <1>4 DEF Compile
  <2>2. \A s \in Shapes : Replayable(program, node, compiled, s)
                             => Replayable(program, node', compiled', s)
    BY <1>0, <1>4, CompileReplayable
  <2>3. Shapes' = Shapes
    BY <2>1 DEF Shapes
  <2> QED BY <2>1, <2>2, <2>3 DEF SamplesInv
<1>5. CASE UNCHANGED functionVars
  BY <1>5 DEF functionVars, SamplesInv, Shapes
<1> QED BY <1>1, <1>2, <1>3, <1>4, <1>5 DEF FunctionNext, Call
-----------------------------------------------------------------------------
(* The generated code                                                      *)

ExecuteRule(env, code, f, n) ==
    f = [k \in 0 .. n |-> IF k = 0 THEN env
                          ELSE Bind(f[k-1], code[k].to, Assembled(f[k-1], code[k].parts))]

ExecuteTrail(env, code) == CHOOSE f : ExecuteRule(env, code, f, Len(code))

LEMMA ExecuteExists ==
    ASSUME NEW env, NEW code, Len(code) \in Nat
    PROVE  \E f : ExecuteRule(env, code, f, Len(code))
<1> DEFINE S == {n \in 0 .. Len(code) : \E f : ExecuteRule(env, code, f, n)}
           Next1(e, k) == Bind(e, code[k].to, Assembled(e, code[k].parts))
<1>1. 0 \in S
  <2>1. ExecuteRule(env, code, [k \in 0 .. 0 |-> env], 0)
    BY DEF ExecuteRule
  <2> QED BY <2>1
<1>2. ASSUME NEW n \in 1 .. Len(code), n - 1 \in S PROVE n \in S
  <2>1. PICK f : ExecuteRule(env, code, f, n - 1)
    BY <1>2
  <2> DEFINE h == [k \in 0 .. n |-> IF k < n THEN f[k] ELSE Next1(f[n-1], n)]
  <2>2. \A k \in 0 .. n : h[k] = IF k = 0 THEN env ELSE Next1(h[k-1], k)
    <3> SUFFICES ASSUME NEW k \in 0 .. n
                 PROVE  h[k] = IF k = 0 THEN env ELSE Next1(h[k-1], k)
      OBVIOUS
    <3> HIDE DEF Next1
    <3>1. CASE k < n
      <4>1. h[k] = f[k] /\ (k > 0 => h[k-1] = f[k-1])
        BY <3>1
      <4>2. f[k] = IF k = 0 THEN env ELSE Next1(f[k-1], k)
        BY <2>1, <3>1 DEF ExecuteRule, Next1
      <4> HIDE DEF h
      <4> QED BY <4>1, <4>2
    <3>2. CASE k = n
      <4>1. h[n] = Next1(f[n-1], n) /\ h[n-1] = f[n-1]
        OBVIOUS
      <4> HIDE DEF h
      <4> QED BY <3>2, <4>1
    <3> QED BY <3>1, <3>2
  <2>3. h = [k \in 0 .. n |-> h[k]]
    OBVIOUS
  <2> HIDE DEF h
  <2>4. ExecuteRule(env, code, h, n)
    BY <2>2, <2>3 DEF ExecuteRule
  <2> QED BY <2>4
<1> HIDE DEF S
<1>3. 0 .. Len(code) \subseteq S
  BY <1>1, <1>2, UpTo
<1>4. Len(code) \in S
  BY <1>3
<1> QED BY <1>4 DEF S

LEMMA ExecutedDef ==
    ASSUME NEW env, NEW code, Len(code) \in Nat
    PROVE  /\ ExecuteTrail(env, code)[0] = env
           /\ \A k \in 1 .. Len(code) :
                 ExecuteTrail(env, code)[k]
                    = Bind(ExecuteTrail(env, code)[k-1], code[k].to,
                           Assembled(ExecuteTrail(env, code)[k-1], code[k].parts))
           /\ Executed(env, code) = ExecuteTrail(env, code)[Len(code)]
<1>1. ExecuteRule(env, code, ExecuteTrail(env, code), Len(code))
  BY ExecuteExists DEF ExecuteTrail
<1>2. Executed(env, code) = ExecuteTrail(env, code)[Len(code)]
  BY DEF Executed, ExecuteTrail, ExecuteRule
<1> HIDE DEF ExecuteTrail
<1> QED BY <1>1, <1>2 DEF ExecuteRule

\* The variables no assignment before the k-th writes.
AsBefore(e, env, code, k) ==
    \A x \in DOMAIN env : (\A p \in 1 .. k - 1 : x # code[p].to) => x \in DOMAIN e /\ e[x] = env[x]

LEMMA BindHolds ==
    ASSUME NEW env, NEW name, NEW value
    PROVE  /\ name \in DOMAIN Bind(env, name, value) /\ Bind(env, name, value)[name] = value
           /\ \A x \in DOMAIN env : x # name =>
                 x \in DOMAIN Bind(env, name, value) /\ Bind(env, name, value)[x] = env[x]
BY DEF Bind

\* Every variable written once holds in the end what its assignment gave it;
\* the others hold what they held.
LEMMA ExecuteAll ==
    ASSUME NEW env, NEW code, Len(code) \in Nat, NEW A,
           \A i, j \in 1 .. Len(code) : code[i].to = code[j].to => i = j,
           \A k \in 1 .. Len(code) : \A e :
               AsBefore(e, env, code, k) => Assembled(e, code[k].parts) = A[k]
    PROVE  \A k \in 1 .. Len(code) :
               code[k].to \in DOMAIN Executed(env, code) /\ Executed(env, code)[code[k].to] = A[k]
<1> DEFINE T == ExecuteTrail(env, code)
           S == {k \in 0 .. Len(code) :
                    /\ \A p \in 1 .. k : code[p].to \in DOMAIN T[k] /\ T[k][code[p].to] = A[p]
                    /\ AsBefore(T[k], env, code, k + 1)}
<1>1. T[0] = env /\ \A k \in 1 .. Len(code) :
                       T[k] = Bind(T[k-1], code[k].to, Assembled(T[k-1], code[k].parts))
  BY ExecutedDef
<1>2. Executed(env, code) = T[Len(code)]
  BY ExecutedDef
<1> HIDE DEF T
<1>3. 0 \in S
  BY <1>1 DEF AsBefore
<1>4. ASSUME NEW k \in 1 .. Len(code), k - 1 \in S PROVE k \in S
  <2> DEFINE e == T[k-1]
             h == T[k]
  <2>1. /\ \A p \in 1 .. k - 1 : code[p].to \in DOMAIN e /\ e[code[p].to] = A[p]
        /\ AsBefore(e, env, code, k)
    <3>1. (k - 1) + 1 = k
      OBVIOUS
    <3> QED BY <1>4, <3>1
  <2>2. h = Bind(e, code[k].to, A[k])
    <3>1. h = Bind(e, code[k].to, Assembled(e, code[k].parts))
      BY <1>1
    <3>2. Assembled(e, code[k].parts) = A[k]
      BY <2>1
    <3> QED BY <3>1, <3>2
  <2>3. /\ code[k].to \in DOMAIN h /\ h[code[k].to] = A[k]
        /\ \A x \in DOMAIN e : x # code[k].to => x \in DOMAIN h /\ h[x] = e[x]
    <3> HIDE DEF e, h
    <3> QED BY <2>2, BindHolds
  <2> HIDE DEF e, h
  <2>4. ASSUME NEW p \in 1 .. k PROVE code[p].to \in DOMAIN h /\ h[code[p].to] = A[p]
    <3>1. CASE p = k
      BY <2>3, <3>1
    <3>2. CASE p # k
      <4>1. p \in 1 .. k - 1 /\ p \in 1 .. Len(code)
        BY <3>2
      <4>2. code[p].to # code[k].to
        BY <3>2, <4>1
      <4> QED BY <2>1, <2>3, <4>1, <4>2
    <3> QED BY <3>1, <3>2
  <2>5. ASSUME NEW x \in DOMAIN env, \A p \in 1 .. (k + 1) - 1 : x # code[p].to
        PROVE  x \in DOMAIN h /\ h[x] = env[x]
    <3>1. \A p \in 1 .. k : p \in 1 .. (k + 1) - 1
      OBVIOUS
    <3>2. x # code[k].to /\ \A p \in 1 .. k - 1 : x # code[p].to
      BY <2>5, <3>1
    <3>3. x \in DOMAIN e /\ e[x] = env[x]
      BY <2>1, <3>2 DEF AsBefore
    <3> QED BY <2>3, <3>2, <3>3
  <2>6. AsBefore(h, env, code, k + 1)
    BY <2>5 DEF AsBefore
  <2> QED BY <2>4, <2>6 DEF h
<1> HIDE DEF S
<1>5. 0 .. Len(code) \subseteq S
  BY <1>3, <1>4, UpTo
<1>6. Len(code) \in S
  BY <1>5
<1> QED BY <1>2, <1>6 DEF S

\* What a nested value holds at the path of a leaf.
LEMMA ItemOne ==
    ASSUME NEW tree, NEW x \in Paths, {p \in DOMAIN tree : IsPrefix(x, p)} = {x}
    PROVE  Item(tree, x) = Leaf(tree[x])
<1> DEFINE F(p) == SubSeq(p, Len(x) + 1, Len(p))
           V(q) == tree[x \o q]
<1>1. Item(tree, x) = [q \in {F(p) : p \in {p \in DOMAIN tree : IsPrefix(x, p)}} |-> V(q)]
  BY DEF Item
<1>2. F(x) = <<>> /\ V(<<>>) = tree[x]
  BY DEF Paths
<1> HIDE DEF F, V
<1>3. {F(p) : p \in {x}} = {<<>>}
  BY <1>2
<1>4. Item(tree, x) = [q \in {<<>>} |-> V(q)]
  BY <1>1, <1>3
<1>5. [q \in {<<>>} |-> V(q)] = [q \in {<<>>} |-> tree[x]]
  BY <1>2
<1> QED BY <1>4, <1>5 DEF Leaf

LEMMA PrefixItself == ASSUME NEW x \in Paths PROVE IsPrefix(x, x)
<1>1. Len(x) \in Nat
  BY DEF Paths
<1> QED BY <1>1 DEF IsPrefix

LEMMA ItemLeaf == ASSUME NEW v PROVE Item(Leaf(v), <<>>) = Leaf(v)
<1>1. DOMAIN Leaf(v) = {<<>>} /\ Leaf(v)[<<>>] = v
  BY DEF Leaf
<1>2. <<>> \in Paths
  BY DEF Paths
<1>3. {p \in DOMAIN Leaf(v) : IsPrefix(<<>>, p)} = {<<>>}
  BY <1>1, <1>2, PrefixItself
<1> QED BY <1>1, <1>2, <1>3, ItemOne

LEMMA ItemTree ==
    ASSUME NEW paths, IsStructure(paths), NEW tree, DOMAIN tree = ToSet(paths),
           NEW i \in 1 .. Len(paths)
    PROVE  Item(tree, paths[i]) = Leaf(tree[paths[i]])
<1> DEFINE x == paths[i]
<1>1. paths \in Seq(Paths) /\ DOMAIN paths = 1 .. Len(paths)
  BY StructureFacts
<1>2. x \in Paths
  BY <1>1
<1>3. x \in ToSet(paths)
  BY <1>1 DEF ToSet
<1>4. IsPrefix(x, x)
  BY <1>2, PrefixItself
<1>5. \A p \in ToSet(paths) : IsPrefix(x, p) => p = x
  <2> SUFFICES ASSUME NEW j \in 1 .. Len(paths), IsPrefix(x, paths[j]) PROVE paths[j] = x
    BY <1>1 DEF ToSet
  <2> QED BY <1>1 DEF IsStructure
<1> HIDE DEF x
<1>6. {p \in DOMAIN tree : IsPrefix(x, p)} = {x}
  BY <1>3, <1>4, <1>5
<1> QED BY <1>2, <1>6, ItemOne DEF x

\* Parts that are single leaves, at different paths.
LeafParts(c, n) == {c[i] : i \in 1 .. n}

LeavesAt(c, v, n) ==
    [path \in {c[i].path : i \in 1 .. n} |-> v[CHOOSE i \in 1 .. n : c[i].path = path]]

LEMMA AssembledLeaves ==
    ASSUME NEW env, NEW n \in Nat, NEW c, NEW v,
           \A i \in 1 .. n : Item(env[c[i].of], c[i].item) = Leaf(v[i]),
           \A i \in 1 .. n : c[i].path \in Paths,
           \A i, j \in 1 .. n : c[i].path = c[j].path => i = j
    PROVE  Assembled(env, LeafParts(c, n)) = LeavesAt(c, v, n)
<1> DEFINE parts == {c[i] : i \in 1 .. n}
           Part(d) == Item(env[d.of], d.item)
           cells == UNION {{<<d, q>> : q \in DOMAIN Part(d)} : d \in parts}
           Chosen(path) == CHOOSE x \in cells : x[1].path \o x[2] = path
           r == Assembled(env, parts)
<1>1. \A i \in 1 .. n : DOMAIN Part(c[i]) = {<<>>} /\ Part(c[i])[<<>>] = v[i]
  BY DEF Leaf
<1> HIDE DEF Part
<1>2. \A x \in cells : \E i \in 1 .. n : x = <<c[i], <<>> >>
  BY <1>1
<1>3. \A i \in 1 .. n : <<c[i], <<>> >> \in cells
  BY <1>1
<1>4. \A i \in 1 .. n : c[i].path \o <<>> = c[i].path
  BY DEF Paths
<1>5. r = [path \in {x[1].path \o x[2] : x \in cells} |->
              Part(Chosen(path)[1])[Chosen(path)[2]]]
  BY DEF Assembled, Part
<1> HIDE DEF cells
<1>6. {x[1].path \o x[2] : x \in cells} = {c[i].path : i \in 1 .. n}
  <2>1. \A x \in cells : \E i \in 1 .. n : x[1].path \o x[2] = c[i].path
    <3> SUFFICES ASSUME NEW x \in cells PROVE \E i \in 1 .. n : x[1].path \o x[2] = c[i].path
      OBVIOUS
    <3>1. PICK i \in 1 .. n : x = <<c[i], <<>> >>
      BY <1>2
    <3>2. x[1] = c[i] /\ x[2] = <<>>
      BY <3>1
    <3>3. x[1].path \o x[2] = c[i].path
      BY <1>4, <3>2
    <3> QED BY <3>3
  <2>2. \A i \in 1 .. n : \E x \in cells : x[1].path \o x[2] = c[i].path
    <3> SUFFICES ASSUME NEW i \in 1 .. n PROVE \E x \in cells : x[1].path \o x[2] = c[i].path
      OBVIOUS
    <3>1. <<c[i], <<>> >>[1].path \o <<c[i], <<>> >>[2] = c[i].path
      BY <1>4
    <3> QED BY <1>3, <3>1
  <2> DEFINE P(x) == x[1].path \o x[2]
  <2>3. \A x \in cells : \E i \in 1 .. n : P(x) = c[i].path
    BY <2>1
  <2>4. \A i \in 1 .. n : \E x \in cells : P(x) = c[i].path
    BY <2>2
  <2> HIDE DEF P
  <2>5. {P(x) : x \in cells} = {c[i].path : i \in 1 .. n}
    BY <2>3, <2>4
  <2> QED BY <2>5 DEF P
<1>7. ASSUME NEW i \in 1 .. n PROVE Chosen(c[i].path) = <<c[i], <<>> >>
  <2>1. <<c[i], <<>> >>[1].path \o <<c[i], <<>> >>[2] = c[i].path
    BY <1>4
  <2>2. ASSUME NEW x \in cells, x[1].path \o x[2] = c[i].path PROVE x = <<c[i], <<>> >>
    <3>1. PICK j \in 1 .. n : x = <<c[j], <<>> >>
      BY <1>2
    <3>2. c[j].path = c[i].path
      BY <1>4, <2>2, <3>1
    <3> QED BY <3>1, <3>2
  <2> QED BY <1>3, <2>1, <2>2
<1> HIDE DEF Chosen, r, parts
<1>8. ASSUME NEW i \in 1 .. n PROVE r[c[i].path] = v[i]
  <2>1. c[i].path \in {x[1].path \o x[2] : x \in cells}
    BY <1>6
  <2>2. r[c[i].path] = Part(Chosen(c[i].path)[1])[Chosen(c[i].path)[2]]
    BY <1>5, <2>1
  <2> QED BY <1>1, <1>7, <2>2
<1>9. r = [path \in {c[i].path : i \in 1 .. n} |->
               v[CHOOSE i \in 1 .. n : c[i].path = path]]
  <2>1. r = [path \in {c[i].path : i \in 1 .. n} |-> r[path]]
    BY <1>5, <1>6
  <2>2. ASSUME NEW path \in {c[i].path : i \in 1 .. n}
        PROVE  r[path] = v[CHOOSE i \in 1 .. n : c[i].path = path]
    <3>1. PICK i \in 1 .. n : path = c[i].path
      OBVIOUS
    <3>2. (CHOOSE j \in 1 .. n : c[j].path = path) = i
      BY <3>1
    <3> QED BY <1>8, <3>1, <3>2
  <2> QED BY <2>1, <2>2
<1> QED BY <1>9 DEF r, parts, LeafParts, LeavesAt
\* A single leaf, at the empty path.
LEMMA AssembledLeaf ==
    ASSUME NEW env, NEW d, NEW v, Item(env[d.of], d.item) = Leaf(v), d.path = <<>>
    PROVE  Assembled(env, {d}) = Leaf(v)
<1> DEFINE c == [i \in 1 .. 1 |-> d]
           w == [i \in 1 .. 1 |-> v]
<1>1. c[1] = d /\ w[1] = v /\ \A i \in 1 .. 1 : i = 1
  OBVIOUS
<1> HIDE DEF c, w
<1>2. \A i \in 1 .. 1 : Item(env[c[i].of], c[i].item) = Leaf(w[i]) /\ c[i].path = <<>>
  BY <1>1
<1>3. <<>> \in Paths
  BY DEF Paths
<1>4. Assembled(env, LeafParts(c, 1)) = LeavesAt(c, w, 1)
  BY <1>1, <1>2, <1>3, AssembledLeaves
<1>5. {c[i] : i \in 1 .. 1} = {d} /\ {c[i].path : i \in 1 .. 1} = {<<>>}
  BY <1>1, <1>2
<1>6. (CHOOSE i \in 1 .. 1 : c[i].path = <<>>) = 1
  BY <1>1, <1>2
<1> DEFINE W(path) == w[CHOOSE i \in 1 .. 1 : c[i].path = path]
<1>7. W(<<>>) = v
  BY <1>1, <1>6
<1>8. Assembled(env, {d}) = [path \in {<<>>} |-> W(path)]
  BY <1>4, <1>5 DEF LeafParts, LeavesAt
<1> HIDE DEF W
<1> QED BY <1>7, <1>8 DEF Leaf

\* The variables the inputs are given in.
BareInputs(ins, flat, bare) ==
    /\ DOMAIN bare = NamesOf(ins.list)
    /\ \A m \in 1 .. Len(ins.list) : bare[ins.list[m].name] = Leaf(flat[m])

PackedIn(f, s, ins, flat, env) ==
    \A p \in 1 .. Len(f.params) :
        /\ DOMAIN env[f.params[p]] = ToSet(s[p])
        /\ \A j \in 1 .. Len(s[p]) : env[f.params[p]][s[p][j]] = flat[At(ins, p, j)]

\* Packing gives each argument the leaves of its structure.
LEMMA Packs ==
    ASSUME NEW f \in Programs, NEW s \in ShapesOf(f), NEW ins \in Ios,
           Interface(ins, f.params, s, Len(f.params)), Distinct(ins),
           PackApart(ins, f.params, s, Len(f.params)), NEW flat, NEW bare,
           BareInputs(ins, flat, bare)
    PROVE  PackedIn(f, s, ins, flat, Executed(bare, PackCode(ins)))
<1> DEFINE n    == Len(f.params)
           code == PackCode(ins)
           C(p) == [i \in 1 .. Len(s[p]) |->
                       [of |-> ins.list[At(ins, p, i)].name, item |-> <<>>, path |-> s[p][i]]]
           V(p) == [i \in 1 .. Len(s[p]) |-> flat[At(ins, p, i)]]
           Tree(p) == LeavesAt(C(p), V(p), Len(s[p]))
           A == [p \in 1 .. n |-> Tree(p)]
<1>1. /\ n \in Nat /\ Len(ins.formats) = n /\ DOMAIN ins.formats = 1 .. n
      /\ \A p, q \in 1 .. n : f.params[p] = f.params[q] => p = q
  BY ProgramTyped DEF Interface, Ios
<1>2. \A p \in 1 .. n :
         /\ s[p] \in Seq(Paths) /\ Len(s[p]) \in Nat /\ DOMAIN s[p] = 1 .. Len(s[p])
         /\ \A i, j \in 1 .. Len(s[p]) : s[p][i] = s[p][j] => i = j
  BY ShapeTyped, StructureFacts
<1>3. \A p \in 1 .. n :
         /\ ins.formats[p].name = f.params[p] /\ ins.formats[p].paths = s[p]
         /\ DOMAIN ins.formats[p].at = 1 .. Len(s[p])
         /\ \A i \in 1 .. Len(s[p]) : At(ins, p, i) \in 1 .. Len(ins.list)
  BY DEF Interface
<1>4. ASSUME NEW p \in 1 .. n
      PROVE  code[p].to = f.params[p] /\ code[p].parts = LeafParts(C(p), Len(s[p]))
  <2> DEFINE E(i) == [of |-> ins.list[ins.formats[p].at[i]].name, item |-> <<>>,
                      path |-> ins.formats[p].paths[i]]
             D == DOMAIN ins.formats[p].at
             c == C(p)
  <2>1. code[p] = [to |-> ins.formats[p].name, parts |-> {E(i) : i \in D}]
    BY <1>1 DEF PackCode
  <2>2. D = 1 .. Len(s[p])
    BY <1>3
  <2>3. \A i \in 1 .. Len(s[p]) : E(i) = c[i]
    BY <1>3 DEF At
  <2> HIDE DEF E, D, code, c
  <2>4. code[p].to = f.params[p] /\ code[p].parts = {E(i) : i \in 1 .. Len(s[p])}
    BY <1>3, <2>1, <2>2
  <2>5. {E(i) : i \in 1 .. Len(s[p])} = LeafParts(c, Len(s[p]))
    BY <2>3 DEF LeafParts
  <2> QED BY <2>4, <2>5 DEF c
<1>5. Len(code) = n
  BY <1>1 DEF PackCode
<1>6. \A p \in 1 .. n : \A i \in 1 .. Len(s[p]) :
         /\ C(p)[i].of = ins.list[At(ins, p, i)].name /\ C(p)[i].item = <<>>
         /\ C(p)[i].path = s[p][i] /\ V(p)[i] = flat[At(ins, p, i)]
  OBVIOUS
<1> HIDE DEF C, V
<1>7. ASSUME NEW p \in 1 .. n
      PROVE  DOMAIN Tree(p) = ToSet(s[p])
             /\ \A j \in 1 .. Len(s[p]) : Tree(p)[s[p][j]] = flat[At(ins, p, j)]
  <2> DEFINE c == C(p)
             paths == s[p]
             L == Len(s[p])
             t == Tree(p)
  <2>1. /\ \A i \in 1 .. L : c[i].path = paths[i] /\ V(p)[i] = flat[At(ins, p, i)]
        /\ DOMAIN paths = 1 .. L
        /\ \A i, j \in 1 .. L : paths[i] = paths[j] => i = j
    BY <1>2, <1>6
  <2>2. t = LeavesAt(c, V(p), L)
    OBVIOUS
  <2> HIDE DEF c, paths, L, t
  <2>3. {c[i].path : i \in 1 .. L} = ToSet(paths)
    BY <2>1 DEF ToSet
  <2>4. DOMAIN t = ToSet(paths)
    BY <2>2, <2>3 DEF LeavesAt
  <2>5. ASSUME NEW j \in 1 .. L PROVE t[paths[j]] = flat[At(ins, p, j)]
    <3>1. paths[j] \in {c[i].path : i \in 1 .. L}
      BY <2>1
    <3>2. (CHOOSE i \in 1 .. L : c[i].path = paths[j]) = j
      BY <2>1
    <3>3. t[paths[j]] = V(p)[CHOOSE i \in 1 .. L : c[i].path = paths[j]]
      BY <2>2, <3>1 DEF LeavesAt
    <3> QED BY <2>1, <3>2, <3>3
  <2> QED BY <2>4, <2>5 DEF t, paths, L
<1>8. ASSUME NEW p \in 1 .. n, NEW e, AsBefore(e, bare, code, p)
      PROVE  Assembled(e, code[p].parts) = Tree(p)
  <2> HIDE DEF code
  <2>1. ASSUME NEW i \in 1 .. Len(s[p])
        PROVE  Item(e[C(p)[i].of], C(p)[i].item) = Leaf(V(p)[i])
    <3> DEFINE x == ins.list[At(ins, p, i)].name
    <3>1. At(ins, p, i) \in 1 .. Len(ins.list) /\ DOMAIN ins.list = 1 .. Len(ins.list)
      BY <1>3 DEF Ios
    <3>2. x \in DOMAIN bare
      BY <3>1 DEF NamesOf, BareInputs
    <3>3. ASSUME NEW q \in 1 .. p - 1 PROVE x # code[q].to
      <4>1. q \in 1 .. n /\ q < p
        BY <1>1
      <4>2. x # f.params[q]
        BY <4>1 DEF PackApart
      <4> QED BY <1>4, <4>1, <4>2
    <3>4. e[x] = bare[x]
      <4> HIDE DEF x
      <4> QED BY <1>8, <3>2, <3>3 DEF AsBefore
    <3>5. bare[x] = Leaf(V(p)[i])
      BY <1>6, <3>1 DEF BareInputs
    <3>6. C(p)[i].of = x /\ C(p)[i].item = <<>>
      BY <1>6
    <3> HIDE DEF x
    <3> QED BY <3>4, <3>5, <3>6, ItemLeaf
  <2>0. \A i \in 1 .. Len(s[p]) : C(p)[i].path = s[p][i]
    BY <1>6
  <2>2. \A i \in 1 .. Len(s[p]) : C(p)[i].path \in Paths
    <3>1. \A i \in 1 .. Len(s[p]) : s[p][i] \in Paths
      BY <1>2
    <3> QED BY <2>0, <3>1
  <2>3. \A i, j \in 1 .. Len(s[p]) : C(p)[i].path = C(p)[j].path => i = j
    BY <1>2, <2>0
  <2>4. Len(s[p]) \in Nat
    BY <1>2
  <2>5. Assembled(e, LeafParts(C(p), Len(s[p]))) = Tree(p)
    <3> DEFINE c == C(p)
               v == V(p)
               L == Len(s[p])
    <3>1. /\ L \in Nat /\ \A i \in 1 .. L : Item(e[c[i].of], c[i].item) = Leaf(v[i])
          /\ \A i \in 1 .. L : c[i].path \in Paths
          /\ \A i, j \in 1 .. L : c[i].path = c[j].path => i = j
      BY <2>1, <2>2, <2>3, <2>4
    <3>2. Tree(p) = LeavesAt(c, v, L)
      OBVIOUS
    <3> HIDE DEF c, v, L, Tree
    <3>3. Assembled(e, LeafParts(c, L)) = LeavesAt(c, v, L)
      BY <3>1, AssembledLeaves
    <3> QED BY <3>2, <3>3 DEF c, L
  <2> QED BY <1>4, <2>5
<1> HIDE DEF code, Tree
<1>9. \A i, j \in 1 .. n : code[i].to = code[j].to => i = j
  BY <1>1, <1>4
<1>10. \A p \in 1 .. n : A[p] = Tree(p)
  OBVIOUS
<1> HIDE DEF A
<1>11. \A p \in 1 .. n : \A e : AsBefore(e, bare, code, p) => Assembled(e, code[p].parts) = A[p]
  BY <1>8, <1>10
<1>12. \A p \in 1 .. n : Executed(bare, code)[code[p].to] = A[p]
  BY <1>1, <1>5, <1>9, <1>11, ExecuteAll
<1>13. \A p \in 1 .. n : Executed(bare, code)[f.params[p]] = Tree(p)
  BY <1>4, <1>10, <1>12
<1> QED BY <1>7, <1>13 DEF code, PackedIn

\* The variables the results are held in, and the leaves they stand for.
HeldResults(f, outs, flat, env, tree) ==
    \A r \in 1 .. Len(f.returns) :
        /\ f.returns[r] \in DOMAIN env /\ env[f.returns[r]] = tree[r]
        /\ DOMAIN tree[r] = ToSet(f.body[r].paths)
        /\ \A i \in 1 .. Len(f.body[r].paths) :
              flat[At(outs, r, i)] = tree[r][f.body[r].paths[i]]

UnpackedIn(outs, flat, env) ==
    \A m \in 1 .. Len(outs.list) : env[outs.list[m].name] = Leaf(flat[m])

\* Unpacking gives each output the leaf it stands for.
LEMMA Unpacks ==
    ASSUME NEW f \in Programs, NEW outs \in Ios,
           Interface(outs, f.returns, OutPaths(f), Len(f.returns)), Distinct(outs),
           UnpackApart(outs, f.returns, OutPaths(f), Len(f.returns)),
           NEW env, NEW tree, NEW flat,
           HeldResults(f, outs, flat, env, tree)
    PROVE  UnpackedIn(outs, flat, Executed(env, UnpackCode(outs)))
<1> DEFINE R    == Len(f.returns)
           code == UnpackCode(outs)
           A    == [m \in 1 .. Len(outs.list) |-> Leaf(flat[m])]
           P(r) == f.body[r].paths
<1>1. /\ R \in Nat /\ Len(outs.formats) = R /\ DOMAIN outs.formats = 1 .. R
      /\ Len(outs.list) \in Nat /\ DOMAIN outs.list = 1 .. Len(outs.list)
  BY ProgramTyped DEF Interface, Ios
<1>2. ASSUME NEW r \in 1 .. R
      PROVE  OutPaths(f)[r] = P(r) /\ IsStructure(P(r)) /\ Len(P(r)) \in Nat
  <2>1. OutPaths(f)[r] = P(r) /\ IsStructure(P(r))
    BY BodyTyped
  <2> QED BY <2>1, StructureFacts
<1>3. \A r \in 1 .. R :
         /\ outs.formats[r].name = f.returns[r] /\ outs.formats[r].paths = P(r)
         /\ DOMAIN outs.formats[r].at = 1 .. Len(P(r))
         /\ \A i \in 1 .. Len(P(r)) : At(outs, r, i) \in 1 .. Len(outs.list)
  BY <1>2 DEF Interface
<1>4. \A q, r \in 1 .. R : \A i \in 1 .. Len(P(q)) : \A j \in 1 .. Len(P(r)) :
         q < r \/ (q = r /\ i < j) => At(outs, q, i) < At(outs, r, j)
  BY <1>2 DEF Interface
<1>5. \A m \in 1 .. Len(outs.list) : \E r \in 1 .. R : \E i \in 1 .. Len(P(r)) :
         At(outs, r, i) = m
  BY <1>2 DEF Interface
<1>6. ASSUME NEW q \in 1 .. R, NEW r \in 1 .. R, NEW i \in 1 .. Len(P(q)),
             NEW j \in 1 .. Len(P(r)), q < r \/ (q = r /\ i < j)
      PROVE  outs.list[At(outs, q, i)].name # f.returns[r]
  <2>1. OutPaths(f)[q] = P(q) /\ OutPaths(f)[r] = P(r)
    BY <1>2
  <2>2. i \in 1 .. Len(OutPaths(f)[q]) /\ j \in 1 .. Len(OutPaths(f)[r])
    BY <2>1
  <2> HIDE DEF P
  <2> QED BY <1>6, <2>2 DEF UnpackApart
<1> HIDE DEF P
<1>7. ASSUME NEW q \in 1 .. R, NEW r \in 1 .. R, NEW i \in 1 .. Len(P(q)),
             NEW j \in 1 .. Len(P(r)), At(outs, q, i) =< At(outs, r, j)
      PROVE  (q < r \/ (q = r /\ i < j)) \/ (q = r /\ i = j)
  <2>1. At(outs, q, i) \in 1 .. Len(outs.list) /\ At(outs, r, j) \in 1 .. Len(outs.list)
    BY <1>3
  <2>2. ~(r < q \/ (r = q /\ j < i))
    <3>1. r < q \/ (r = q /\ j < i) => At(outs, r, j) < At(outs, q, i)
      BY <1>4
    <3> QED BY <1>7, <2>1, <3>1
  <2>3. i \in Nat /\ j \in Nat
    BY <1>2
  <2> QED BY <1>1, <2>2, <2>3
<1>8. ASSUME NEW r \in 1 .. R, NEW i \in 1 .. Len(P(r))
      PROVE  /\ code[At(outs, r, i)].to = outs.list[At(outs, r, i)].name
             /\ code[At(outs, r, i)].parts
                   = {[of |-> f.returns[r], item |-> P(r)[i], path |-> <<>>]}
  <2> DEFINE m == At(outs, r, i)
             F == CHOOSE g \in ToSet(outs.formats) : m \in ToSet(g.at)
             I == CHOOSE h \in DOMAIN F.at : F.at[h] = m
  <2>1. m \in 1 .. Len(outs.list)
    BY <1>3
  <2>2. code[m] = [to |-> outs.list[m].name,
                   parts |-> {[of |-> F.name, item |-> F.paths[I], path |-> <<>>]}]
    BY <1>1, <2>1 DEF UnpackCode
  <2>3. F = outs.formats[r]
    <3>1. outs.formats[r] \in ToSet(outs.formats) /\ m \in ToSet(outs.formats[r].at)
      BY <1>1, <1>3 DEF ToSet, At
    <3>2. ASSUME NEW g \in ToSet(outs.formats), m \in ToSet(g.at) PROVE g = outs.formats[r]
      <4>1. PICK q \in 1 .. R : g = outs.formats[q]
        BY <1>1 DEF ToSet
      <4>2. PICK h \in 1 .. Len(P(q)) : At(outs, q, h) = m
        BY <1>3, <3>2, <4>1 DEF ToSet, At
      <4>3. m \in Int /\ At(outs, q, h) =< At(outs, r, i) /\ At(outs, r, i) =< At(outs, q, h)
        BY <2>1, <4>2
      <4>4. q = r
        <5> HIDE DEF m
        <5> QED BY <1>1, <1>7, <4>3
      <4> QED BY <4>1, <4>4
    <3> QED BY <3>1, <3>2
  <2>4. I = i
    <3>1. i \in DOMAIN F.at /\ F.at[i] = m
      BY <1>3, <2>3 DEF At
    <3>2. ASSUME NEW h \in DOMAIN F.at, F.at[h] = m PROVE h = i
      <4>1. h \in 1 .. Len(P(r)) /\ At(outs, r, h) = m
        BY <1>3, <2>3, <3>2 DEF At
      <4>2. m \in Int /\ At(outs, r, h) =< At(outs, r, i) /\ At(outs, r, i) =< At(outs, r, h)
        BY <2>1, <4>1
      <4>3. (r < r \/ (r = r /\ h < i)) \/ (r = r /\ h = i)
        BY <1>7, <4>1, <4>2
      <4>4. (r < r \/ (r = r /\ i < h)) \/ (r = r /\ i = h)
        BY <1>7, <4>1, <4>2
      <4>5. h \in Nat /\ i \in Nat
        BY <1>2, <4>1
      <4> QED BY <1>1, <4>3, <4>4, <4>5
    <3> QED BY <3>1, <3>2
  <2>5. F.name = f.returns[r] /\ F.paths = P(r)
    BY <1>3, <2>3
  <2> HIDE DEF F, I, m, code
  <2>6. code[m].to = outs.list[m].name /\ code[m].parts
           = {[of |-> f.returns[r], item |-> P(r)[i], path |-> <<>>]}
    BY <2>2, <2>4, <2>5
  <2> QED BY <2>6 DEF m
<1>9. Len(code) = Len(outs.list)
  BY <1>1 DEF UnpackCode
<1>10. \A m \in 1 .. Len(outs.list) : code[m].to = outs.list[m].name
  BY <1>1 DEF UnpackCode
<1>11. \A m \in 1 .. Len(outs.list) : A[m] = Leaf(flat[m])
  OBVIOUS
<1> HIDE DEF code, A
<1>12. ASSUME NEW m \in 1 .. Len(outs.list), NEW e, AsBefore(e, env, code, m)
       PROVE  Assembled(e, code[m].parts) = A[m]
  <2>1. PICK r \in 1 .. R : \E i \in 1 .. Len(P(r)) : At(outs, r, i) = m
    BY <1>5
  <2>2. PICK i \in 1 .. Len(P(r)) : At(outs, r, i) = m
    BY <2>1
  <2> DEFINE d == [of |-> f.returns[r], item |-> P(r)[i], path |-> <<>>]
  <2>3. code[m].parts = {d}
    BY <1>8, <2>2
  <2>4. ASSUME NEW l \in 1 .. m - 1 PROVE f.returns[r] # code[l].to
    <3>1. l \in 1 .. Len(outs.list) /\ l < m
      BY <1>1
    <3>2. PICK q \in 1 .. R : \E j \in 1 .. Len(P(q)) : At(outs, q, j) = l
      BY <1>5, <3>1
    <3>3. PICK j \in 1 .. Len(P(q)) : At(outs, q, j) = l
      BY <3>2
    <3>4. At(outs, q, j) =< At(outs, r, i) /\ At(outs, q, j) # At(outs, r, i)
      BY <2>2, <3>1, <3>3
    <3>5. q < r \/ (q = r /\ j < i)
      BY <1>7, <3>4
    <3>6. outs.list[l].name # f.returns[r]
      BY <1>6, <3>3, <3>5
    <3> QED BY <1>10, <3>1, <3>6
  <2>5. e[f.returns[r]] = tree[r]
    <3>1. f.returns[r] \in DOMAIN env /\ env[f.returns[r]] = tree[r]
      BY DEF HeldResults
    <3> QED BY <1>12, <2>4, <3>1 DEF AsBefore
  <2>6. Item(tree[r], P(r)[i]) = Leaf(tree[r][P(r)[i]])
    <3>1. IsStructure(P(r)) /\ DOMAIN tree[r] = ToSet(P(r))
      BY <1>2 DEF P, HeldResults
    <3> QED BY <3>1, ItemTree
  <2>7. flat[m] = tree[r][P(r)[i]]
    BY <2>2 DEF P, HeldResults
  <2>8. d.of = f.returns[r] /\ d.item = P(r)[i] /\ d.path = <<>>
    OBVIOUS
  <2> HIDE DEF d
  <2>9. Item(e[d.of], d.item) = Leaf(flat[m])
    BY <2>5, <2>6, <2>7, <2>8
  <2>10. Assembled(e, {d}) = Leaf(flat[m])
    BY <2>8, <2>9, AssembledLeaf
  <2> QED BY <1>11, <2>3, <2>10
<1>13. \A i, j \in 1 .. Len(outs.list) : code[i].to = code[j].to => i = j
  BY <1>10 DEF Distinct
<1>14. \A m \in 1 .. Len(outs.list) : Executed(env, code)[code[m].to] = A[m]
  BY <1>1, <1>9, <1>12, <1>13, ExecuteAll
<1> QED BY <1>10, <1>11, <1>14 DEF code, UnpackedIn
-----------------------------------------------------------------------------
(* forward() replays the calls                                             *)

\* "(x, y) = self._core(a, b)": each result under its name.
LEMMA CalledHolds ==
    ASSUME program \in Programs, NEW outs \in Ios,
           Interface(outs, program.returns, OutPaths(program), Len(program.returns)),
           NoNameTwice(program.returns, Len(program.returns)),
           NEW env, NEW args, NEW r \in 1 .. Len(program.returns)
    PROVE  /\ program.returns[r] \in DOMAIN Called(env, outs, args)
           /\ Called(env, outs, args)[program.returns[r]] = Result(r, args)
<1> DEFINE Of(x) == {q \in DOMAIN outs.formats : outs.formats[q].name = x}
           D == DOMAIN env \cup {outs.formats[q].name : q \in DOMAIN outs.formats}
           V(x) == IF Of(x) = {} THEN env[x] ELSE Result(Max(Of(x)), args)
           names == program.returns
           n == Len(program.returns)
<1>1. /\ DOMAIN outs.formats = 1 .. n /\ n \in Nat
      /\ \A q \in 1 .. n : outs.formats[q].name = names[q]
  BY ProgramTyped DEF Ios, Interface
<1>2. Called(env, outs, args) = [x \in D |-> V(x)]
  BY DEF Called
<1>3. names[r] \in D
  BY <1>1
<1>4. Of(names[r]) = {r}
  BY <1>1 DEF NoNameTwice
<1>5. Max({r}) = r
  <2>1. {r} \subseteq 0 .. n /\ {r} # {}
    OBVIOUS
  <2> HIDE DEF n
  <2>2. Max({r}) \in {r}
    BY <1>1, <2>1, MaxIn
  <2> QED BY <2>2
<1> HIDE DEF Of, D
<1>6. V(names[r]) = Result(r, args)
  BY <1>4, <1>5
<1> HIDE DEF V
<1> QED BY <1>2, <1>3, <1>6

LEMMA ForwardReplays ==
    ASSUME program \in Programs, NEW s \in ShapesOf(program), NEW ins \in Ios, NEW outs \in Ios,
           Interfaced(program, ins, outs, s), NEW k \in Nat, Agree(program, ins, outs, s, k)
    PROVE  Forward(ins, outs, Sample(ins, k))
              = [i \in DOMAIN outs.list |-> Leaf(Sample(outs, k)[i])]
<1> DEFINE flat   == Sample(ins, k)
           out    == Sample(outs, k)
           n      == Len(program.params)
           R      == Len(program.returns)
           bare   == [x \in NamesOf(ins.list) |->
                         Leaf(flat[CHOOSE i \in DOMAIN ins.list : ins.list[i].name = x])]
           packed == Executed(bare, PackCode(ins))
           args   == [p \in DOMAIN ins.formats |-> packed[ins.formats[p].name]]
           back   == Called(packed, outs, args)
           env    == Executed(back, UnpackCode(outs))
<1>1. Forward(ins, outs, flat) = IF BodyRaises(args) THEN <<"raises">>
                                 ELSE [i \in DOMAIN outs.list |-> env[outs.list[i].name]]
  BY DEF Forward
<1>2. /\ DOMAIN ins.list = 1 .. Len(ins.list) /\ DOMAIN ins.formats = 1 .. Len(ins.formats)
      /\ DOMAIN outs.list = 1 .. Len(outs.list) /\ n \in Nat /\ R \in Nat
      /\ DOMAIN program.body = 1 .. R
  BY ProgramTyped DEF Ios
<1>3. /\ Interface(ins, program.params, s, n) /\ Distinct(ins)
      /\ PackApart(ins, program.params, s, n)
      /\ Interface(outs, program.returns, OutPaths(program), R) /\ Distinct(outs)
      /\ UnpackApart(outs, program.returns, OutPaths(program), R)
      /\ NoNameTwice(program.returns, R)
  BY DEF Interfaced
<1>4. /\ \A m \in 1 .. Len(ins.list) : flat[m] = SampleAt(ins, k, m)
      /\ \A m \in 1 .. Len(outs.list) : out[m] = SampleAt(outs, k, m)
  BY <1>2 DEF Sample, SampleAt
<1> HIDE DEF flat, out
<1>5. BareInputs(ins, flat, bare)
  <2>1. ASSUME NEW m \in 1 .. Len(ins.list) PROVE bare[ins.list[m].name] = Leaf(flat[m])
    <3>1. ins.list[m].name \in NamesOf(ins.list)
      BY <1>2 DEF NamesOf
    <3>2. (CHOOSE i \in DOMAIN ins.list : ins.list[i].name = ins.list[m].name) = m
      BY <1>2, <1>3 DEF Distinct
    <3> QED BY <3>1, <3>2
  <2> QED BY <2>1 DEF BareInputs
<1> HIDE DEF bare
<1>6. \A p \in 1 .. n :
         /\ DOMAIN packed[program.params[p]] = ToSet(s[p])
         /\ \A j \in 1 .. Len(s[p]) : packed[program.params[p]][s[p][j]] = flat[At(ins, p, j)]
  <2>1. PackedIn(program, s, ins, flat, packed)
    BY <1>3, <1>5, Packs
  <2> HIDE DEF packed
  <2> QED BY <2>1 DEF PackedIn
<1> HIDE DEF packed
<1>7. \A p \in 1 .. n : args[p] = packed[program.params[p]]
  BY <1>2, <1>3 DEF Interface
<1> HIDE DEF args
<1>8. \A p \in 1 .. n : DOMAIN s[p] = 1 .. Len(s[p])
  BY ShapeTyped, StructureFacts
<1>9. ASSUME NEW r \in 1 .. R
      PROVE  IsStructure(program.body[r].paths) /\ OutPaths(program)[r] = program.body[r].paths
             /\ DOMAIN program.body[r].from = 1 .. Len(program.body[r].paths)
  BY BodyTyped
<1>10. ~BodyRaises(args)
  <2> SUFFICES ASSUME NEW w \in Reads PROVE w[2] \in DOMAIN args[w[1]]
    BY DEF BodyRaises
  <2>1. PICK r \in 1 .. R : w \in ToSet(program.body[r].from)
    BY <1>2 DEF Reads
  <2>2. PICK i \in 1 .. Len(program.body[r].paths) : w = From(program, r, i)
    BY <1>9, <2>1 DEF ToSet, From
  <2>3. w[1] \in 1 .. n
    BY <2>2, BodyTyped
  <2>4. \E j \in 1 .. Len(s[w[1]]) : s[w[1]][j] = w[2]
    BY <2>2 DEF Agree
  <2>5. w[2] \in ToSet(s[w[1]])
    BY <1>8, <2>3, <2>4 DEF ToSet
  <2> QED BY <1>6, <1>7, <2>3, <2>5
<1> DEFINE tree == [r \in 1 .. R |-> Result(r, args)]
<1>11. ASSUME NEW r \in 1 .. R
       PROVE  /\ program.returns[r] \in DOMAIN back /\ back[program.returns[r]] = tree[r]
              /\ DOMAIN tree[r] = ToSet(program.body[r].paths)
              /\ \A i \in 1 .. Len(program.body[r].paths) :
                    out[At(outs, r, i)] = tree[r][program.body[r].paths[i]]
  <2>1. tree[r] = Result(r, args)
    OBVIOUS
  <2>2. program.returns[r] \in DOMAIN back /\ back[program.returns[r]] = Result(r, args)
    BY <1>3, CalledHolds
  <2>3. DOMAIN Result(r, args) = ToSet(program.body[r].paths)
    BY DEF Result
  <2>4. ASSUME NEW i \in 1 .. Len(program.body[r].paths)
        PROVE  out[At(outs, r, i)] = Result(r, args)[program.body[r].paths[i]]
    <3> DEFINE w == From(program, r, i)
    <3>1. w[1] \in 1 .. n
      BY BodyTyped
    <3>2. PICK j \in 1 .. Len(s[w[1]]) :
             /\ s[w[1]][j] = w[2]
             /\ SampleAt(outs, k, At(outs, r, i)) = SampleAt(ins, k, At(ins, w[1], j))
      BY DEF Agree
    <3>3. Result(r, args)[program.body[r].paths[i]] = args[w[1]][w[2]]
      BY ResultLeaf
    <3> HIDE DEF w
    <3>4. args[w[1]][w[2]] = flat[At(ins, w[1], j)]
      BY <1>6, <1>7, <3>1, <3>2
    <3>5. At(ins, w[1], j) \in 1 .. Len(ins.list)
      BY <1>3, <3>1 DEF Interface
    <3>6. At(outs, r, i) \in 1 .. Len(outs.list)
      BY <1>3, <1>9 DEF Interface
    <3> QED BY <1>4, <3>2, <3>3, <3>4, <3>5, <3>6
  <2> HIDE DEF back, tree
  <2> QED BY <2>1, <2>2, <2>3, <2>4
<1> HIDE DEF back, tree
<1>12. \A m \in 1 .. Len(outs.list) : env[outs.list[m].name] = Leaf(out[m])
  <2>1. HeldResults(program, outs, out, back, tree)
    BY <1>11 DEF HeldResults
  <2>2. UnpackedIn(outs, out, env)
    BY <1>3, <2>1, Unpacks
  <2> HIDE DEF env
  <2> QED BY <2>2 DEF UnpackedIn
<1> HIDE DEF env
<1>13. Forward(ins, outs, flat) = [i \in DOMAIN outs.list |-> Leaf(out[i])]
  BY <1>1, <1>2, <1>10, <1>12
<1> QED BY <1>13 DEF flat, out

\* Wherever the flat names of the annotated functions are enough, forward()
\* computes the function on every sample the node keeps, before and after the
\* rename, whatever was called, raised or recorded in part.
THEOREM ReplayAlways ==
    ASSUME \A f \in Programs : NamesApart(f) PROVE FunctionSpec => []ReplaysCalls
<1>1. FunctionInit => FunctionTyped /\ SamplesInv
  <2>1. FunctionInit => SamplesInv
    BY DEF FunctionInit, SamplesInv
  <2> QED BY <2>1, FunctionStart
<1>2. FunctionTyped /\ SamplesInv /\ [FunctionNext]_functionVars => FunctionTyped' /\ SamplesInv'
  BY FunctionStep, SamplesStep
<1>3. FunctionTyped /\ SamplesInv => ReplaysCalls
  <2> SUFFICES ASSUME FunctionTyped, SamplesInv, indexed, NEW k \in 0 .. node.idx
               PROVE  Forward(node.ins, node.outs, Sample(node.ins, k))
                         = [i \in DOMAIN node.outs.list |-> Leaf(Sample(node.outs, k)[i])]
    BY DEF ReplaysCalls
  <2>1. PICK s \in Shapes : Replayable(program, node, compiled, s)
    BY DEF SamplesInv
  <2>2. /\ program \in Programs /\ s \in ShapesOf(program)
        /\ node.ins \in Ios /\ node.outs \in Ios /\ k \in Nat
    BY DEF FunctionTyped, Shapes, IsNode, NodeStates
  <2>3. Interfaced(program, node.ins, node.outs, s) /\ Agree(program, node.ins, node.outs, s, k)
    BY <2>1 DEF Replayable
  <2> QED BY <2>2, <2>3, ForwardReplays
<1> QED BY <1>1, <1>2, <1>3, PTL DEF FunctionSpec
=============================================================================
