------------------------ MODULE FeedbackGraph_proofs ------------------------
(***************************************************************************)
(* Proofs about FeedbackGraph: for any number of nodes and any number of   *)
(* inputs, every program whose values are at most one iteration old is     *)
(* exported as it is, and the replay of its graph is the program.          *)
(***************************************************************************)
EXTENDS FeedbackGraph, TLAPS

-----------------------------------------------------------------------------
(* Facts about the programs *)

\* Every input of a program is bound as Bindings admits.
LEMMA ProgramBindings ==
    ASSUME wiring \in Programs, NEW n \in Nodes, NEW p \in Ports
    PROVE  /\ wiring[n][p].src \in Nodes \cup {Outside}
           /\ wiring[n][p].delay \in 0 .. MaxDelay
           /\ wiring[n][p].delay \in Nat
           /\ wiring[n][p].init \in {Before, Foreign} \cup Nodes
           /\ wiring[n][p].declared \in BOOLEAN
           /\ wiring[n][p].src = Outside => wiring[n][p].delay = 0
           /\ wiring[n][p].src \in Nodes /\ wiring[n][p].delay = 0 =>
                wiring[n][p].src < n
           /\ wiring[n][p].delay > 0 /\ wiring[n][p].src < n => DelayedForward
           /\ wiring[n][p].init \in InitFrom
           /\ wiring[n][p].declared => /\ wiring[n][p].src = n
                                       /\ wiring[n][p].delay = 1
<1>1. wiring[n] \in [Ports -> Bindings(n)]
  BY DEF Programs
<1>2. wiring[n][p] \in Bindings(n)
  BY <1>1
<1>3. MaxDelay \in Nat
  BY PassAssumption
<1> QED BY <1>2, <1>3, PassAssumption DEF Bindings, Admitted, WellFormed

\* What an input reads is a value.
LEMMA ReadsValue ==
    ASSUME wiring \in Programs, NEW n \in Nodes, NEW p \in Ports,
           NEW t \in Nat \ {0}
    PROVE  Reads(wiring, n, p, t) \in Value
<1> DEFINE b == wiring[n][p]
<1>1. /\ b.src \in Nodes \cup {Outside}
      /\ b.delay \in Nat
      /\ b.init \in {Before, Foreign} \cup Nodes
  BY ProgramBindings
<1> HIDE DEF b
<1>2. CASE t > b.delay
  <2>1. Reads(wiring, n, p, t) = <<b.src, t - b.delay>>
    BY <1>2 DEF Reads, b
  <2>2. t - b.delay \in Nat
    BY <1>1, <1>2
  <2> QED BY <1>1, <2>1, <2>2 DEF Value, Origins
<1>3. CASE ~(t > b.delay)
  <2>1. Reads(wiring, n, p, t) = <<b.init, IF b.init \in Nodes THEN 1 ELSE t>>
    BY <1>3 DEF Reads, b
  <2> QED BY <1>1, <2>1 DEF Value, Origins
<1> QED BY <1>2, <1>3

-----------------------------------------------------------------------------
(* Types *)

LEMMA InitTyped == Init => TypeOK
<1> SUFFICES ASSUME Init PROVE TypeOK
  OBVIOUS
<1>1. Everywhere(Outside) \in [Nodes -> [Ports -> Nodes \cup {Outside, Foreign}]]
  BY DEF Everywhere
<1>2. Everywhere(Outside) \in [Nodes -> [Ports -> Nodes \cup {Outside}]]
  BY DEF Everywhere
<1>3. Everywhere(Zero) \in [Nodes -> [Ports -> Value]]
  BY DEF Everywhere, Zero, Value, Origins
<1>4. 1 \in 1 .. NumNodes + 1
  BY NumNodesAssumption
<1> QED BY <1>1, <1>2, <1>3, <1>4 DEF Init, TypeOK

\* A node learns either nothing or where its value comes from.
LEMMA LearnTyped ==
    ASSUME NEW v \in Value, NEW known \in Nodes \cup {Outside, Foreign}
    PROVE  Learn(known, v) \in Nodes \cup {Outside, Foreign}
  BY DEF Learn, Published

LEMMA PrepopulatedTyped ==
    ASSUME wiring \in Programs, NEW S
    PROVE  Prepopulated(S) \in [Nodes -> [Ports -> Value]]
<1>1. \A n \in Nodes, p \in Ports :
        /\ Reads(wiring, n, p, 1) \in Value
        /\ Zero \in Value
  BY ReadsValue DEF Zero, Value, Origins
<1> QED BY <1>1 DEF Prepopulated

LEMMA EdgeSourceTyped ==
    ASSUME TypeOK, NEW n \in Nodes, NEW p \in Ports
    PROVE  EdgeSource(n, p) \in Nodes \cup {Outside}
  BY DEF EdgeSource

LEMMA StepTyped == TypeOK /\ [Next]_vars => TypeOK'
<1> SUFFICES ASSUME TypeOK, [Next]_vars PROVE TypeOK'
  OBVIOUS
<1> USE NumNodesAssumption
<1>1. CASE TraceNode
  <2>1. \A p \in Ports : Reads(wiring, at, p, pass) \in Value
    BY <1>1, ReadsValue DEF TypeOK, TraceNode
  <2>2. [p \in Ports |-> Learn(source[at][p], Reads(wiring, at, p, pass))]
          \in [Ports -> Nodes \cup {Outside, Foreign}]
    <3>1. \A p \in Ports : source[at][p] \in Nodes \cup {Outside, Foreign}
      BY <1>1 DEF TypeOK, TraceNode
    <3>2. \A p \in Ports : Learn(source[at][p], Reads(wiring, at, p, pass))
                             \in Nodes \cup {Outside, Foreign}
      BY <2>1, <3>1, LearnTyped
    <3> QED BY <3>2
  <2>3. source' = [source EXCEPT ![at] =
           [p \in Ports |-> Learn(source[at][p], Reads(wiring, at, p, pass))]]
    BY <1>1 DEF TraceNode
  <2>4. source' \in [Nodes -> [Ports -> Nodes \cup {Outside, Foreign}]]
    BY <1>1, <2>2, <2>3 DEF TypeOK, TraceNode
  <2>5. at' \in 1 .. NumNodes + 1
    BY <1>1 DEF TypeOK, TraceNode, Nodes
  <2> QED BY <1>1, <2>4, <2>5 DEF TypeOK, TraceNode
<1>2. CASE NextPass
  <2>1. pass' \in Nat \ {0} /\ at' \in 1 .. NumNodes + 1
    BY <1>2 DEF TypeOK, NextPass
  <2> QED BY <1>2, <2>1 DEF TypeOK, NextPass
<1>3. CASE CompileGraph
  <2>1. FeedbackInputs \subseteq Inputs
    BY DEF FeedbackInputs
  <2>2. Prepopulated(FeedbackInputs) \in [Nodes -> [Ports -> Value]]
    BY PrepopulatedTyped DEF TypeOK
  <2>3. [n \in Nodes |-> [p \in Ports |-> EdgeSource(n, p)]]
          \in [Nodes -> [Ports -> Nodes \cup {Outside}]]
    BY EdgeSourceTyped
  <2>4. CASE DuplicateSource
    BY <1>3, <2>4 DEF TypeOK, CompileGraph
  <2>5. CASE ~DuplicateSource
    BY <1>3, <2>1, <2>2, <2>3, <2>5 DEF TypeOK, CompileGraph
  <2> QED BY <2>4, <2>5
<1>4. CASE RunPolicy
  <2>1. run' \in Nat /\ at' \in 1 .. NumNodes + 1
    BY <1>4 DEF TypeOK, RunPolicy
  <2>2. <<Outside, run + 1>> \in Value
    BY DEF TypeOK, Value, Origins
  <2>3. slot' \in [Nodes -> [Ports -> Value]]
    BY <1>4, <2>2 DEF TypeOK, RunPolicy
  <2> QED BY <1>4, <2>1, <2>3 DEF TypeOK, RunPolicy
<1>5. CASE RunNode
  <2>1. at \in Nodes /\ at' \in 1 .. NumNodes + 1
    BY <1>5 DEF TypeOK, RunNode, Nodes
  <2>2. Delivered(at) \in [Nodes -> [Ports -> Value]]
    BY <2>1 DEF TypeOK, Delivered, Value, Origins
  <2>3. seen' \in [Nodes -> [Ports -> Value]]
    BY <1>5, <2>1 DEF TypeOK, RunNode
  <2> QED BY <1>5, <2>1, <2>2, <2>3 DEF TypeOK, RunNode
<1>6. CASE Reset
  <2>1. Prepopulated(feedback) \in [Nodes -> [Ports -> Value]]
    BY PrepopulatedTyped DEF TypeOK
  <2> QED BY <1>6, <2>1 DEF TypeOK, Reset
<1>7. CASE UNCHANGED vars
  BY <1>7 DEF TypeOK, vars
<1> QED BY <1>1, <1>2, <1>3, <1>4, <1>5, <1>6, <1>7 DEF Next

\* Every variable keeps its type, whatever program is traced.
THEOREM TypeCorrect == Spec => []TypeOK
  BY InitTyped, StepTyped, PTL DEF Spec

-----------------------------------------------------------------------------
(***************************************************************************)
(* The programs of the theorems below: values are at most one iteration    *)
(* old, a value of an earlier iteration is only read by a node that does   *)
(* not complete after its source, what stands in for it on the first pass  *)
(* is a plain tensor, and the loop is traced twice.                        *)
(***************************************************************************)
OneBack == /\ MaxDelay <= 1
           /\ DelayedForward = FALSE
           /\ InitFrom \subseteq {Before}
           /\ MinPasses >= 2

\* Node n has taken its inputs on a pass on which a value that is d
\* iterations old was published in this session.
Seen(n, d) == pass > 1 + d \/ (pass = 1 + d /\ n < at)

\* An input has no other source than the program's, and has that one as soon
\* as a published value has been seen.
LearnedInv ==
    phase = "capture" => \A n \in Nodes : \A p \in Ports :
        /\ source[n][p] \in {Outside, wiring[n][p].src}
        /\ wiring[n][p].src \in Nodes /\ Seen(n, wiring[n][p].delay) =>
              source[n][p] = wiring[n][p].src

\* Nothing has been replayed while the program is traced.
CaptureInv == phase = "capture" => run = 0 /\ seen = Everywhere(Zero)

\* What a feedback slot holds: the result of this run once its source has
\* run, the one of the previous run before that, the initial value if there
\* was no such run.
FedBack(src) == IF src < at /\ run > 0 THEN <<src, run>>
                ELSE IF run > 1 THEN <<src, run - 1>> ELSE <<Before, 1>>

\* Every slot of the running pipeline holds what the program's dataflow says.
SlotInv ==
    phase = "replay" =>
        /\ run = 0 => at = NumNodes + 1
        /\ \A n \in Nodes : \A p \in Ports :
              LET b == wiring[n][p]
              IN /\ b.src = Outside /\ run > 0 => slot[n][p] = <<Outside, run>>
                 /\ b.src \in Nodes /\ b.delay = 0 /\ run > 0 /\ b.src < at =>
                       slot[n][p] = <<b.src, run>>
                 /\ b.delay > 0 => slot[n][p] = FedBack(b.src)

IInv == TypeOK /\ LearnedInv /\ CaptureInv /\ PipelineIsProgram /\ SlotInv

-----------------------------------------------------------------------------
(* Facts about the programs that OneBack admits *)

LEMMA OneBackBindings ==
    ASSUME OneBack, wiring \in Programs, NEW n \in Nodes, NEW p \in Ports
    PROVE  /\ wiring[n][p].src \in Nodes \cup {Outside}
           /\ wiring[n][p].delay \in {0, 1}
           /\ wiring[n][p].init = Before
           /\ wiring[n][p].src = Outside => wiring[n][p].delay = 0
           /\ wiring[n][p].delay = 1 => /\ wiring[n][p].src \in Nodes
                                        /\ ~(wiring[n][p].src < n)
           /\ wiring[n][p].src \in Nodes /\ wiring[n][p].delay = 0 =>
                wiring[n][p].src < n
           /\ wiring[n][p].declared => /\ wiring[n][p].src = n
                                       /\ wiring[n][p].delay = 1
<1>1. wiring[n][p].delay \in 0 .. MaxDelay /\ MaxDelay \in Nat
  BY ProgramBindings, PassAssumption
<1>2. wiring[n][p].delay \in {0, 1}
  BY <1>1 DEF OneBack
<1> QED BY <1>2, ProgramBindings DEF OneBack, Outside, Nodes

LEMMA OneBackReads ==
    ASSUME OneBack, wiring \in Programs, NEW n \in Nodes, NEW p \in Ports,
           NEW t \in Nat \ {0}
    PROVE  /\ wiring[n][p].delay = 0 =>
                Reads(wiring, n, p, t) = <<wiring[n][p].src, t>>
           /\ wiring[n][p].delay = 1 =>
                Reads(wiring, n, p, t) =
                   IF t > 1 THEN <<wiring[n][p].src, t - 1>> ELSE <<Before, 1>>
<1>1. wiring[n][p].init = Before /\ Before \notin Nodes
  BY OneBackBindings, NumNodesAssumption DEF Before, Nodes
<1> QED BY <1>1 DEF Reads

-----------------------------------------------------------------------------
(* The invariant holds initially and every action preserves it *)

LEMMA InitIInv == Init /\ OneBack => IInv
<1> SUFFICES ASSUME Init, OneBack PROVE IInv
  OBVIOUS
<1>1. TypeOK
  BY InitTyped
<1>2. LearnedInv
  <2>1. SUFFICES ASSUME NEW n \in Nodes, NEW p \in Ports
                 PROVE  source[n][p] = Outside /\ ~Seen(n, wiring[n][p].delay)
    BY <2>1 DEF LearnedInv
  <2>2. wiring[n][p].delay \in {0, 1} /\ n >= 1
    BY OneBackBindings, NumNodesAssumption DEF Init, Nodes
  <2> QED BY <2>2 DEF Init, Everywhere, Seen, Nodes
<1> QED BY <1>1, <1>2 DEF IInv, Init, CaptureInv, PipelineIsProgram, SlotInv

\* A node that runs learns its sources.
LEMMA TraceNodeLearns == OneBack /\ IInv /\ TraceNode => LearnedInv'
<1> SUFFICES ASSUME OneBack, IInv, TraceNode,
                    NEW n \in Nodes, NEW p \in Ports
             PROVE  /\ source'[n][p] \in {Outside, wiring[n][p].src}
                    /\ wiring[n][p].src \in Nodes /\ Seen(n, wiring[n][p].delay)' =>
                          source'[n][p] = wiring[n][p].src
  BY DEF LearnedInv, TraceNode
<1> DEFINE b == wiring[n][p]
           v == Reads(wiring, n, p, pass)
<1>1. /\ at \in Nodes /\ pass \in Nat \ {0} /\ at' = at + 1 /\ pass' = pass
      /\ at \in Int /\ n \in Int
  BY DEF IInv, TypeOK, TraceNode, Nodes
<1>2. /\ b.src \in Nodes \cup {Outside} /\ b.delay \in {0, 1}
      /\ Outside \notin Nodes /\ Before \notin Nodes \cup {Foreign, Outside}
      /\ Foreign \notin Nodes \cup {Outside}
  BY OneBackBindings, NumNodesAssumption
     DEF IInv, TypeOK, Nodes, Outside, Before, Foreign
<1>3. /\ source[n][p] \in {Outside, b.src}
      /\ b.src \in Nodes /\ Seen(n, b.delay) => source[n][p] = b.src
  BY DEF IInv, LearnedInv, TraceNode
<1>4. CASE n # at
  <2>1. source'[n] = source[n]
    BY <1>1, <1>4 DEF TraceNode, IInv, TypeOK
  <2>2. Seen(n, b.delay)' => Seen(n, b.delay)
    <3>1. wiring' = wiring
      BY DEF TraceNode
    <3> QED BY <1>1, <1>2, <1>4, <3>1 DEF Seen
  <2> QED BY <1>3, <2>1, <2>2 DEF TraceNode
<1>5. CASE n = at
  <2>1. source'[n][p] = Learn(source[n][p], v)
    BY <1>1, <1>5 DEF TraceNode, IInv, TypeOK
  <2>2. /\ b.delay = 0 => v = <<b.src, pass>>
        /\ b.delay = 1 => v = IF pass > 1 THEN <<b.src, pass - 1>>
                                          ELSE <<Before, 1>>
    BY <1>1, OneBackReads DEF IInv, TypeOK
  <2>3. Published(v) => v[1] = b.src /\ b.src \in Nodes
    BY <1>2, <2>2 DEF Published
  <2>4. source'[n][p] \in {Outside, b.src}
    BY <1>3, <2>1, <2>3 DEF Learn
  <2>5. ASSUME b.src \in Nodes, Seen(n, b.delay)'
        PROVE  source'[n][p] = b.src
    <3>1. CASE pass > 1 + b.delay
      BY <1>2, <1>3, <2>1, <2>5, <3>1 DEF Seen, Learn
    <3>2. CASE pass = 1 + b.delay
      <4>1. v = <<b.src, 1>>
        BY <1>2, <2>2, <3>2
      <4> QED BY <1>2, <1>3, <2>1, <2>5, <4>1 DEF Published, Learn
    <3>3. wiring' = wiring
      BY DEF TraceNode
    <3> QED BY <1>1, <2>5, <3>1, <3>2, <3>3 DEF Seen
  <2> QED BY <2>4, <2>5 DEF TraceNode
<1> QED BY <1>4, <1>5

\* A new pass sees what the passes before it have seen.
LEMMA NextPassLearns == OneBack /\ IInv /\ NextPass => LearnedInv'
<1> SUFFICES ASSUME OneBack, IInv, NextPass,
                    NEW n \in Nodes, NEW p \in Ports
             PROVE  /\ source'[n][p] \in {Outside, wiring[n][p].src}
                    /\ wiring[n][p].src \in Nodes /\ Seen(n, wiring[n][p].delay)' =>
                          source'[n][p] = wiring[n][p].src
  BY DEF LearnedInv, NextPass
<1>1. wiring[n][p].delay \in {0, 1} /\ pass \in Nat /\ n \in 1 .. NumNodes
  BY OneBackBindings DEF IInv, TypeOK, Nodes
<1>2. pass' = pass + 1 /\ at' = 1 /\ at = NumNodes + 1 /\ wiring' = wiring
  BY DEF NextPass
<1>3. Seen(n, wiring[n][p].delay)' => Seen(n, wiring[n][p].delay)
  BY <1>1, <1>2, NumNodesAssumption DEF Seen
<1> QED BY <1>3 DEF IInv, LearnedInv, NextPass

\* The connections LeappGraph builds are the program's.
LEMMA CompileGraphWires ==
    ASSUME OneBack, IInv, CompileGraph, ~DuplicateSource
    PROVE  PipelineIsProgram'
<1> SUFFICES ASSUME NEW n \in Nodes, NEW p \in Ports
             PROVE  /\ edge'[n][p] = wiring'[n][p].src
                    /\ <<n, p>> \in feedback' <=> wiring'[n][p].delay > 0
  BY DEF PipelineIsProgram
<1> DEFINE b == wiring[n][p]
<1>1. /\ b.src \in Nodes \cup {Outside}
      /\ b.delay \in {0, 1}
      /\ b.src = Outside => b.delay = 0
      /\ b.delay = 1 => b.src \in Nodes /\ ~(b.src < n)
      /\ b.src \in Nodes /\ b.delay = 0 => b.src < n
      /\ b.declared => b.src = n /\ b.delay = 1
  BY OneBackBindings DEF IInv, TypeOK
<1>2. Outside \notin Nodes
  BY NumNodesAssumption DEF Outside, Nodes
<1>3. Seen(n, b.delay)
  <2>1. pass \in Nat /\ pass >= 2 /\ at = NumNodes + 1 /\ n \in 1 .. NumNodes
    BY PassAssumption DEF CompileGraph, OneBack, IInv, TypeOK, Nodes
  <2> QED BY <1>1, <2>1, NumNodesAssumption DEF Seen
<1>4. /\ source[n][p] \in {Outside, b.src}
      /\ b.src \in Nodes => source[n][p] = b.src
  BY <1>3 DEF IInv, LearnedInv, CompileGraph
<1>5. EdgeSource(n, p) = b.src
  BY <1>1, <1>2, <1>4 DEF EdgeSource
<1>6. edge'[n][p] = b.src /\ feedback' = FeedbackInputs /\ wiring' = wiring
  BY <1>5 DEF CompileGraph
<1>7. <<n, p>> \in FeedbackInputs <=>
         b.declared \/ (b.src # Outside /\ ~(b.src < n))
  BY <1>5 DEF FeedbackInputs, Inputs, IsForward
<1> QED BY <1>1, <1>2, <1>6, <1>7

\* The initial values are what the slots hold before any run.
LEMMA PrepopulatedSlots ==
    ASSUME OneBack, wiring \in Programs, NEW S,
           NEW n \in Nodes, NEW p \in Ports,
           <<n, p>> \in S, wiring[n][p].delay > 0
    PROVE  Prepopulated(S)[n][p] = <<Before, 1>>
<1>1. wiring[n][p].delay = 1
  BY OneBackBindings
<1>2. Reads(wiring, n, p, 1) = <<Before, 1>>
  BY <1>1, OneBackReads
<1> QED BY <1>2 DEF Prepopulated

LEMMA CompileGraphSlots ==
    ASSUME OneBack, IInv, CompileGraph, ~DuplicateSource
    PROVE  SlotInv'
<1>1. /\ run = 0 /\ run' = 0 /\ at' = at /\ at = NumNodes + 1
      /\ wiring' = wiring /\ wiring \in Programs
      /\ slot' = Prepopulated(FeedbackInputs)
      /\ feedback' = FeedbackInputs
  BY DEF CompileGraph, IInv, CaptureInv, TypeOK
<1> SUFFICES ASSUME NEW n \in Nodes, NEW p \in Ports, wiring[n][p].delay > 0
             PROVE  slot'[n][p] = <<Before, 1>>
  BY <1>1 DEF SlotInv, FedBack
<1>2. <<n, p>> \in FeedbackInputs
  BY <1>1, CompileGraphWires, phase' = "replay" DEF PipelineIsProgram, CompileGraph
<1> QED BY <1>1, <1>2, PrepopulatedSlots

LEMMA RunPolicySlots == OneBack /\ IInv /\ RunPolicy => SlotInv'
<1> SUFFICES ASSUME OneBack, IInv, RunPolicy PROVE SlotInv'
  OBVIOUS
<1>1. /\ run \in Nat /\ run' = run + 1 /\ at = NumNodes + 1 /\ at' = 1
      /\ wiring' = wiring /\ wiring \in Programs /\ phase = "replay"
  BY DEF RunPolicy, IInv, TypeOK
<1> SUFFICES ASSUME NEW n \in Nodes, NEW p \in Ports
             PROVE  LET b == wiring[n][p]
                    IN /\ b.src = Outside => slot'[n][p] = <<Outside, run'>>
                       /\ ~(b.src \in Nodes /\ b.src < 1)
                       /\ b.delay > 0 => slot'[n][p] = FedBack(b.src)'
  BY <1>1, NumNodesAssumption DEF SlotInv
<1> DEFINE b == wiring[n][p]
<1>2. edge[n][p] = b.src
  BY <1>1 DEF IInv, PipelineIsProgram
<1>3. slot'[n][p] = IF b.src = Outside THEN <<Outside, run + 1>> ELSE slot[n][p]
  BY <1>2 DEF RunPolicy
<1>4. b.src \in Nodes => b.src \in 1 .. NumNodes /\ ~(b.src < 1)
  BY NumNodesAssumption DEF Nodes
<1>5. ASSUME b.delay > 0 PROVE slot'[n][p] = FedBack(b.src)'
  <2>1. b.src \in Nodes /\ b.src # Outside
    BY <1>1, <1>5, OneBackBindings, NumNodesAssumption DEF Nodes, Outside
  <2>2. slot'[n][p] = FedBack(b.src)
    BY <1>1, <1>3, <1>5, <2>1 DEF IInv, SlotInv
  <2>3. FedBack(b.src) = IF run > 0 THEN <<b.src, run>> ELSE <<Before, 1>>
    BY <1>1, <1>4, <2>1, NumNodesAssumption DEF FedBack
  <2>4. FedBack(b.src)' = IF run > 0 THEN <<b.src, run>> ELSE <<Before, 1>>
    BY <1>1, <1>4, <2>1 DEF FedBack
  <2> QED BY <2>2, <2>3, <2>4
<1> QED BY <1>1, <1>3, <1>4, <1>5

LEMMA RunNodeSlots == OneBack /\ IInv /\ RunNode => SlotInv'
<1> SUFFICES ASSUME OneBack, IInv, RunNode PROVE SlotInv'
  OBVIOUS
<1>1. /\ run \in Nat /\ run' = run /\ at \in Nodes /\ at' = at + 1
      /\ wiring' = wiring /\ wiring \in Programs /\ phase = "replay"
      /\ at # NumNodes + 1 /\ at \in Int
  BY NumNodesAssumption DEF RunNode, IInv, TypeOK, Nodes
<1>2. run > 0
  BY <1>1 DEF IInv, SlotInv
<1> SUFFICES ASSUME NEW n \in Nodes, NEW p \in Ports
             PROVE  LET b == wiring[n][p]
                    IN /\ b.src = Outside => slot'[n][p] = <<Outside, run>>
                       /\ b.src \in Nodes /\ b.delay = 0 /\ b.src < at + 1 =>
                             slot'[n][p] = <<b.src, run>>
                       /\ b.delay > 0 => slot'[n][p] = FedBack(b.src)'
  BY <1>1, <1>2 DEF SlotInv
<1> DEFINE b == wiring[n][p]
<1>3. slot'[n][p] = IF b.src = at THEN <<at, run>> ELSE slot[n][p]
  BY <1>1 DEF RunNode, Delivered, IInv, PipelineIsProgram
<1>4. /\ b.src = Outside => slot[n][p] = <<Outside, run>>
      /\ b.src \in Nodes /\ b.delay = 0 /\ b.src < at =>
            slot[n][p] = <<b.src, run>>
      /\ b.delay > 0 => slot[n][p] = FedBack(b.src)
  BY <1>1, <1>2 DEF IInv, SlotInv
<1>5. /\ b.src \in Nodes \cup {Outside}
      /\ b.delay > 0 => b.src \in Nodes
      /\ b.src \in Nodes => b.src \in Int
      /\ Outside \notin Nodes
  BY <1>1, OneBackBindings, NumNodesAssumption DEF Nodes, Outside
<1>6. b.src = Outside => slot'[n][p] = <<Outside, run>>
  BY <1>1, <1>3, <1>4, <1>5
<1>7. b.src \in Nodes /\ b.delay = 0 /\ b.src < at + 1 =>
         slot'[n][p] = <<b.src, run>>
  BY <1>1, <1>3, <1>4, <1>5
<1>8. b.delay > 0 => slot'[n][p] = FedBack(b.src)'
  <2>1. CASE b.src = at
    BY <1>1, <1>2, <1>3, <2>1 DEF FedBack
  <2>2. CASE b.src # at
    BY <1>1, <1>2, <1>3, <1>4, <1>5, <2>2 DEF FedBack
  <2> QED BY <2>1, <2>2
<1> QED BY <1>6, <1>7, <1>8

LEMMA ResetSlots == OneBack /\ IInv /\ Reset => SlotInv'
<1> SUFFICES ASSUME OneBack, IInv, Reset PROVE SlotInv'
  OBVIOUS
<1>1. /\ run' = 0 /\ at' = at /\ at = NumNodes + 1 /\ phase = "replay"
      /\ wiring' = wiring /\ wiring \in Programs
      /\ slot' = Prepopulated(feedback)
  BY DEF Reset, IInv, TypeOK
<1> SUFFICES ASSUME NEW n \in Nodes, NEW p \in Ports, wiring[n][p].delay > 0
             PROVE  slot'[n][p] = <<Before, 1>>
  BY <1>1 DEF SlotInv, FedBack
<1>2. <<n, p>> \in feedback
  BY <1>1 DEF IInv, PipelineIsProgram
<1> QED BY <1>1, <1>2, PrepopulatedSlots

LEMMA StepIInv == OneBack /\ IInv /\ [Next]_vars => IInv'
<1> SUFFICES ASSUME OneBack, IInv, [Next]_vars PROVE IInv'
  OBVIOUS
<1>1. TypeOK'
  BY StepTyped DEF IInv
<1>2. CASE TraceNode
  BY <1>1, <1>2, TraceNodeLearns
     DEF IInv, TraceNode, CaptureInv, PipelineIsProgram, SlotInv
<1>3. CASE NextPass
  BY <1>1, <1>3, NextPassLearns
     DEF IInv, NextPass, CaptureInv, PipelineIsProgram, SlotInv
<1>4. CASE CompileGraph
  <2>1. CASE DuplicateSource
    BY <1>1, <1>4, <2>1
       DEF IInv, CompileGraph, LearnedInv, CaptureInv, PipelineIsProgram, SlotInv
  <2>2. CASE ~DuplicateSource
    BY <1>1, <1>4, <2>2, CompileGraphWires, CompileGraphSlots
       DEF IInv, CompileGraph, LearnedInv, CaptureInv
  <2> QED BY <2>1, <2>2
<1>5. CASE RunPolicy
  BY <1>1, <1>5, RunPolicySlots
     DEF IInv, RunPolicy, LearnedInv, CaptureInv, PipelineIsProgram
<1>6. CASE RunNode
  BY <1>1, <1>6, RunNodeSlots
     DEF IInv, RunNode, LearnedInv, CaptureInv, PipelineIsProgram
<1>7. CASE Reset
  BY <1>1, <1>7, ResetSlots
     DEF IInv, Reset, LearnedInv, CaptureInv, PipelineIsProgram
<1>8. CASE UNCHANGED vars
  BY <1>1, <1>8 DEF IInv, vars, LearnedInv, Seen, CaptureInv,
                    PipelineIsProgram, SlotInv, FedBack
<1> QED BY <1>2, <1>3, <1>4, <1>5, <1>6, <1>7, <1>8 DEF Next

-----------------------------------------------------------------------------
\* The exported pipeline is the program's dataflow (LeappGraph's connections
\* against the traced loop), for every program OneBack admits.
THEOREM PipelineAlways == ASSUME OneBack PROVE Spec => []PipelineIsProgram
<1>1. Init => IInv
  BY InitIInv
<1>2. IInv /\ [Next]_vars => IInv'
  BY StepIInv
<1>3. IInv => PipelineIsProgram
  BY DEF IInv
<1> QED BY <1>1, <1>2, <1>3, PTL DEF Spec

\* The slots of the node that runs hold what the program would give it.
LEMMA SlotsAreReads ==
    ASSUME OneBack, IInv, phase = "replay", at \in Nodes, NEW p \in Ports
    PROVE  slot[at][p] = Reads(wiring, at, p, run)
<1> DEFINE b == wiring[at][p]
<1>1. /\ run \in Nat /\ at \in 1 .. NumNodes /\ at # NumNodes + 1
      /\ wiring \in Programs
  BY NumNodesAssumption DEF IInv, TypeOK, Nodes
<1>2. run > 0 /\ run \in Nat \ {0}
  BY <1>1 DEF IInv, SlotInv
<1>3. /\ b.src \in Nodes \cup {Outside}
      /\ b.delay \in {0, 1}
      /\ b.delay = 1 => b.src \in Nodes /\ ~(b.src < at)
      /\ b.src \in Nodes /\ b.delay = 0 => b.src < at
  BY <1>1, OneBackBindings
<1>4. /\ b.delay = 0 => Reads(wiring, at, p, run) = <<b.src, run>>
      /\ b.delay = 1 => Reads(wiring, at, p, run) =
                          IF run > 1 THEN <<b.src, run - 1>> ELSE <<Before, 1>>
  BY <1>1, <1>2, OneBackReads
<1>5. CASE b.delay = 0
  BY <1>2, <1>3, <1>4, <1>5 DEF IInv, SlotInv
<1>6. CASE b.delay = 1
  <2>1. slot[at][p] = FedBack(b.src)
    BY <1>6 DEF IInv, SlotInv
  <2> QED BY <1>3, <1>4, <1>6, <2>1 DEF FedBack
<1> QED BY <1>3, <1>5, <1>6

\* The loop of the model starts as the loop of the program.
LEMMA InitRefines == Init => Eager!Init
<1> SUFFICES ASSUME Init PROVE Eager!Init
  OBVIOUS
<1>1. \A n \in Nodes : Bindings(n) \subseteq Eager!Binding
  <2> SUFFICES ASSUME NEW n \in Nodes, NEW b \in Bindings(n)
               PROVE  b \in Eager!Binding
    OBVIOUS
  <2>1. b \in [src : Nodes \cup {Outside}, delay : 0 .. MaxDelay,
               init : InitFrom \cup {Before}, declared : BOOLEAN]
    BY DEF Bindings
  <2>2. MaxDelay \in Nat /\ InitFrom \subseteq {Before, Foreign} \cup Nodes
    BY PassAssumption
  <2>3. 0 .. MaxDelay \subseteq Nat
    BY <2>2
  <2> QED BY <2>1, <2>2, <2>3
          DEF Eager!Binding, Eager!Nodes, Nodes, Outside, Eager!Outside,
              Before, Eager!Before, Foreign, Eager!Foreign
<1>2. wiring \in [Nodes -> [Ports -> Eager!Binding]]
  <2>1. \A n \in Nodes : wiring[n] \in [Ports -> Bindings(n)]
    BY DEF Init, Programs
  <2>2. \A n \in Nodes : wiring[n] \in [Ports -> Eager!Binding]
    BY <1>1, <2>1
  <2>3. wiring = [n \in Nodes |-> wiring[n]]
    BY DEF Init, Programs
  <2> QED BY <2>2, <2>3
<1>3. seen = Eager!Nothing
  BY DEF Init, Everywhere, Zero, Eager!Nothing, Nodes, Eager!Nodes,
         Before, Eager!Before
<1> QED BY <1>2, <1>3 DEF Init, Eager!Init, Eager!Nodes, Nodes

LEMMA StepRefines ==
    OneBack /\ IInv /\ [Next]_vars => [Eager!Next]_(Eager!vars)
<1> SUFFICES ASSUME OneBack, IInv, [Next]_vars
             PROVE  Eager!Next \/ UNCHANGED Eager!vars
  OBVIOUS
<1>1. CASE TraceNode
  BY <1>1 DEF TraceNode, Eager!vars
<1>2. CASE NextPass
  BY <1>2 DEF NextPass, Eager!vars
<1>3. CASE CompileGraph
  BY <1>3 DEF CompileGraph, Eager!vars
<1>4. CASE RunPolicy
  <2>1. Eager!BeginIteration
    BY <1>4 DEF RunPolicy, Eager!BeginIteration
  <2> QED BY <2>1 DEF Eager!Next
<1>5. CASE RunNode
  <2>1. slot[at] = [p \in Ports |-> Reads(wiring, at, p, run)]
    <3>1. phase = "replay" /\ at \in Nodes /\ slot[at] \in [Ports -> Value]
      BY <1>5 DEF RunNode, IInv, TypeOK
    <3>2. \A p \in Ports : slot[at][p] = Reads(wiring, at, p, run)
      BY <3>1, SlotsAreReads
    <3> QED BY <3>1, <3>2
  <2>2. Eager!RunNode
    BY <1>5, <2>1 DEF RunNode, Eager!RunNode, Eager!Nodes, Nodes,
                      Eager!Reads, Reads
  <2> QED BY <2>2 DEF Eager!Next
<1>6. CASE Reset
  <2>1. Eager!StartOver
    BY <1>6 DEF Reset, Eager!StartOver
  <2> QED BY <2>1 DEF Eager!Next
<1>7. CASE UNCHANGED vars
  BY <1>7 DEF vars, Eager!vars
<1> QED BY <1>1, <1>2, <1>3, <1>4, <1>5, <1>6, <1>7 DEF Next

\* InferenceManager's replay of the graph LEAPP builds implements the traced
\* loop: every node reads in every iteration what the program gave it.
THEOREM ReplayImplements == ASSUME OneBack PROVE Spec => ReplaysEager
<1>1. Init => IInv
  BY InitIInv
<1>2. IInv /\ [Next]_vars => IInv'
  BY StepIInv
<1>3. IInv /\ [Next]_vars => [Eager!Next]_(Eager!vars)
  BY StepRefines
<1> QED BY <1>1, <1>2, <1>3, InitRefines, PTL DEF Spec, ReplaysEager, Eager!Spec
=============================================================================
