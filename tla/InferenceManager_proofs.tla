------------------------ MODULE InferenceManager_proofs ------------------------
(***************************************************************************)
(* Proofs about InferenceManager: who owns the tensors of the slots, and   *)
(* what follows for the values a model reads and the caller gets, when no  *)
(* model returns one of its inputs.                                        *)
(***************************************************************************)
EXTENDS InferenceManager, TLAPS

-----------------------------------------------------------------------------
(* The inductive invariant *)

\* The tensor of a routed slot was allocated for that slot; that of a slot the
\* caller supplies is its first one or one the caller was given.
Lent == Finals \cup {Own(c) : c \in Observations}
SlotsOwned ==
    /\ \A s \in Routed : slot[s][1] = s
    /\ \A s \in External : slot[s] = <<s, 1>> \/ slot[s][1] \in Lent
    /\ \A t \in held : t[1] \in Lent

\* The source of slot s has run, and its consumers have not all run.
Delivered(s) == at \in Nodes /\ SourceOf[s][1] < at

\* What was delivered in this run and is still to be read is intact.
ForwardInv ==
    \A s \in (Inputs \cap Routed) \ Feedback :
        Delivered(s) /\ at <= s[2] => Content(s) = Result(SourceOf[s][1], run)

\* So are the final outputs of this run, which no model is given.
FinalInv ==
    \A s \in Finals : Delivered(s) =>
        /\ Content(s) = Result(SourceOf[s][1], run)
        /\ \A e \in External : slot[e] # slot[s]

IInv == TypeOK /\ SlotsOwned /\ ForwardInv /\ FinalInv

-----------------------------------------------------------------------------
(* The routing *)

LEMMA SlotKinds ==
    /\ Slots = Inputs \cup Finals
    /\ \A s \in Slots : s[1] \in {"in", "out"} /\ s[2] \in Nodes
    /\ \A s \in Inputs : s[1] = "in"
    /\ \A p \in Lent : p \in Places /\ p[1] \in {"out", "own"}
    /\ External \subseteq Inputs /\ Routed \subseteq Slots
    /\ Finals \subseteq Routed
    /\ External \cap Routed = {}
<1>1. \A s \in Slots : s[1] \in {"in", "out"} /\ s[2] \in Nodes
  BY RoutingAssumption
<1>2. \A s \in Inputs : s \in Slots /\ s[1] = "in"
  BY <1>1 DEF Inputs, Finals
<1>3. \A c \in Observations : Own(c)[1] = "own"
  BY DEF Own
<1>4. \A p \in Lent : p \in Places /\ p[1] \in {"out", "own"}
  BY <1>3 DEF Lent, Places, Finals
<1>5. External \subseteq Inputs /\ External \cap Routed = {} /\ Routed \subseteq Slots
  BY RoutingAssumption DEF Slots
<1>6. Finals \subseteq Routed
  BY <1>2, <1>5 DEF Finals, Slots
<1>7. Slots = Inputs \cup Finals
  BY DEF Inputs, Finals
<1> QED BY <1>1, <1>2, <1>4, <1>5, <1>6, <1>7

LEMMA Sources ==
    ASSUME NEW s \in Routed
    PROVE  /\ SourceOf[s] \in DOMAIN Targets /\ SourceOf[s][1] \in Nodes
           /\ PositionOf[s] \in DOMAIN Targets[SourceOf[s]]
           /\ PositionOf[s] \in Nat \ {0}
           /\ Targets[SourceOf[s]][PositionOf[s]] = s
<1>1. \E out \in DOMAIN Targets : s \in TargetsOf(out)
  BY DEF Routed
<1>2. SourceOf[s] \in DOMAIN Targets /\ s \in TargetsOf(SourceOf[s])
  BY <1>1 DEF SourceOf
<1>3. \E i \in DOMAIN Targets[SourceOf[s]] : Targets[SourceOf[s]][i] = s
  BY <1>2 DEF TargetsOf
<1>4. /\ PositionOf[s] \in DOMAIN Targets[SourceOf[s]]
      /\ Targets[SourceOf[s]][PositionOf[s]] = s
  BY <1>3 DEF PositionOf
<1>5. SourceOf[s][1] \in Nodes
  BY <1>2, RoutingAssumption
<1>6. PositionOf[s] \in Nat \ {0}
  BY <1>2, <1>4, RoutingAssumption
<1> QED BY <1>2, <1>4, <1>5, <1>6

LEMMA FirstTarget ==
    ASSUME NEW out \in DOMAIN Targets
    PROVE  /\ Targets[out][1] \in Routed
           /\ SourceOf[Targets[out][1]] = out
           /\ PositionOf[Targets[out][1]] = 1
<1> DEFINE f == Targets[out][1]
<1>1. 1 \in DOMAIN Targets[out] /\ f \in TargetsOf(out)
  <2>1. Targets[out] \in Seq(Slots) \ {<<>>}
    BY RoutingAssumption
  <2>2. 1 \in DOMAIN Targets[out]
    BY <2>1
  <2> QED BY <2>2 DEF TargetsOf
<1>2. f \in Routed
  BY <1>1 DEF Routed
<1>3. SourceOf[f] \in DOMAIN Targets /\ f \in TargetsOf(SourceOf[f])
  <2> HIDE DEF f
  <2> QED BY <1>2, Sources DEF TargetsOf
<1>4. SourceOf[f] = out
  <2> HIDE DEF f
  <2> QED BY <1>1, <1>3, RoutingAssumption
<1>5. PositionOf[f] \in DOMAIN Targets[out] /\ Targets[out][PositionOf[f]] = Targets[out][1]
  BY <1>2, <1>4, Sources
<1>6. PositionOf[f] = 1
  BY <1>1, <1>5, RoutingAssumption
<1> QED BY <1>2, <1>4, <1>6

LEMMA FreshFacts ==
    ASSUME NEW s \in Slots, HasFree(s)
    PROVE  Fresh(s) \in Tensors /\ Fresh(s)[1] = s /\ Fresh(s) \notin InUse
<1> DEFINE k == CHOOSE i \in 1 .. Generations : <<s, i>> \notin InUse
<1>1. k \in 1 .. Generations /\ <<s, k>> \notin InUse
  BY DEF HasFree
<1>2. Fresh(s) = <<s, k>>
  BY DEF Fresh
<1>3. s \in Places
  BY DEF Places
<1> HIDE DEF k
<1> QED BY <1>1, <1>2, <1>3 DEF Tensors

-----------------------------------------------------------------------------
(* One node runs *)

LEMMA RunFacts ==
    ASSUME TypeOK, "pass_through" \notin Usage, RunNode
    PROVE  /\ slot' = [s \in Slots |-> IF s \in Consumers(at) THEN Fresh(s) ELSE slot[s]]
           /\ \A s \in Consumers(at) : heap'[Fresh(s)] = Result(at, run)
           /\ \A t \in InUse : /\ \A s \in NodeInputs(at) : slot[s] # t
                               /\ \E s \in Slots : slot'[s] = t
                               => heap'[t] = heap[t]
<1>0. at \in Nodes /\ run \in 0 .. MaxRuns /\ \A s \in Consumers(at) : HasFree(s)
  BY DEF RunNode, TypeOK
<1>1. PICK result \in [Outputs(at) -> Returnable(at)], written \in SUBSET NodeInputs(at) :
         /\ \A out \in Outputs(at) : result[out] \in InUse \cup {New(out)}
         /\ LET after == Computed(at, written, result)
                clone(t) == {s \in Consumers(at) : PositionOf[s] > 1 /\ t = Fresh(s)}
                delivered ==
                    [t \in Tensors |->
                       IF clone(t) # {}
                       THEN after[result[SourceOf[CHOOSE s \in clone(t) : TRUE]]]
                       ELSE after[t]]
            IN /\ slot' = [s \in Slots |->
                              IF s \in Consumers(at) THEN DeliveredTo(s, result)
                                                     ELSE slot[s]]
               /\ heap' = Swept(delivered, slot', held')
  BY DEF RunNode
<1> DEFINE after == Computed(at, written, result)
           clone(t) == {s \in Consumers(at) : PositionOf[s] > 1 /\ t = Fresh(s)}
           delivered == [t \in Tensors |->
                           IF clone(t) # {}
                           THEN after[result[SourceOf[CHOOSE s \in clone(t) : TRUE]]]
                           ELSE after[t]]
<1>2. \A s \in Consumers(at) : /\ s \in Slots /\ s \in Routed /\ SourceOf[s] \in Outputs(at)
                               /\ Fresh(s) \in Tensors /\ Fresh(s)[1] = s /\ Fresh(s) \notin InUse
  <2> TAKE s \in Consumers(at)
  <2>1. s \in Routed /\ s \in Slots /\ SourceOf[s][1] = at
    BY SlotKinds DEF Consumers
  <2>2. SourceOf[s] \in Outputs(at)
    BY <2>1, Sources DEF Outputs
  <2> QED BY <1>0, <2>1, <2>2, FreshFacts
<1>3. \A out \in Outputs(at) : Targets[out][1] \in Consumers(at) /\ New(out) = Fresh(Targets[out][1])
  BY FirstTarget DEF Outputs, Consumers, New
<1>4. \A out \in Outputs(at) : result[out] = New(out)
  <2> TAKE out \in Outputs(at)
  <2>1. result[out] \in {New(o) : o \in Outputs(at)}
    BY DEF Returnable
  <2>2. result[out] \notin InUse
    BY <1>2, <1>3, <2>1
  <2> QED BY <1>1, <2>2
<1>5. \A s \in Consumers(at) : DeliveredTo(s, result) = Fresh(s)
  <2> TAKE s \in Consumers(at)
  <2>1. CASE PositionOf[s] = 1
    <3>1. Targets[SourceOf[s]][1] = s
      BY <1>2, <2>1, Sources
    <3> QED BY <1>2, <1>3, <1>4, <2>1, <3>1 DEF DeliveredTo
  <2>2. CASE PositionOf[s] # 1
    BY <2>2 DEF DeliveredTo
  <2> QED BY <2>1, <2>2
<1>6. slot' = [s \in Slots |-> IF s \in Consumers(at) THEN Fresh(s) ELSE slot[s]]
  BY <1>1, <1>5
<1>7. heap' = Swept(delivered, slot', held')
  BY <1>1
<1>8. \A out \in Outputs(at) : New(out) \in Tensors /\ after[New(out)] = Result(at, run)
  <2> TAKE out \in Outputs(at)
  <2>1. New(out) \in Tensors
    BY <1>2, <1>3
  <2> QED BY <1>4, <2>1 DEF Computed
<1>9. ASSUME NEW s \in Consumers(at) PROVE delivered[Fresh(s)] = Result(at, run)
  <2>1. clone(Fresh(s)) \subseteq {s}
    BY <1>2
  <2>2. CASE clone(Fresh(s)) = {}
    <3>1. PositionOf[s] = 1 => Fresh(s) = New(SourceOf[s])
      <4>1. PositionOf[s] = 1 => Targets[SourceOf[s]][1] = s
        BY <1>2, Sources
      <4> QED BY <1>2, <1>3, <4>1
    <3>2. PositionOf[s] = 1
      <4>1. ~(PositionOf[s] > 1)
        BY <2>2
      <4> QED BY <1>2, <4>1, Sources
    <3> QED BY <1>2, <1>8, <2>2, <3>1, <3>2
  <2>3. CASE clone(Fresh(s)) # {}
    <3>1. clone(Fresh(s)) = {s} /\ (CHOOSE x \in clone(Fresh(s)) : TRUE) = s
      BY <2>1, <2>3
    <3>2. delivered[Fresh(s)] = after[result[SourceOf[s]]]
      <4> HIDE DEF after, clone
      <4> QED BY <1>2, <2>3, <3>1
    <3> QED BY <1>2, <1>4, <1>8, <3>2
  <2> QED BY <2>2, <2>3
<1>10. ASSUME NEW s \in Consumers(at) PROVE heap'[Fresh(s)] = Result(at, run)
  <2>1. slot'[s] = Fresh(s) /\ Fresh(s) \in Tensors /\ s \in Slots
    BY <1>2, <1>6
  <2> HIDE DEF delivered
  <2> QED BY <1>7, <1>9, <2>1 DEF Swept
<1>11. ASSUME NEW t \in InUse, \A s \in NodeInputs(at) : slot[s] # t,
              \E s \in Slots : slot'[s] = t
       PROVE  heap'[t] = heap[t]
  <2>1. t \in Tensors
    BY DEF InUse, TypeOK
  <2>2. clone(t) = {}
    BY <1>2
  <2>3. after[t] = heap[t]
    <3>1. \A out \in Outputs(at) : New(out) # t
      BY <1>2, <1>3
    <3>2. \A s \in written : slot[s] # t
      BY <1>11
    <3> QED BY <2>1, <3>1, <3>2 DEF Computed
  <2>4. delivered[t] = heap[t]
    <3> HIDE DEF after, clone
    <3> QED BY <2>1, <2>2, <2>3
  <2> HIDE DEF delivered
  <2> QED BY <1>7, <1>11, <2>1, <2>4 DEF Swept
<1> QED BY <1>6, <1>10, <1>11


-----------------------------------------------------------------------------
(* The types *)

LEMMA SweptType ==
    ASSUME NEW h \in [Tensors -> Contents], NEW slots, NEW holds
    PROVE  Swept(h, slots, holds) \in [Tensors -> Contents]
BY DEF Swept, Contents

\* A node leaves tensors in the slots, whatever it returns.
LEMMA RunTyped ==
    ASSUME TypeOK, RunNode
    PROVE  slot' \in [Slots -> Tensors] /\ heap' \in [Tensors -> Contents]
<1>0. at \in Nodes /\ run \in 0 .. MaxRuns /\ \A s \in Consumers(at) : HasFree(s)
  BY DEF RunNode, TypeOK
<1>1. PICK result \in [Outputs(at) -> Returnable(at)], written \in SUBSET NodeInputs(at) :
         LET after == Computed(at, written, result)
             clone(t) == {s \in Consumers(at) : PositionOf[s] > 1 /\ t = Fresh(s)}
             delivered ==
                 [t \in Tensors |->
                    IF clone(t) # {}
                    THEN after[result[SourceOf[CHOOSE s \in clone(t) : TRUE]]]
                    ELSE after[t]]
         IN /\ slot' = [s \in Slots |->
                           IF s \in Consumers(at) THEN DeliveredTo(s, result) ELSE slot[s]]
            /\ heap' = Swept(delivered, slot', held')
  BY DEF RunNode
<1> DEFINE after == Computed(at, written, result)
           clone(t) == {s \in Consumers(at) : PositionOf[s] > 1 /\ t = Fresh(s)}
           delivered == [t \in Tensors |->
                           IF clone(t) # {}
                           THEN after[result[SourceOf[CHOOSE s \in clone(t) : TRUE]]]
                           ELSE after[t]]
<1>2. \A s \in Consumers(at) : SourceOf[s] \in Outputs(at) /\ Fresh(s) \in Tensors
  BY <1>0, SlotKinds, Sources, FreshFacts DEF Consumers, Outputs
<1>3. \A out \in Outputs(at) : New(out) \in Tensors
  BY <1>2, FirstTarget DEF Outputs, Consumers, New
<1>4. \A out \in Outputs(at) : result[out] \in Tensors
  <2>1. Returnable(at) \subseteq Tensors
    BY <1>3 DEF Returnable, NodeInputs, Inputs, TypeOK
  <2> QED BY <2>1
<1>5. slot' \in [Slots -> Tensors]
  BY <1>1, <1>2, <1>4 DEF DeliveredTo, TypeOK
<1>6. after \in [Tensors -> Contents]
  <2>1. Scratch \in Contents /\ Result(at, run) \in Contents
    BY <1>0 DEF Contents, Result
  <2> QED BY <2>1 DEF Computed, TypeOK
<1>7. \A t \in Tensors : clone(t) # {} =>
         result[SourceOf[CHOOSE s \in clone(t) : TRUE]] \in Tensors
  <2> TAKE t \in Tensors
  <2> HAVE clone(t) # {}
  <2>1. (CHOOSE s \in clone(t) : TRUE) \in Consumers(at)
    OBVIOUS
  <2> QED BY <1>2, <1>4, <2>1
<1>8. delivered \in [Tensors -> Contents]
  <2> HIDE DEF after, clone
  <2> QED BY <1>6, <1>7
<1>9. heap' = Swept(delivered, slot', held')
  BY <1>1
<1> HIDE DEF delivered
<1> QED BY <1>5, <1>8, <1>9, SweptType

LEMMA InitTyped == Init => TypeOK
<1> SUFFICES ASSUME Init PROVE TypeOK
  OBVIOUS
<1>1. slot \in [Slots -> Tensors] /\ held \subseteq Tensors
  BY BoundsAssumption DEF Init, Tensors, Places
<1>2. heap \in [Tensors -> Contents]
  BY DEF Init, Contents
<1>3. at \in 1 .. NumNodes + 1 /\ run \in 0 .. MaxRuns /\ writes \in 0 .. MaxWrites
  BY BoundsAssumption DEF Init
<1> QED BY <1>1, <1>2, <1>3 DEF TypeOK

LEMMA StepTyped ==
    ASSUME TypeOK, [Next]_vars
    PROVE  TypeOK'
<1> USE BoundsAssumption
<1>1. ASSUME NEW t \in held, CallerWrites(t) PROVE TypeOK'
  <2>1. Data(writes + 1) \in Contents
    BY <1>1 DEF CallerWrites, TypeOK, Data, Contents
  <2> QED BY <1>1, <2>1 DEF CallerWrites, TypeOK
<1>2. ASSUME NEW t \in held, CallerDrops(t) PROVE TypeOK'
  BY <1>2, SweptType DEF CallerDrops, TypeOK
<1>3. ASSUME NEW inputs \in [External -> held \cup {None}], RunPolicy(inputs) PROVE TypeOK'
  <2>1. \A s \in Slots : Supplied(inputs, s) => inputs[s] \in Tensors
    BY DEF Supplied, TypeOK
  <2>2. slot' \in [Slots -> Tensors]
    BY <1>3, <2>1 DEF RunPolicy, TypeOK
  <2>3. heap' \in [Tensors -> Contents]
    BY <1>3, SweptType DEF RunPolicy, TypeOK
  <2> QED BY <1>3, <2>2, <2>3 DEF RunPolicy, TypeOK
<1>4. CASE RunNode
  <2>1. slot' \in [Slots -> Tensors] /\ heap' \in [Tensors -> Contents]
    BY <1>4, RunTyped
  <2>2. held' \subseteq held \cup {slot'[s] : s \in Finals}
    BY <1>4 DEF RunNode
  <2>3. held' \subseteq Tensors
    BY <2>1, <2>2, SlotKinds DEF TypeOK
  <2>4. at' = at + 1 /\ at \in Nodes /\ UNCHANGED <<run, writes>>
    BY <1>4 DEF RunNode
  <2> QED BY <2>1, <2>3, <2>4 DEF TypeOK, Nodes
<1>5. CASE NodeFails
  BY <1>5 DEF NodeFails, TypeOK
<1>6. ASSUME NEW s \in Inputs, SetInputValue(s) PROVE TypeOK'
  BY <1>6 DEF SetInputValue, TypeOK, Contents
<1>7. CASE Reset
  <2>1. \A s \in Feedback : s \in Slots /\ Fresh(s) \in Tensors
    BY <1>7, FreshFacts, SlotKinds DEF Reset, Feedback
  <2>2. slot' \in [Slots -> Tensors]
    BY <1>7, <2>1 DEF Reset, TypeOK
  <2>3. heap' \in [Tensors -> Contents]
    BY <1>7 DEF Reset, TypeOK, Contents
  <2> QED BY <1>7, <2>2, <2>3 DEF Reset, TypeOK
<1>8. CASE UNCHANGED vars
  BY <1>8 DEF vars, TypeOK
<1> QED BY <1>1, <1>2, <1>3, <1>4, <1>5, <1>6, <1>7, <1>8 DEF Next

-----------------------------------------------------------------------------
(* Who owns the tensors *)

LEMMA InitOwned == Init => SlotsOwned
<1> SUFFICES ASSUME Init PROVE SlotsOwned
  OBVIOUS
<1>1. \A s \in Slots : slot[s] = <<s, 1>>
  BY DEF Init
<1>2. \A t \in held : t[1] \in Lent
  BY DEF Init, Lent
<1> QED BY <1>1, <1>2, SlotKinds DEF SlotsOwned, Slots

LEMMA StepOwned ==
    ASSUME TypeOK, SlotsOwned, "pass_through" \notin Usage, [Next]_vars
    PROVE  SlotsOwned'
<1>1. ASSUME NEW t \in held, CallerWrites(t) \/ CallerDrops(t) PROVE SlotsOwned'
  BY <1>1 DEF CallerWrites, CallerDrops, SlotsOwned
<1>2. ASSUME NEW inputs \in [External -> held \cup {None}], RunPolicy(inputs) PROVE SlotsOwned'
  <2>1. \A s \in Slots : slot'[s] = IF Supplied(inputs, s) THEN inputs[s] ELSE slot[s]
    BY <1>2 DEF RunPolicy
  <2>2. \A s \in Routed : slot'[s] = slot[s]
    BY <2>1, SlotKinds DEF Supplied
  <2>3. \A s \in External : slot'[s] = slot[s] \/ slot'[s] \in held
    BY <2>1, SlotKinds DEF Supplied
  <2>4. held' = held
    BY <1>2 DEF RunPolicy
  <2> QED BY <2>2, <2>3, <2>4 DEF SlotsOwned
<1>3. CASE RunNode
  <2>1. slot' = [s \in Slots |-> IF s \in Consumers(at) THEN Fresh(s) ELSE slot[s]]
    BY <1>3, RunFacts
  <2>2. \A s \in Slots : s \in Consumers(at) => Fresh(s)[1] = s
    BY <1>3, FreshFacts DEF RunNode
  <2>3. \A s \in Routed : slot'[s][1] = s
    BY <2>1, <2>2, SlotKinds DEF SlotsOwned
  <2>4. \A s \in External : slot'[s] = slot[s]
    BY <2>1, SlotKinds DEF Consumers
  <2>5. held' \subseteq held \cup {slot'[s] : s \in Finals}
    BY <1>3 DEF RunNode
  <2>6. \A t \in held' : t[1] \in Lent
    BY <2>3, <2>5, SlotKinds DEF SlotsOwned, Lent
  <2> QED BY <2>3, <2>4, <2>6 DEF SlotsOwned
<1>4. CASE Reset
  <2>1. slot' = [s \in Slots |-> IF s \in Feedback THEN Fresh(s) ELSE slot[s]]
    BY <1>4 DEF Reset
  <2>2. \A s \in Feedback : s \in Routed /\ s \in Slots /\ Fresh(s)[1] = s
    BY <1>4, FreshFacts, SlotKinds DEF Reset, Feedback
  <2>3. \A s \in External : slot'[s] = slot[s]
    BY <2>1, <2>2, SlotKinds
  <2>4. \A s \in Routed : slot'[s][1] = s
    BY <2>1, <2>2, SlotKinds DEF SlotsOwned
  <2>5. held' = held
    BY <1>4 DEF Reset
  <2> QED BY <2>3, <2>4, <2>5 DEF SlotsOwned
<1>5. CASE UNCHANGED <<slot, held>>
  BY <1>5 DEF SlotsOwned
<1> QED
  BY <1>1, <1>2, <1>3, <1>4, <1>5 DEF Next, vars, NodeFails, SetInputValue

\* A tensor allocated for a slot of a connection is neither held by the caller,
\* unless it is a final output, nor in another slot that is no final output.
LEMMA Unshared ==
    ASSUME SlotsOwned, NEW s \in Routed \cap Inputs
    PROVE  /\ slot[s] \notin held
           /\ \A x \in Slots : slot[x] = slot[s] => x = s
<1>1. slot[s][1] = s /\ s \notin Lent /\ s \notin External
  BY SlotKinds DEF SlotsOwned
<1>2. \A x \in External : slot[x][1] # s
  <2> TAKE x \in External
  <2>1. CASE slot[x] = <<x, 1>>
    <3>1. slot[x][1] = x
      BY <2>1
    <3> QED BY <1>1, <3>1
  <2>2. CASE slot[x][1] \in Lent
    BY <1>1, <2>2
  <2> QED BY <2>1, <2>2 DEF SlotsOwned
<1>3. \A x \in Routed : slot[x] = slot[s] => x = s
  BY <1>1 DEF SlotsOwned
<1>4. Slots = Routed \cup External
  BY DEF Slots
<1> QED BY <1>1, <1>2, <1>3, <1>4 DEF SlotsOwned


-----------------------------------------------------------------------------
(* What was delivered in this run stays until it is read *)

\* The steps that change tensors between calls do so when nothing is delivered.
LEMMA BetweenCalls ==
    ASSUME TypeOK, "pass_through" \notin Usage, [Next]_vars
    PROVE  \/ RunNode
           \/ at' \notin Nodes
           \/ at' = 1
           \/ UNCHANGED vars
<1>1. NumNodes + 1 \notin Nodes
  BY BoundsAssumption DEF Nodes
<1> QED
  BY <1>1 DEF Next, CallerWrites, CallerDrops, RunPolicy, NodeFails, SetInputValue, Reset, Idle

\* When a node runs, slot s has what the node gave it or what it had before.
LEMMA RunDelivers ==
    ASSUME TypeOK, SlotsOwned, "pass_through" \notin Usage, RunNode,
           NEW s \in Routed, SourceOf[s][1] < at',
           \/ SourceOf[s][1] = at
           \/ /\ SourceOf[s][1] < at => Content(s) = Result(SourceOf[s][1], run)
              /\ \A x \in NodeInputs(at) : slot[x] # slot[s]
    PROVE  /\ Content(s)' = Result(SourceOf[s][1], run')
           /\ SourceOf[s][1] = at => slot'[s] = Fresh(s) /\ Fresh(s) \notin InUse
           /\ SourceOf[s][1] # at => slot'[s] = slot[s]
<1>0. at' = at + 1 /\ run' = run /\ at \in Nodes /\ SourceOf[s][1] \in Nodes /\ s \in Slots
  BY Sources, SlotKinds DEF RunNode
<1>1. slot' = [x \in Slots |-> IF x \in Consumers(at) THEN Fresh(x) ELSE slot[x]]
  BY RunFacts
<1>2. CASE SourceOf[s][1] = at
  <2>1. s \in Consumers(at)
    BY <1>2 DEF Consumers
  <2>2. heap'[Fresh(s)] = Result(at, run) /\ Fresh(s) \notin InUse
    BY <1>0, <2>1, RunFacts, FreshFacts DEF RunNode
  <2> QED BY <1>0, <1>1, <1>2, <2>1, <2>2 DEF Content
<1>3. CASE SourceOf[s][1] # at
  <2>1. s \notin Consumers(at)
    BY <1>3 DEF Consumers
  <2>2. slot'[s] = slot[s]
    BY <1>0, <1>1, <2>1
  <2>3. SourceOf[s][1] < at
    BY <1>0, <1>3, BoundsAssumption DEF Nodes
  <2>4. slot[s] \in InUse
    BY <1>0 DEF InUse
  <2>5. heap'[slot[s]] = heap[slot[s]]
    BY <1>0, <1>3, <2>2, <2>4, RunFacts
  <2>6. Content(s) = Result(SourceOf[s][1], run)
    BY <1>3, <2>3
  <2> QED BY <1>0, <1>3, <2>2, <2>5, <2>6 DEF Content
<1> QED BY <1>2, <1>3

LEMMA StepForward ==
    ASSUME TypeOK, SlotsOwned, ForwardInv, "pass_through" \notin Usage, [Next]_vars
    PROVE  ForwardInv'
<1>1. CASE RunNode
  <2> SUFFICES ASSUME NEW s \in (Inputs \cap Routed) \ Feedback,
                      Delivered(s)', at' <= s[2]
               PROVE  Content(s)' = Result(SourceOf[s][1], run')
    BY DEF ForwardInv
  <2>1. at' = at + 1 /\ at \in Nodes /\ s[2] \in Nodes /\ s \in Routed /\ SourceOf[s][1] < at'
    BY <1>1, SlotKinds DEF RunNode, Delivered
  <2>2. at < s[2] /\ at <= s[2]
    BY <2>1, BoundsAssumption DEF Nodes
  <2>3. \A x \in NodeInputs(at) : slot[x] # slot[s]
    <3> SUFFICES ASSUME NEW x \in NodeInputs(at), slot[x] = slot[s] PROVE FALSE
      OBVIOUS
    <3>1. x \in Slots /\ x[2] = at
      BY SlotKinds DEF NodeInputs
    <3>2. x = s
      BY <3>1, Unshared
    <3> QED BY <2>1, <2>2, <3>1, <3>2, BoundsAssumption DEF Nodes
  <2>4. SourceOf[s][1] < at => Content(s) = Result(SourceOf[s][1], run)
    BY <2>1, <2>2 DEF ForwardInv, Delivered
  <2> QED BY <1>1, <2>1, <2>3, <2>4, RunDelivers
<1>2. CASE at' \notin Nodes \/ at' = 1
  <2>1. \A s \in Routed : ~Delivered(s)'
    BY <1>2, Sources, BoundsAssumption DEF Delivered, Nodes
  <2> QED BY <2>1 DEF ForwardInv
<1>3. CASE UNCHANGED vars
  BY <1>3 DEF vars, ForwardInv, Delivered, Content
<1> QED BY <1>1, <1>2, <1>3, BetweenCalls

LEMMA StepFinal ==
    ASSUME TypeOK, SlotsOwned, FinalInv, "pass_through" \notin Usage, [Next]_vars
    PROVE  FinalInv'
<1>1. CASE RunNode
  <2> SUFFICES ASSUME NEW s \in Finals, Delivered(s)'
               PROVE  /\ Content(s)' = Result(SourceOf[s][1], run')
                      /\ \A e \in External : slot'[e] # slot'[s]
    BY DEF FinalInv
  <2>1. /\ at \in Nodes /\ s \in Routed /\ s \in Slots /\ SourceOf[s][1] < at'
        /\ SourceOf[s][1] \in Nodes
    BY <1>1, SlotKinds, Sources DEF RunNode, Delivered
  <2>2. SourceOf[s][1] < at => /\ Content(s) = Result(SourceOf[s][1], run)
                               /\ \A e \in External : slot[e] # slot[s]
    BY <2>1 DEF FinalInv, Delivered
  <2>3. ASSUME SourceOf[s][1] < at PROVE \A x \in NodeInputs(at) : slot[x] # slot[s]
    <3> SUFFICES ASSUME NEW x \in NodeInputs(at), slot[x] = slot[s] PROVE FALSE
      OBVIOUS
    <3>1. x \in Inputs /\ x \notin External
      BY <2>2, <2>3 DEF NodeInputs
    <3>2. x \in Routed
      BY <3>1 DEF Inputs, Slots
    <3>3. x = s
      BY <2>1, <3>1, <3>2, Unshared
    <3> QED BY <3>1, <3>3 DEF Inputs
  <2>4. SourceOf[s][1] = at \/ SourceOf[s][1] < at
    BY <1>1, <2>1, BoundsAssumption DEF RunNode, Nodes
  <2>5. /\ Content(s)' = Result(SourceOf[s][1], run')
        /\ SourceOf[s][1] = at => slot'[s] = Fresh(s) /\ Fresh(s) \notin InUse
        /\ SourceOf[s][1] # at => slot'[s] = slot[s]
    BY <1>1, <2>1, <2>2, <2>3, <2>4, RunDelivers
  <2>6. ASSUME NEW e \in External PROVE slot'[e] # slot'[s]
    <3>1. e \in Slots /\ e \notin Consumers(at)
      BY SlotKinds DEF Consumers
    <3>2. slot'[e] = slot[e] /\ slot[e] \in InUse
      BY <1>1, <3>1, RunFacts DEF InUse
    <3> QED BY <2>2, <2>4, <2>5, <3>2
  <2> QED BY <2>5, <2>6
<1>2. CASE at' \notin Nodes \/ at' = 1
  <2>1. \A s \in Finals : ~Delivered(s)'
    BY <1>2, Sources, SlotKinds, BoundsAssumption DEF Delivered, Nodes
  <2> QED BY <2>1 DEF FinalInv
<1>3. CASE UNCHANGED vars
  BY <1>3 DEF vars, FinalInv, Delivered, Content
<1> QED BY <1>1, <1>2, <1>3, BetweenCalls

LEMMA InitInv == Init => IInv
<1> SUFFICES ASSUME Init PROVE IInv
  OBVIOUS
<1>1. at \notin Nodes
  BY BoundsAssumption DEF Init, Nodes
<1>2. ForwardInv /\ FinalInv
  BY <1>1 DEF ForwardInv, FinalInv, Delivered
<1> QED BY <1>2, InitTyped, InitOwned DEF IInv

LEMMA StepInv == ASSUME "pass_through" \notin Usage PROVE IInv /\ [Next]_vars => IInv'
BY StepTyped, StepOwned, StepForward, StepFinal DEF IInv

-----------------------------------------------------------------------------
(* The theorems.  All but the types are of models that return no input.    *)


\* The type of every variable, for every pipeline, model, caller and bound.
THEOREM TypeCorrect == Spec => []TypeOK
<1>1. TypeOK /\ [Next]_vars => TypeOK'
  BY StepTyped
<1> QED BY <1>1, InitTyped, PTL DEF Spec

\* A node reads what its predecessors computed in this run (zero-copy for the
\* first consumer, clones for the others, InferenceManager.run_policy), even if
\* models write into their inputs and the caller into whatever it holds.
THEOREM ForwardAlways == ASSUME "pass_through" \notin Usage PROVE Spec => []ForwardIntact
<1>1. IInv => ForwardIntact
  <2> SUFFICES ASSUME IInv, NEW s \in Inputs \cap Routed, at = s[2], s \notin Feedback
               PROVE  Content(s) = Result(SourceOf[s][1], run)
    BY DEF ForwardIntact
  <2>1. s[2] \in Nodes /\ SourceOf[s][1] \in Nodes
    BY SlotKinds, Sources
  <2>2. SourceOf[s][1] < s[2]
    BY <2>1, BoundsAssumption DEF Feedback, Nodes
  <2> QED BY <2>1, <2>2, BoundsAssumption DEF IInv, ForwardInv, Delivered, Nodes
<1> QED BY <1>1, InitInv, StepInv, PTL DEF Spec

\* run_policy() returns what the models computed in this run.
THEOREM ReturnedAlways == ASSUME "pass_through" \notin Usage PROVE Spec => ReturnedAreResults
<1>1. IInv /\ IInv' /\ [Next]_vars =>
         [RunNode /\ at = NumNodes =>
            \A s \in Finals : heap'[slot'[s]] = Result(SourceOf[s][1], run)]_vars
  <2> SUFFICES ASSUME IInv, RunNode, at = NumNodes, NEW s \in Finals
               PROVE  heap'[slot'[s]] = Result(SourceOf[s][1], run)
    OBVIOUS
  <2>1. /\ at \in Nodes /\ at' = at + 1 /\ run' = run /\ s \in Routed /\ s \in Slots
        /\ SourceOf[s][1] \in Nodes
    BY SlotKinds, Sources DEF RunNode
  <2>2. SourceOf[s][1] < at' /\ (SourceOf[s][1] = at \/ SourceOf[s][1] < at)
    BY <2>1, BoundsAssumption DEF Nodes
  <2>3. SourceOf[s][1] < at => /\ Content(s) = Result(SourceOf[s][1], run)
                               /\ \A e \in External : slot[e] # slot[s]
    BY <2>1 DEF IInv, FinalInv, Delivered
  <2>4. ASSUME SourceOf[s][1] < at, NEW x \in NodeInputs(at), slot[x] = slot[s] PROVE FALSE
    <3>1. x \in Inputs /\ x \notin External
      BY <2>3, <2>4 DEF NodeInputs
    <3>2. x \in Routed
      BY <3>1 DEF Inputs, Slots
    <3>3. x = s
      BY <2>1, <2>4, <3>1, <3>2, Unshared DEF IInv
    <3> QED BY <3>1, <3>3 DEF Inputs
  <2>5. Content(s)' = Result(SourceOf[s][1], run')
    BY <2>1, <2>2, <2>3, <2>4, RunDelivers DEF IInv
  <2> QED BY <2>1, <2>5 DEF Content
<1> QED BY <1>1, InitInv, StepInv, PTL DEF Spec, ReturnedAreResults

\* Feedback state persists across run_policy() calls: nothing the caller does
\* with the tensors it holds reaches the feedback inputs.
THEOREM FeedbackAlways == ASSUME "pass_through" \notin Usage PROVE Spec => FeedbackPersists
<1>1. IInv /\ [Next]_vars =>
         [writes' # writes => \A s \in Feedback : heap'[slot'[s]] = Content(s)]_vars
  <2> SUFFICES ASSUME IInv, Next, writes' # writes, NEW s \in Feedback
               PROVE  heap'[slot'[s]] = Content(s)
    BY DEF vars
  <2>1. PICK t \in held : CallerWrites(t)
    BY DEF Next, CallerDrops, RunPolicy, RunNode, NodeFails, SetInputValue, Reset
  <2>2. slot[s] # t /\ slot[s] \in Tensors
    BY Unshared, SlotKinds DEF Feedback, IInv, TypeOK
  <2> QED BY <2>1, <2>2 DEF CallerWrites, Content, IInv, TypeOK
<1> QED BY <1>1, InitInv, StepInv, PTL DEF Spec, FeedbackPersists

=============================================================================
