------------------------- MODULE ExportPipeline_proofs -------------------------
(***************************************************************************)
(* Proofs about ExportPipeline: its types, that what a deployer would load *)
(* is one export, and what strict validation says of the models it passes. *)
(***************************************************************************)
EXTENDS ExportPipeline, SequenceTheorems, WellFoundedInduction, TLAPS

-----------------------------------------------------------------------------
(* The names that are left of a list, by induction over how much of it was read *)

\* Induction over the numbers up to N, with the set of those that are known.
LEMMA UpTo ==
    ASSUME NEW N \in Nat, NEW T, 0 \in T,
           \A i \in 0 .. N - 1 : i \in T => i + 1 \in T
    PROVE  0 .. N \subseteq T
<1> DEFINE R == {ss \in Nat \X Nat : ss[1] < ss[2]}
           U == (0 .. N) \ T
<1>1. IsWellFoundedOn(R, Nat)
  BY NatLessThanWellFounded DEF OpToRel
<1>2. CASE U # {}
  <2>1. U \subseteq Nat
    OBVIOUS
  <2>2. \E x \in U : \A y \in U : ~ (<<y, x>> \in R)
    <3> HIDE DEF R, U
    <3> QED BY <1>1, <1>2, <2>1, WFMin
  <2>3. PICK x \in U : \A y \in U : <<y, x>> \notin R
    BY <2>2
  <2>4. x # 0 /\ x - 1 \in 0 .. N - 1 /\ x - 1 \notin T
    OBVIOUS
  <2>5. x - 1 \in U /\ <<x - 1, x>> \in R
    BY <2>4
  <2> QED BY <2>3, <2>5
<1> QED BY <1>2

Filtering(F, list, set, n) ==
    F = [i \in 0 .. n |->
            IF i = 0 THEN <<>>
            ELSE IF list[i] \in set THEN Append(F[i-1], list[i]) ELSE F[i-1]]

LEMMA FilteringSteps ==
    ASSUME NEW F, NEW list, NEW set, NEW n \in Nat, Filtering(F, list, set, n)
    PROVE  /\ F[0] = <<>>
           /\ \A i \in 0 .. n - 1 :
                 F[i+1] = IF list[i+1] \in set THEN Append(F[i], list[i+1]) ELSE F[i]
<1> DEFINE H(i) == IF i = 0 THEN <<>>
                   ELSE IF list[i] \in set THEN Append(F[i-1], list[i]) ELSE F[i-1]
<1>1. F = [i \in 0 .. n |-> H(i)]
  BY Zenon DEF Filtering
<1>2. ASSUME NEW i \in 0 .. n PROVE F[i] = H(i)
  <2> HIDE DEF H
  <2> QED BY <1>1
<1>3. F[0] = <<>>
  BY <1>2
<1>4. ASSUME NEW i \in 0 .. n - 1
      PROVE  F[i+1] = IF list[i+1] \in set THEN Append(F[i], list[i+1]) ELSE F[i]
  <2>1. F[i+1] = H(i+1)
    BY <1>2
  <2>2. i + 1 # 0 /\ (i + 1) - 1 = i
    OBVIOUS
  <2> QED BY <2>1, <2>2
<1> QED BY <1>3, <1>4

LEMMA FilteringExists ==
    ASSUME NEW list, NEW set, NEW n \in Nat
    PROVE  \E F : Filtering(F, list, set, n)
<1> DEFINE T == {i \in Nat : \E F : Filtering(F, list, set, i)}
<1>1. 0 \in T
  <2>1. Filtering([i \in 0 .. 0 |-> <<>>], list, set, 0)
    BY DEF Filtering
  <2> QED BY <2>1
<1>2. ASSUME NEW m \in 0 .. n - 1, m \in T PROVE m + 1 \in T
  <2>1. PICK F : Filtering(F, list, set, m)
    BY <1>2
  <2> DEFINE x == IF list[m+1] \in set THEN Append(F[m], list[m+1]) ELSE F[m]
             G == [i \in 0 .. m + 1 |-> IF i = m + 1 THEN x ELSE F[i]]
  <2>2. \A i \in 0 .. m : G[i] = F[i]
    OBVIOUS
  <2>3. \A i \in 0 .. m - 1 :
           F[i+1] = IF list[i+1] \in set THEN Append(F[i], list[i+1]) ELSE F[i]
    BY <2>1, FilteringSteps
  <2>4. F[0] = <<>>
    BY <2>1, FilteringSteps
  <2>5. G[m+1] = x
    OBVIOUS
  <2>6. DOMAIN G = 0 .. m + 1 /\ G = [i \in 0 .. m + 1 |-> G[i]]
    OBVIOUS
  <2> HIDE DEF G
  <2>7. ASSUME NEW i \in 0 .. m + 1
        PROVE  G[i] = IF i = 0 THEN <<>>
                      ELSE IF list[i] \in set THEN Append(G[i-1], list[i]) ELSE G[i-1]
    <3>1. CASE i = 0
      BY <2>2, <2>4, <3>1
    <3>2. CASE i = m + 1
      <4>1. G[i-1] = F[m]
        BY <2>2, <3>2
      <4> QED BY <2>5, <3>2, <4>1
    <3>3. CASE i \in 1 .. m
      <4>1. G[i] = F[i] /\ G[i-1] = F[i-1]
        BY <2>2, <3>3
      <4>2. i - 1 \in 0 .. m - 1 /\ (i - 1) + 1 = i /\ i # 0
        BY <3>3
      <4>3. F[i] = IF list[i] \in set THEN Append(F[i-1], list[i]) ELSE F[i-1]
        BY <2>3, <4>2
      <4> QED BY <4>1, <4>2, <4>3
    <3> QED BY <3>1, <3>2, <3>3
  <2>8. Filtering(G, list, set, m + 1)
    BY <2>6, <2>7 DEF Filtering
  <2> QED BY <2>8
<1> HIDE DEF T
<1>3. 0 .. n \subseteq T
  BY <1>1, <1>2, UpTo
<1> QED BY <1>3 DEF T

LEMMA FilteredDef ==
    ASSUME NEW list, NEW set, Len(list) \in Nat
    PROVE  \E F : Filtering(F, list, set, Len(list)) /\ Filtered(list, set) = F[Len(list)]
<1> DEFINE F == CHOOSE f : Filtering(f, list, set, Len(list))
<1>1. Filtering(F, list, set, Len(list))
  BY FilteringExists
<1>2. Filtered(list, set) = F[Len(list)]
  BY Zenon DEF Filtered, Filtering
<1> QED BY <1>1, <1>2

LEMMA FilteredFacts ==
    ASSUME NEW S, NEW list \in Seq(S), NEW set
    PROVE  /\ Filtered(list, set) \in Seq(S)
           /\ ToSet(Filtered(list, set)) = {list[i] : i \in DOMAIN list} \cap set
<1> DEFINE N == Len(list)
<1>0. N \in Nat /\ DOMAIN list = 1 .. N
  OBVIOUS
<1>1. PICK F : Filtering(F, list, set, N) /\ Filtered(list, set) = F[N]
  BY FilteredDef
<1> DEFINE First(i) == {list[j] : j \in 1 .. i}
           T == {i \in 0 .. N : F[i] \in Seq(S) /\ ToSet(F[i]) = First(i) \cap set}
<1>2. 0 \in T
  <2>1. F[0] = <<>>
    BY <1>0, <1>1, FilteringSteps
  <2>2. ToSet(<<>>) = {} /\ First(0) = {}
    BY DEF ToSet
  <2>3. F[0] \in Seq(S) /\ ToSet(F[0]) = First(0) \cap set
    <3>1. <<>> \in Seq(S)
      OBVIOUS
    <3> QED BY Zenon, <2>1, <2>2, <3>1
  <2> QED BY <1>0, <2>3
<1>3. ASSUME NEW m \in 0 .. N - 1, m \in T PROVE m + 1 \in T
  <2> DEFINE a == list[m + 1]
             f == F[m]
  <2>1. F[m + 1] = IF a \in set THEN Append(f, a) ELSE f
    BY <1>0, <1>1, FilteringSteps
  <2>2. First(m + 1) = First(m) \cup {a}
    <3>1. 1 .. m + 1 = (1 .. m) \cup {m + 1}
      OBVIOUS
    <3> QED BY <3>1
  <2>3. a \in S /\ f \in Seq(S) /\ ToSet(f) = First(m) \cap set
    BY <1>3
  <2>4. m + 1 \in 0 .. N
    BY <1>0
  <2>5. ToSet(Append(f, a)) = ToSet(f) \cup {a} /\ Append(f, a) \in Seq(S)
    <3> HIDE DEF f, a
    <3>1. DOMAIN Append(f, a) = DOMAIN f \cup {Len(f) + 1}
      BY <2>3
    <3>2. \A j \in DOMAIN f : Append(f, a)[j] = f[j]
      BY <2>3
    <3>3. Append(f, a)[Len(f) + 1] = a
      BY <2>3
    <3> QED BY <2>3, <3>1, <3>2, <3>3 DEF ToSet
  <2> HIDE DEF a, f, First
  <2>6. F[m + 1] \in Seq(S)
    BY <2>1, <2>3, <2>5
  <2>7. ToSet(F[m + 1]) = First(m + 1) \cap set
    <3>1. CASE a \in set
      BY <2>1, <2>2, <2>3, <2>5, <3>1
    <3>2. CASE a \notin set
      BY <2>1, <2>2, <2>3, <3>2
    <3> QED BY <3>1, <3>2
  <2> QED BY <2>4, <2>6, <2>7
<1>4. N \in T
  <2> HIDE DEF T, N
  <2>1. 0 .. N \subseteq T
    BY <1>0, <1>2, <1>3, UpTo
  <2> QED BY <1>0, <2>1
<1> QED BY <1>0, <1>1, <1>4

LEMMA FilteredTwice ==
    ASSUME NEW S, NEW list \in Seq(S), NEW set
    PROVE  Filtered(list, ToSet(Filtered(list, set))) = Filtered(list, set)
<1> DEFINE N == Len(list)
           kept == ToSet(Filtered(list, set))
<1>0. N \in Nat
  OBVIOUS
<1>1. PICK F : Filtering(F, list, set, N) /\ Filtered(list, set) = F[N]
  BY FilteredDef
<1>2. PICK G : Filtering(G, list, kept, N) /\ Filtered(list, kept) = G[N]
  BY FilteredDef
<1>3. \A i \in 1 .. N : list[i] \in kept <=> list[i] \in set
  BY FilteredFacts
<1> HIDE DEF kept
<1> DEFINE T == {i \in 0 .. N : G[i] = F[i]}
<1>4. 0 \in T
  BY <1>1, <1>2, FilteringSteps
<1>5. ASSUME NEW m \in 0 .. N - 1, m \in T PROVE m + 1 \in T
  <2>1. F[m + 1] = IF list[m + 1] \in set THEN Append(F[m], list[m + 1]) ELSE F[m]
    BY <1>1, FilteringSteps
  <2>2. G[m + 1] = IF list[m + 1] \in kept THEN Append(G[m], list[m + 1]) ELSE G[m]
    BY <1>2, FilteringSteps
  <2> QED BY <1>3, <1>5, <2>1, <2>2
<1>6. N \in T
  <2> HIDE DEF T, N
  <2>1. 0 .. N \subseteq T
    BY <1>0, <1>4, <1>5, UpTo
  <2> QED BY <1>0, <2>1
<1> QED BY <1>1, <1>2, <1>6 DEF kept

-----------------------------------------------------------------------------
(* What one step computes *)

LEMMA WithNamed ==
    ASSUME NEW x \in Named, NEW s \in {"plain", "in", "out"}
    PROVE  With(x, s) \in Named
BY DEF With, Named

LEMMA RenamedNames ==
    ASSUME NEW list \in Seq(Named), NEW which, NEW s \in {"plain", "in", "out"}
    PROVE  Renamed(list, which, s) \in Seq(Named) /\ Len(Renamed(list, which, s)) = Len(list)
<1> DEFINE r == Renamed(list, which, s)
           N == Len(list)
<1>0. N \in Nat /\ DOMAIN list = 1 .. N
  OBVIOUS
<1>9. \A i \in 1 .. N : list[i] \in Named
  OBVIOUS
<1>1. \A i \in 1 .. N : With(list[i], s) \in Named
  BY <1>9, WithNamed
<1>2. r = [i \in 1 .. N |-> IF list[i] \in which THEN With(list[i], s) ELSE list[i]]
  BY <1>0 DEF Renamed
<1>3. \A i \in 1 .. N : r[i] \in Named
  BY <1>1, <1>2, <1>9
<1>4. r \in [1 .. N -> Named]
  BY <1>2, <1>3
<1>5. r \in Seq(Named)
  BY <1>0, <1>4, SeqDef
<1>6. Len(r) = N
  BY <1>0, <1>2, <1>5
<1> QED BY <1>5, <1>6

LEMMA PassesRepeats ==
    ASSUME NEW k \in NodeKinds, k.model = "parity" => k.samples % 2 = 0, Passes(k)
    PROVE  Repeats(k)
<1> DEFINE n == k.samples
<1>0. n \in Nat /\ k.model \in {"exact", "constant", "declared", "counter", "parity"}
  BY DEF NodeKinds
<1>1. CASE k.model = "exact"
  BY <1>0, <1>1 DEF Repeats, Answers
<1>2. CASE k.model = "constant"
  BY <1>0, <1>2 DEF Passes, Repeats, Answers
<1>3. CASE k.model = "declared"
  BY <1>0, <1>3 DEF Passes, Repeats, Answers
<1>4. CASE k.model = "counter"
  BY <1>0, <1>4 DEF Passes, Repeats, Answers
<1>5. CASE k.model = "parity"
  <2>1. 0 % 2 = (n + 1) % 2
    BY <1>5 DEF Passes, Answers
  <2>2. n % 2 = 0
    BY <1>5
  <2> HIDE DEF n
  <2> QED BY <1>0, <2>1, <2>2
<1> QED BY <1>0, <1>1, <1>2, <1>3, <1>4, <1>5

-----------------------------------------------------------------------------
(* The inductive invariant *)

\* A node is of one of the kinds, or a placeholder for one in a dry run.
KindInv == \A n \in Nodes : \E k \in Kinds :
              kind[n] \in {k, [k EXCEPT !.backend = "none", !.own = <<>>]}

DryInv == dry => \A n \in Nodes : kind[n].backend = "none" /\ kind[n].own = <<>>

\* The files of the user's are never written.
OwnInv == \A f \in Files : f[1] = "own" => disk[f] = Content(0, f[2], <<>>)

\* Where a call is, and what it has not yet said.
PlaceInv ==
    /\ phase \notin {"compile", "save", "validate"} => at = 1
    /\ phase # "validate" => passed = {}
    /\ phase # "idle" => outcome = "none" /\ session > 0
    /\ dry => phase \notin {"compile", "initial", "save", "validate"}

\* Node n was compiled in this call, under the names it has now.
Made(n) ==
    /\ kind[n].backend # "none" => model[n] = Content(session, n, names[n].inputs)
    /\ TypeOfModel(n) # "none" => model[n] # Nothing

MadeInv ==
    /\ phase = "compile" => \A n \in Nodes : n < at => Made(n)
    /\ phase \in {"graph", "initial", "save", "describe", "dump"} => \A n \in Nodes : Made(n)

\* Node n was saved in this call.
Stored(n) == saved[n] = [file |-> SavedFile(n), sha |-> SavedContent(n)]

StoredInv ==
    /\ phase = "save" => \A n \in Nodes : n < at => Stored(n)
    /\ phase \in {"describe", "dump"} /\ ~dry => \A n \in Nodes : Stored(n)

\* What the YAML says of node n, if a loader gets as far as its file.
OneExport(e, s, n) ==
    e.backend \in Types =>
        /\ e.backend = "onnx" /\ e.file # NoFile => e.sha # Nothing
        /\ e.sha.trace[1] # 0 => e.sha.trace = <<s, n>> /\ e.sha.inputs = e.io.inputs

YamlInv == yaml.status = "complete" =>
               \A n \in Nodes : OneExport(yaml.nodes[n], yaml.session, n)

CheckedInv ==
    phase = "validate" =>
        /\ yaml.status = "complete" /\ yaml.session = session
        /\ \A n \in Nodes : yaml.nodes[n].backend = TypeOfModel(n)
        /\ \A n \in Nodes : n >= at /\ TypeOfModel(n) # "none" => model[n] # Nothing
        /\ \A n \in passed : TypeOfModel(n) = "none" \/ Repeats(kind[n])

Core == TypeOK /\ KindInv /\ DryInv /\ OwnInv /\ PlaceInv /\ MadeInv /\ StoredInv


-----------------------------------------------------------------------------
(* What one step computes, of states with their types *)

LEMMA SeparatedType ==
    ASSUME TypeOK, NEW n \in Nodes
    PROVE  /\ Separated(n) \in IO
           /\ Len(Separated(n).outputs) = Len(names[n].outputs)
<1>1. names[n].inputs \in Seq(Named) /\ names[n].outputs \in Seq(Named)
  BY DEF TypeOK, IO
<1>2. /\ Renamed(names[n].inputs, Separable(n), "in") \in Seq(Named)
      /\ Renamed(names[n].outputs, Separable(n), "out") \in Seq(Named)
      /\ Len(Renamed(names[n].outputs, Separable(n), "out")) = Len(names[n].outputs)
  BY <1>1, RenamedNames
<1> QED BY <1>2 DEF Separated, IO

\* The node keeps just the inputs the ONNX program takes.
LEMMA SyncedType ==
    ASSUME NEW n, NEW io \in IO
    PROVE  /\ Synced(n, io) \in IO
           /\ Synced(n, io).outputs = io.outputs
           /\ Synced(n, io).inputs = Taken(n, io)
<1> DEFINE kept == {x \in Named : With(x, "plain") \notin kind[n].drops}
<1>1. io.inputs \in Seq(Named)
  BY DEF IO
<1>2. Taken(n, io) = Filtered(io.inputs, kept)
  BY DEF Taken
<1>3. /\ Filtered(io.inputs, ToSet(Taken(n, io))) = Taken(n, io)
      /\ Taken(n, io) \in Seq(Named)
  <2> HIDE DEF kept
  <2> QED BY <1>1, <1>2, FilteredFacts, FilteredTwice
<1>4. Synced(n, io) = [io EXCEPT !.inputs = Taken(n, io)]
  BY <1>3 DEF Synced
<1> QED BY <1>3, <1>4 DEF IO

LEMMA ContentType ==
    ASSUME NEW s \in Int, NEW n \in Int, NEW inputs \in Seq(Named)
    PROVE  /\ Content(s, n, inputs) \in Contents
           /\ Content(s, n, inputs).trace = <<s, n>>
           /\ Content(s, n, inputs).inputs = inputs
BY DEF Content, Contents

LEMMA NothingType ==
    /\ Nothing \in Contents /\ Nothing.trace[1] = 0
    /\ Unopened \in Contents /\ Unopened # Nothing
<1>1. <<>> \in Seq(Named)
  OBVIOUS
<1>2. /\ Nothing \in Contents /\ Nothing.trace = <<0, 0>>
      /\ Unopened \in Contents /\ Unopened.trace = <<-1, 0>>
  <2>1. 0 \in Int /\ -1 \in Int
    OBVIOUS
  <2> QED BY Zenon, <1>1, <2>1, ContentType DEF Nothing, Unopened
<1>3. <<0, 0>>[1] = 0 /\ <<-1, 0>>[1] = -1
  OBVIOUS
<1>4. Nothing.trace[1] = 0 /\ Unopened.trace[1] = -1
  BY Zenon, <1>2, <1>3
<1> QED BY <1>2, <1>4

\* The files are those of the directory and of the user.
LEMMA PathType ==
    ASSUME TypeOK, NEW n \in Nodes, kind[n].own # <<>>, NEW dir \in {"out", "own"}
    PROVE  /\ Path(dir, n) \in Files
           /\ Path(dir, n)[1] = dir
           /\ Path(dir, n)[2] = kind[n].own[1]
           /\ kind[n].own[2] \in Types
<1>1. kind[n].own \in Stems \X Types
  BY DEF TypeOK, NodeKinds
<1>2. kind[n].own[1] \in Stems /\ kind[n].own[2] \in Types
  BY <1>1
<1> QED BY <1>2 DEF Path, Files

LEMMA OwnContentIs ==
    ASSUME TypeOK, OwnInv, NEW n \in Nodes, kind[n].own # <<>>
    PROVE  /\ OwnContent(n) \in Contents
           /\ OwnContent(n).trace[1] = 0
           /\ kind[n].own[1] # 0 => OwnContent(n) # Nothing
<1>1. /\ OwnFile(n) \in Files /\ OwnFile(n)[1] = "own"
      /\ OwnFile(n)[2] = kind[n].own[1]
  BY PathType DEF OwnFile
<1>2. OwnContent(n) \in Contents /\ OwnContent(n) = Content(0, kind[n].own[1], <<>>)
  BY <1>1 DEF OwnInv, TypeOK, OwnContent
<1>3. kind[n].own[1] \in Int
  BY DEF TypeOK, NodeKinds, Stems
<1>4. <<>> \in Seq(Named)
  OBVIOUS
<1>5. /\ OwnContent(n).trace = <<0, kind[n].own[1]>>
      /\ Nothing.trace = <<0, 0>>
  <2>1. 0 \in Int
    OBVIOUS
  <2>2. Nothing.trace = <<0, 0>>
    BY Zenon, <1>4, <2>1, ContentType DEF Nothing
  <2>3. Content(0, kind[n].own[1], <<>>).trace = <<0, kind[n].own[1]>>
    BY Zenon, <1>3, <1>4, <2>1, ContentType
  <2> QED BY Zenon, <1>2, <2>2, <2>3
<1> QED BY <1>2, <1>5

\* A compilation gives the node a model that takes the inputs it now has.
LEMMA CompiledFacts ==
    ASSUME TypeOK, OwnInv, NEW n \in Nodes, session > 0,
           NEW c, c = Compiled(n), c.ok
    PROVE  /\ c.names \in IO /\ Len(c.names.outputs) = Len(names[n].outputs)
           /\ c.model \in Contents
           /\ kind[n].backend # "none" => c.model = Content(session, n, c.names.inputs)
           /\ TypeOfModel(n) # "none" => c.model # Nothing
<1>0. /\ names[n] \in IO /\ model[n] \in Contents /\ session \in Int /\ n \in Int
      /\ names[n].inputs \in Seq(Named)
      /\ kind[n].backend \in Types \cup {"none"}
  <2>1. n \in Int
    BY ExportAssumption DEF Nodes
  <2>2. session \in Int /\ names[n] \in IO /\ model[n] \in Contents
    BY DEF TypeOK
  <2>3. kind[n].backend \in Types \cup {"none"}
    BY DEF TypeOK, NodeKinds
  <2> QED BY <2>1, <2>2, <2>3 DEF IO
<1>1. ASSUME NEW inputs \in Seq(Named)
      PROVE  Content(session, n, inputs) \in Contents /\ Content(session, n, inputs) # Nothing
  <2>1. /\ Content(session, n, inputs) \in Contents
        /\ Content(session, n, inputs).trace = <<session, n>>
    BY <1>0, ContentType
  <2>2. Content(session, n, inputs).trace[1] = session
    BY <2>1
  <2> QED BY <2>1, <2>2, NothingType
<1>2. CASE kind[n].backend = "onnx"
  <2> DEFINE io == Separated(n)
  <2>1. c = Compilation(TRUE, Synced(n, io), Content(session, n, Taken(n, io)))
    BY <1>2 DEF Compiled, CompiledOnnx, Compilation
  <2>2. c.names = Synced(n, io) /\ c.model = Content(session, n, Taken(n, io))
    BY <2>1 DEF Compilation
  <2>3. /\ io \in IO /\ Len(io.outputs) = Len(names[n].outputs)
        /\ Synced(n, io) \in IO /\ Synced(n, io).outputs = io.outputs
        /\ Synced(n, io).inputs = Taken(n, io)
    BY SeparatedType, SyncedType
  <2>4. Taken(n, io) \in Seq(Named)
    BY <2>3 DEF IO
  <2> HIDE DEF io
  <2> QED BY <1>1, <2>2, <2>3, <2>4
<1>3. CASE kind[n].backend \notin {"onnx", "none"}
  <2>1. c = CompiledTorch(n)
    BY <1>3 DEF Compiled
  <2>2. c.names = names[n] /\ c.model = Content(session, n, names[n].inputs)
    BY <2>1 DEF CompiledTorch, Compilation
  <2> QED BY <1>0, <1>1, <2>2
<1>4. CASE kind[n].backend = "none"
  <2>1. c = CompiledNone(n)
    BY <1>4 DEF Compiled
  <2>2. CASE kind[n].own = <<>>
    <3>1. c.names = names[n] /\ c.model = model[n] /\ TypeOfModel(n) = "none"
      BY <1>4, <2>1, <2>2 DEF CompiledNone, Compilation, TypeOfModel
    <3> QED BY <1>0, <1>4, <3>1
  <2>3. CASE kind[n].own # <<>>
    <3>1. kind[n].own[2] \in Types /\ OwnContent(n) \in Contents
      BY <2>3, PathType, OwnContentIs
    <3>2. c.names = names[n]
      BY <2>1, <2>3, <3>1 DEF CompiledNone, Compilation, Types
    <3>3. c.model = IF kind[n].own[2] = "onnx" /\ OwnContent(n) = Nothing
                    THEN Unopened ELSE OwnContent(n)
      BY <2>1, <2>3, <3>1 DEF CompiledNone, Compilation, Types
    <3>4. kind[n].own[2] # "onnx" => OwnContent(n) # Nothing
      <4>1. CASE kind[n].own[2] = "jit"
        <5>1. c = Compilation(OwnContent(n) # Nothing, names[n], OwnContent(n))
          BY <2>1, <2>3, <4>1 DEF CompiledNone
        <5>2. CASE OwnContent(n) = Nothing
          <6>1. c = Compilation(FALSE, names[n], OwnContent(n))
            BY <5>1, <5>2
          <6> QED BY <6>1 DEF Compilation
        <5> QED BY <5>2
      <4>2. CASE kind[n].own[2] = "pt2"
        <5>1. c = Compilation(FALSE, names[n], model[n])
          BY <2>1, <2>3, <4>2 DEF CompiledNone
        <5> QED BY <5>1 DEF Compilation
      <4> QED BY <3>1, <4>1, <4>2 DEF Types
    <3>5. c.model \in Contents /\ c.model # Nothing
      BY <3>1, <3>3, <3>4, NothingType
    <3> QED BY <1>0, <1>4, <3>2, <3>5
  <2> QED BY <2>2, <2>3
<1> QED BY <1>0, <1>2, <1>3, <1>4

\* A node that does not compile may have been renamed in part.
LEMMA CompiledNames ==
    ASSUME TypeOK, NEW n \in Nodes
    PROVE  /\ Compiled(n).names \in IO
           /\ Len(Compiled(n).names.outputs) = Len(names[n].outputs)
<1>1. Compiled(n).names \in {names[n], Separated(n), Synced(n, Separated(n))}
  <2>1. CASE kind[n].backend = "onnx"
    BY <2>1 DEF Compiled, CompiledOnnx, Compilation
  <2>2. CASE kind[n].backend = "none"
    <3>1. Compiled(n) = CompiledNone(n)
      BY <2>2 DEF Compiled
    <3>2. CASE kind[n].own = <<>>
      BY <3>1, <3>2 DEF CompiledNone, Compilation
    <3>3. CASE kind[n].own # <<>>
      <4>1. kind[n].own[2] \in {"onnx", "jit", "pt2"}
        BY <3>3, PathType DEF Types
      <4> QED BY <3>1, <3>3, <4>1 DEF CompiledNone, Compilation
    <3> QED BY <3>2, <3>3
  <2>3. CASE kind[n].backend \notin {"onnx", "none"}
    BY <2>3 DEF Compiled, CompiledTorch, Compilation
  <2> QED BY <2>1, <2>2, <2>3
<1>2. names[n] \in IO
  BY DEF TypeOK
<1> QED BY <1>1, <1>2, SeparatedType, SyncedType

\* Saving a node writes into the directory.
LEMMA SavingFacts ==
    ASSUME TypeOK, OwnInv, NEW n \in Nodes
    PROVE  /\ SavedFile(n) \in Paths
           /\ SavedContent(n) \in Contents
           /\ SavedFile(n)[1] = "out" => SavedFile(n) \in Files
           /\ Written(n) \in [Files -> Contents]
           /\ \A f \in Files : f[1] = "own" => Written(n)[f] = disk[f]
<1>0. /\ model[n] \in Contents /\ disk \in [Files -> Contents]
      /\ kind[n].backend \in Types \cup {"none"}
  BY DEF TypeOK, NodeKinds
<1>1. kind[n].backend # "none" => Artifact(n) \in Files /\ Artifact(n)[1] = "out"
  BY <1>0, ExportAssumption DEF Artifact, Files, Stems, Nodes
<1>2. kind[n].own # <<>> =>
         /\ OwnContent(n) \in Contents
         /\ Path("out", n) \in Files /\ Path("out", n)[1] = "out"
         /\ OwnFile(n) \in Files /\ OwnFile(n)[1] = "own"
  BY PathType, OwnContentIs DEF OwnFile
<1>3. NoFile[1] = "none"
  BY DEF NoFile
<1>4. SavedContent(n) \in Contents
  BY <1>0, <1>2, NothingType DEF SavedContent
<1>5. /\ SavedFile(n) \in Paths
      /\ SavedFile(n)[1] = "out" => SavedFile(n) \in Files
  BY <1>1, <1>2, <1>3 DEF SavedFile, Paths
<1>6. Written(n) \in [Files -> Contents]
  BY <1>0, <1>4, <1>5 DEF Written
<1>7. \A f \in Files : f[1] = "own" => Written(n)[f] = disk[f]
  BY <1>0, <1>5 DEF Written
<1> QED BY <1>4, <1>5, <1>6, <1>7


-----------------------------------------------------------------------------
(* The types *)

LEMMA Bounds == MaxSessions \in Nat /\ MaxCalls \in Nat /\ MaxFaults \in Nat
BY ExportAssumption

LEMMA NodesAre == /\ 1 \in Nodes /\ NumNodes \in Nodes
                  /\ \A n \in Nodes : n \in Nat /\ n > 0 /\ n <= NumNodes
                                      /\ (n < NumNodes => n + 1 \in Nodes)
BY ExportAssumption DEF Nodes

\* A node as a session makes it, and the names it declares.
LEMMA TracedKind ==
    ASSUME NEW k \in [Nodes -> Kinds], NEW d \in BOOLEAN, Trace(k, d), NEW n \in Nodes
    PROVE  /\ kind'[n] = IF d THEN [k[n] EXCEPT !.backend = "none", !.own = <<>>] ELSE k[n]
           /\ kind'[n] \in NodeKinds
           /\ names'[n] \in IO
           /\ Len(names'[n].outputs) = Len(kind'[n].outputs)
<1>1. k[n] \in NodeKinds
  BY ExportAssumption
<1>2. kind'[n] = IF d THEN [k[n] EXCEPT !.backend = "none", !.own = <<>>] ELSE k[n]
  BY DEF Trace
<1>3. kind'[n] \in NodeKinds /\ kind'[n].outputs = k[n].outputs
  <2> DEFINE r == [k[n] EXCEPT !.backend = "none", !.own = <<>>]
  <2>1. r \in NodeKinds /\ r.outputs = k[n].outputs
    BY <1>1 DEF NodeKinds
  <2>2. kind'[n] = IF d THEN r ELSE k[n]
    BY Zenon, <1>2
  <2> HIDE DEF r
  <2>3. CASE d
    BY Zenon, <2>1, <2>2, <2>3
  <2>4. CASE ~d
    BY Zenon, <1>1, <2>2, <2>4
  <2> QED BY <2>3, <2>4
<1>4. /\ names'[n] = [inputs |-> k[n].inputs, outputs |-> k[n].outputs]
  BY DEF Trace, Declared
<1> QED BY <1>1, <1>2, <1>3, <1>4 DEF NodeKinds, IO

LEMMA InitTyped == Init => TypeOK
<1> SUFFICES ASSUME Init PROVE TypeOK
  OBVIOUS
<1>1. (CHOOSE k \in Kinds : TRUE) \in NodeKinds
  BY ExportAssumption
<1>2. /\ kind \in [Nodes -> NodeKinds] /\ names = Declared(kind)
  BY <1>1 DEF Init
<1>3. \A n \in Nodes : /\ names[n] = [inputs |-> kind[n].inputs, outputs |-> kind[n].outputs]
                       /\ names[n] \in IO
  BY <1>2 DEF Declared, NodeKinds, IO
<1>4. names \in [Nodes -> IO] /\ pipeline \in [Nodes -> IO]
  <2>1. names = [n \in Nodes |-> names[n]] /\ pipeline = names
    BY <1>2 DEF Init, Declared
  <2> QED BY <1>3, <2>1
<1>5. \A n \in Nodes : Len(names[n].outputs) = Len(kind[n].outputs)
  <2>1. ASSUME NEW n \in Nodes PROVE names[n].outputs = kind[n].outputs
    <3>1. names[n] = [inputs |-> kind[n].inputs, outputs |-> kind[n].outputs]
      BY Zenon, <1>3
    <3> QED BY <3>1
  <2> QED BY Zenon, <2>1
<1>6. NoFile \in Paths /\ Nothing \in Contents
  BY NothingType DEF Paths
<1>7. model \in [Nodes -> Contents] /\ saved \in [Nodes -> [file : Paths, sha : Contents]]
  BY <1>6 DEF Init, NoModels, Unsaved
<1>8. disk \in [Files -> Contents]
  <2>1. \A f \in Files : f[2] \in Int
    BY ExportAssumption DEF Files, Stems
  <2>2. <<>> \in Seq(Named) /\ 0 \in Int
    OBVIOUS
  <2>3. \A f \in Files : Content(0, f[2], <<>>) \in Contents
    BY Zenon, <2>1, <2>2, ContentType
  <2> QED BY <1>6, <2>3 DEF Init
<1>9. /\ session \in 0 .. MaxSessions /\ calls \in 0 .. MaxCalls
      /\ faults \in 0 .. MaxFaults /\ initial \in 0 .. session
      /\ phase \in Phases /\ at \in Nodes /\ mode \in Modes /\ passed \subseteq Nodes
      /\ outcome \in Outcomes /\ yaml = NoYaml
  BY Bounds, NodesAre DEF Init, Phases, Modes, Outcomes
<1>10. dry \in BOOLEAN
  BY Zenon DEF Init
<1> QED BY <1>2, <1>4, <1>5, <1>7, <1>8, <1>9, <1>10 DEF TypeOK

\* The parts of a state with its types that most steps leave alone.
Progress ==
    /\ phase \in Phases /\ at \in Nodes /\ mode \in Modes /\ passed \subseteq Nodes
    /\ outcome \in Outcomes
Counts ==
    /\ session \in 0 .. MaxSessions /\ calls \in 0 .. MaxCalls
    /\ faults \in 0 .. MaxFaults /\ initial \in 0 .. session
    /\ dry \in BOOLEAN
Traced ==
    /\ kind \in [Nodes -> NodeKinds] /\ names \in [Nodes -> IO]
    /\ \A n \in Nodes : Len(names[n].outputs) = Len(kind[n].outputs)
Exported ==
    /\ pipeline \in [Nodes -> IO] /\ model \in [Nodes -> Contents]
    /\ saved \in [Nodes -> [file : Paths, sha : Contents]]
    /\ disk \in [Files -> Contents]
YamlTyped ==
    \/ yaml \in {NoYaml, [NoYaml EXCEPT !.status = "partial"]}
    \/ yaml \in [status : {"complete"}, session : 1 .. session,
                 nodes : [Nodes -> Entries], pipeline : [Nodes -> IO]]

LEMMA TypeParts == TypeOK <=> Progress /\ Counts /\ Traced /\ Exported /\ YamlTyped
BY DEF TypeOK, Progress, Counts, Traced, Exported, YamlTyped

LEMMA EndsTyped == ASSUME NEW how \in Outcomes, Ends(how) PROVE Progress'
BY NodesAre DEF Ends, Progress, Phases, Modes

LEMMA OnwardTyped ==
    ASSUME Progress, NEW next \in Phases, Onward(next), UNCHANGED <<mode, passed, outcome>>
    PROVE  Progress'
BY NodesAre DEF Onward, Progress

LEMMA StepProgress ==
    ASSUME TypeOK, [Next]_vars
    PROVE  Progress'
<1>0. Progress
  BY TypeParts
<1>1. "raised" \in Outcomes /\ "returned" \in Outcomes /\ "validated" \in Outcomes /\ "none" \in Outcomes
  BY DEF Outcomes
<1>2. ASSUME NEW k, NEW d, Trace(k, d) PROVE Progress'
  BY <1>0, <1>1, <1>2 DEF Trace, Progress
<1>3. ASSUME NEW m \in Modes, CompileGraph(m) PROVE Progress'
  BY <1>0, <1>1, <1>3, NodesAre DEF CompileGraph, Progress, Phases
<1>4. CASE CompileNode
  BY <1>0, <1>1, <1>4, EndsTyped, OnwardTyped DEF CompileNode, Raised, Phases
<1>5. CASE BuildGraph \/ SaveInitialValues \/ OpenYaml
  BY <1>0, <1>5 DEF BuildGraph, SaveInitialValues, OpenYaml, Progress, Phases
<1>6. CASE SaveNode
  BY <1>0, <1>6, OnwardTyped DEF SaveNode, Phases
<1>7. CASE DumpYaml
  BY <1>0, <1>1, <1>7, EndsTyped DEF DumpYaml, Progress, Phases
<1>8. CASE ValidateNode
  <2>1. CASE at < NumNodes
    BY <1>0, <1>8, <2>1, NodesAre DEF ValidateNode, Progress
  <2>2. CASE ~(at < NumNodes)
    BY <1>1, <1>8, <2>2, EndsTyped DEF ValidateNode
  <2> QED BY <2>1, <2>2
<1>9. CASE Fault
  BY <1>1, <1>9, EndsTyped DEF Fault, Raised
<1>10. CASE UNCHANGED vars
  BY <1>0, <1>10 DEF vars, Progress
<1> QED
  BY <1>2, <1>3, <1>4, <1>5, <1>6, <1>7, <1>8, <1>9, <1>10 DEF Next, Step

LEMMA StepCounts ==
    ASSUME TypeOK, [Next]_vars
    PROVE  Counts'
<1>0. Counts
  BY TypeParts
<1>2. ASSUME NEW k, NEW d \in BOOLEAN, Trace(k, d) PROVE Counts'
  <2>1. dry' \in BOOLEAN
    BY Zenon, <1>2 DEF Trace
  <2>2. /\ session' = session + 1 /\ session < MaxSessions
        /\ calls' = 0 /\ faults' = faults /\ initial' = initial
    BY <1>2 DEF Trace
  <2>3. /\ session \in 0 .. MaxSessions /\ faults \in 0 .. MaxFaults
        /\ initial \in 0 .. session
    BY <1>0 DEF Counts
  <2>4. /\ session' \in 0 .. MaxSessions /\ calls' \in 0 .. MaxCalls
        /\ faults' \in 0 .. MaxFaults /\ initial' \in 0 .. session'
    BY <2>2, <2>3, Bounds
  <2> QED BY Zenon, <2>1, <2>4 DEF Counts
<1>3. ASSUME NEW m \in Modes, CompileGraph(m) PROVE Counts'
  BY <1>0, <1>3, Bounds DEF CompileGraph, Counts
<1>4. CASE CompileNode \/ BuildGraph \/ OpenYaml \/ SaveNode \/ DumpYaml \/ ValidateNode
  BY <1>0, <1>4 DEF CompileNode, BuildGraph, OpenYaml, SaveNode, DumpYaml, ValidateNode, Counts
<1>5. CASE SaveInitialValues
  BY <1>0, <1>5 DEF SaveInitialValues, Counts
<1>6. CASE Fault
  BY <1>0, <1>6, Bounds DEF Fault, Counts
<1>7. CASE UNCHANGED vars
  BY <1>0, <1>7 DEF vars, Counts
<1> QED
  BY <1>2, <1>3, <1>4, <1>5, <1>6, <1>7 DEF Next, Step

\* A failed export leaves a node with the names it gave the exporter, or with
\* those the program takes.
LEMMA FaultNames ==
    ASSUME TypeOK, Fault
    PROVE  /\ names' \in [Nodes -> IO]
           /\ \A n \in Nodes : Len(names'[n].outputs) = Len(names[n].outputs)
<1>1. CASE UNCHANGED names
  BY <1>1 DEF TypeOK
<1>2. CASE \E io \in {Separated(at), Synced(at, Separated(at))} : names' = [names EXCEPT ![at] = io]
  <2>1. PICK io \in {Separated(at), Synced(at, Separated(at))} : names' = [names EXCEPT ![at] = io]
    BY <1>2
  <2>2. io \in IO /\ Len(io.outputs) = Len(names[at].outputs)
    BY <2>1, SeparatedType, SyncedType DEF TypeOK
  <2> QED BY <2>1, <2>2 DEF TypeOK
<1> QED BY <1>1, <1>2 DEF Fault

LEMMA StepTraced ==
    ASSUME TypeOK, OwnInv, PlaceInv, [Next]_vars
    PROVE  Traced'
<1>0. Traced
  BY TypeParts
<1>2. ASSUME NEW k \in [Nodes -> Kinds], NEW d \in BOOLEAN, Trace(k, d) PROVE Traced'
  <2>1. \A n \in Nodes : /\ kind'[n] \in NodeKinds /\ names'[n] \in IO
                         /\ Len(names'[n].outputs) = Len(kind'[n].outputs)
    BY <1>2, TracedKind
  <2> QED BY <1>2, <2>1 DEF Trace, Declared, Traced
<1>3. CASE CompileNode
  <2>1. at \in Nodes
    BY DEF TypeOK
  <2>2. /\ Compiled(at).names \in IO
        /\ Len(Compiled(at).names.outputs) = Len(names[at].outputs)
    BY <2>1, CompiledNames
  <2>3. names' = [names EXCEPT ![at] = Compiled(at).names] /\ kind' = kind
    BY <1>3 DEF CompileNode
  <2> QED BY <1>0, <2>1, <2>2, <2>3 DEF Traced
<1>4. CASE Fault
  BY <1>0, <1>4, FaultNames DEF Fault, Traced
<1>5. CASE UNCHANGED <<kind, names>>
  BY <1>0, <1>5 DEF Traced
<1> QED
  BY <1>2, <1>3, <1>4, <1>5
  DEF Next, Step, vars, CompileGraph, BuildGraph, SaveInitialValues, SaveNode, OpenYaml,
      DumpYaml, ValidateNode

LEMMA StepExported ==
    ASSUME TypeOK, OwnInv, PlaceInv, [Next]_vars
    PROVE  Exported'
<1>0. Exported /\ at \in Nodes /\ names \in [Nodes -> IO] /\ Nothing \in Contents
  BY TypeParts, NothingType DEF TypeOK
<1>2. ASSUME NEW k, NEW d, Trace(k, d) PROVE Exported'
  <2>1. NoFile \in Paths
    BY DEF Paths
  <2> QED BY <1>0, <1>2, <2>1 DEF Trace, NoModels, Unsaved, Exported
<1>3. CASE CompileNode
  <2>1. CASE Compiled(at).ok
    <3>1. session > 0
      BY <1>3 DEF PlaceInv, CompileNode
    <3>2. Compiled(at).model \in Contents
      BY <1>0, <2>1, <3>1, CompiledFacts
    <3> QED BY <1>0, <1>3, <2>1, <3>2 DEF CompileNode, Exported
  <2>2. CASE ~Compiled(at).ok
    BY <1>0, <1>3, <2>2 DEF CompileNode, Exported
  <2> QED BY <2>1, <2>2
<1>4. CASE BuildGraph
  BY <1>0, <1>4 DEF BuildGraph, Exported
<1>5. CASE SaveNode
  <2>1. /\ SavedFile(at) \in Paths /\ SavedContent(at) \in Contents
        /\ Written(at) \in [Files -> Contents]
    BY <1>0, SavingFacts
  <2> QED BY <1>0, <1>5, <2>1 DEF SaveNode, Exported
<1>6. CASE ValidateNode
  BY <1>0, <1>6 DEF ValidateNode, Exported
<1>7. CASE Fault
  <2>1. disk' \in {disk, Written(at)}
    BY <1>7 DEF Fault
  <2>2. Written(at) \in [Files -> Contents]
    BY <1>0, SavingFacts
  <2> QED BY <1>0, <1>7, <2>1, <2>2 DEF Fault, Exported
<1>8. CASE UNCHANGED <<pipeline, model, saved, disk>>
  BY <1>0, <1>8 DEF Exported
<1> QED
  BY <1>2, <1>3, <1>4, <1>5, <1>6, <1>7, <1>8
  DEF Next, Step, vars, CompileGraph, SaveInitialValues, OpenYaml, DumpYaml

LEMMA StepYamlTyped ==
    ASSUME TypeOK, PlaceInv, [Next]_vars
    PROVE  YamlTyped'
<1>0. YamlTyped /\ session \in Nat
  BY TypeParts DEF TypeOK
<1>1. CASE OpenYaml
  BY <1>1 DEF OpenYaml, YamlTyped
<1>2. CASE /\ phase = "dump" /\ yaml' = Description
           /\ session' = session
  <2>1. session \in 1 .. session /\ session' = session
    BY <1>0, <1>2 DEF PlaceInv
  <2>2. ASSUME NEW n \in Nodes
        PROVE  [file |-> saved[n].file, sha |-> saved[n].sha,
                backend |-> TypeOfModel(n), io |-> names[n]] \in Entries
    <3>1. saved[n].file \in Paths /\ saved[n].sha \in Contents /\ names[n] \in IO
      BY DEF TypeOK
    <3>2. TypeOfModel(n) \in Types \cup {"none"}
      <4>1. kind[n].backend \in Types \cup {"none"}
        BY DEF TypeOK, NodeKinds
      <4> QED BY <4>1, PathType DEF TypeOfModel
    <3> QED BY <3>1, <3>2 DEF Entries
  <2>3. pipeline \in [Nodes -> IO]
    BY DEF TypeOK
  <2>4. Description \in [status : {"complete"}, session : 1 .. session,
                         nodes : [Nodes -> Entries], pipeline : [Nodes -> IO]]
    BY <2>1, <2>2, <2>3 DEF Description
  <2> QED BY <1>2, <2>1, <2>4 DEF YamlTyped
<1>3. ASSUME NEW k, NEW d, Trace(k, d) PROVE YamlTyped'
  <2>1. yaml' = yaml /\ session' = session + 1
    BY <1>3 DEF Trace
  <2>2. 1 .. session \subseteq 1 .. session + 1
    BY <1>0
  <2> QED BY <1>0, <2>1, <2>2 DEF YamlTyped
<1>4. CASE UNCHANGED <<yaml, session>>
  BY <1>0, <1>4 DEF YamlTyped
<1> QED
  BY <1>1, <1>2, <1>3, <1>4
  DEF Next, Step, vars, CompileGraph, CompileNode, BuildGraph, SaveInitialValues, SaveNode,
      DumpYaml, ValidateNode, Fault

LEMMA StepTyped ==
    ASSUME TypeOK, OwnInv, PlaceInv, [Next]_vars
    PROVE  TypeOK'
<1>1. Progress' /\ Counts' /\ Traced' /\ Exported' /\ YamlTyped'
  BY StepProgress, StepCounts, StepTraced, StepExported, StepYamlTyped
<1> QED BY <1>1 DEF TypeOK, Progress, Counts, Traced, Exported, YamlTyped


-----------------------------------------------------------------------------
(* Each part of the invariant is kept by every step *)

LEMMA InitCore == Init => Core
<1> SUFFICES ASSUME Init PROVE Core
  OBVIOUS
<1>1. (CHOOSE k \in Kinds : TRUE) \in Kinds
  BY ExportAssumption
<1>2. KindInv
  BY <1>1 DEF Init, KindInv
<1>3. OwnInv
  <2> SUFFICES ASSUME NEW f \in Files, f[1] = "own"
               PROVE  disk[f] = Content(0, f[2], <<>>)
    BY DEF OwnInv
  <2>1. CASE f[2] # 0
    BY <2>1 DEF Init
  <2>2. CASE f[2] = 0
    BY <2>2 DEF Init, Nothing
  <2> QED BY <2>1, <2>2
<1>4. DryInv /\ PlaceInv /\ MadeInv /\ StoredInv
  BY DEF Init, DryInv, PlaceInv, MadeInv, StoredInv
<1> QED BY <1>2, <1>3, <1>4, InitTyped DEF Core

LEMMA StepKind ==
    ASSUME KindInv, [Next]_vars
    PROVE  KindInv'
<1>1. ASSUME NEW k \in [Nodes -> Kinds], NEW d \in BOOLEAN, Trace(k, d) PROVE KindInv'
  <2>1. \A n \in Nodes : kind'[n] \in {k[n], [k[n] EXCEPT !.backend = "none", !.own = <<>>]}
    <3>1. CASE d
      BY <1>1, <3>1 DEF Trace
    <3>2. CASE ~d
      BY <1>1, <3>2 DEF Trace
    <3> QED BY <3>1, <3>2
  <2> QED BY <2>1 DEF KindInv
<1>2. CASE UNCHANGED kind
  BY <1>2 DEF KindInv
<1> QED
  BY <1>1, <1>2
  DEF Next, Step, vars, CompileGraph, CompileNode, BuildGraph, SaveInitialValues, SaveNode,
      OpenYaml, DumpYaml, ValidateNode, Fault

LEMMA StepDry ==
    ASSUME DryInv, [Next]_vars
    PROVE  DryInv'
<1>1. ASSUME NEW k \in [Nodes -> Kinds], NEW d \in BOOLEAN, Trace(k, d) PROVE DryInv'
  <2>1. CASE d
    <3>1. \A n \in Nodes : kind'[n].backend = "none" /\ kind'[n].own = <<>>
      <4>1. ASSUME NEW n \in Nodes PROVE kind'[n].backend = "none" /\ kind'[n].own = <<>>
        <5>1. kind'[n] = [k[n] EXCEPT !.backend = "none", !.own = <<>>]
          BY <1>1, <2>1, TracedKind
        <5>2. k[n] \in NodeKinds
          BY ExportAssumption
        <5> QED BY <5>1, <5>2 DEF NodeKinds
      <4> QED BY <4>1
    <3> QED BY <3>1 DEF DryInv
  <2>2. CASE ~d
    <3>1. ~dry'
      BY Zenon, <1>1, <2>2 DEF Trace
    <3> QED BY <3>1 DEF DryInv
  <2> QED BY <2>1, <2>2
<1>2. CASE UNCHANGED <<kind, dry>>
  BY <1>2 DEF DryInv
<1> QED
  BY <1>1, <1>2
  DEF Next, Step, vars, CompileGraph, CompileNode, BuildGraph, SaveInitialValues, SaveNode,
      OpenYaml, DumpYaml, ValidateNode, Fault

LEMMA StepOwn ==
    ASSUME TypeOK, OwnInv, [Next]_vars
    PROVE  OwnInv'
<1>1. disk' \in {disk, Written(at)}
  BY DEF Next, Step, vars, Trace, CompileGraph, CompileNode, BuildGraph, SaveInitialValues,
         SaveNode, OpenYaml, DumpYaml, ValidateNode, Fault
<1>2. \A f \in Files : f[1] = "own" => Written(at)[f] = disk[f]
  BY SavingFacts DEF TypeOK
<1> QED BY <1>1, <1>2 DEF OwnInv

LEMMA StepPlace ==
    ASSUME TypeOK, PlaceInv, [Next]_vars
    PROVE  PlaceInv'
<1>1. ASSUME NEW how, Ends(how), UNCHANGED <<dry, session>> PROVE PlaceInv'
  BY <1>1 DEF Ends, PlaceInv
<1>2. ASSUME NEW k, NEW d, Trace(k, d) PROVE PlaceInv'
  BY <1>2 DEF Trace, PlaceInv, TypeOK
<1>3. ASSUME NEW m, CompileGraph(m) PROVE PlaceInv'
  BY <1>3 DEF CompileGraph, PlaceInv
<1>4. CASE CompileNode
  <2>1. CASE Compiled(at).ok
    BY <1>4, <2>1 DEF CompileNode, Onward, PlaceInv
  <2>2. CASE ~Compiled(at).ok
    BY <1>1, <1>4, <2>2 DEF CompileNode, Raised
  <2> QED BY <2>1, <2>2
<1>5. CASE BuildGraph \/ SaveInitialValues \/ OpenYaml
  BY <1>5 DEF BuildGraph, SaveInitialValues, OpenYaml, PlaceInv
<1>6. CASE SaveNode
  BY <1>6 DEF SaveNode, Onward, PlaceInv
<1>7. CASE DumpYaml
  BY <1>1, <1>7 DEF DumpYaml, PlaceInv
<1>8. CASE ValidateNode
  <2>1. CASE at < NumNodes
    BY <1>8, <2>1 DEF ValidateNode, PlaceInv
  <2>2. CASE ~(at < NumNodes)
    BY <1>1, <1>8, <2>2 DEF ValidateNode
  <2> QED BY <2>1, <2>2
<1>9. CASE Fault
  BY <1>1, <1>9 DEF Fault, Raised
<1>10. CASE UNCHANGED vars
  BY <1>10 DEF vars, PlaceInv
<1> QED
  BY <1>2, <1>3, <1>4, <1>5, <1>6, <1>7, <1>8, <1>9, <1>10 DEF Next, Step

LEMMA StepMade ==
    ASSUME TypeOK, DryInv, OwnInv, PlaceInv, MadeInv, [Next]_vars
    PROVE  MadeInv'
<1>1. CASE phase' \in {"idle", "validate"}
  BY <1>1 DEF MadeInv
<1>2. ASSUME NEW m, CompileGraph(m) PROVE MadeInv'
  <2>1. CASE dry
    <3>1. \A n \in Nodes : kind'[n].backend = "none" /\ kind'[n].own = <<>>
      BY <1>2, <2>1 DEF DryInv, CompileGraph
    <3>2. \A n \in Nodes : Made(n)'
      BY <3>1 DEF Made, TypeOfModel
    <3> QED BY <1>2, <2>1, <3>2 DEF CompileGraph, MadeInv
  <2>2. CASE ~dry
    <3>1. phase' = "compile" /\ at' = 1
      BY <1>2, <2>2 DEF CompileGraph
    <3> QED BY <3>1, NodesAre DEF MadeInv
  <2> QED BY <2>1, <2>2
<1>3. CASE CompileNode /\ Compiled(at).ok
  <2>0. at \in Nodes /\ session > 0 /\ phase = "compile"
    BY <1>3 DEF TypeOK, CompileNode, PlaceInv
  <2>1. /\ UNCHANGED <<kind, session>>
        /\ names' = [names EXCEPT ![at] = Compiled(at).names]
        /\ model' = [model EXCEPT ![at] = Compiled(at).model]
        /\ Onward("graph")
    BY <1>3 DEF CompileNode
  <2>2. ASSUME NEW n \in Nodes, n = at PROVE Made(n)'
    <3>1. names'[n] = Compiled(n).names /\ model'[n] = Compiled(n).model
      BY <2>0, <2>1, <2>2 DEF TypeOK
    <3>2. /\ kind[n].backend # "none" =>
                Compiled(n).model = Content(session, n, Compiled(n).names.inputs)
          /\ TypeOfModel(n) # "none" => Compiled(n).model # Nothing
      BY <1>3, <2>0, <2>2, CompiledFacts
    <3>3. kind' = kind /\ session' = session
      BY <2>1
    <3>4. kind'[n].backend # "none" => model'[n] = Content(session', n, names'[n].inputs)
      BY <3>1, <3>2, <3>3
    <3>5. TypeOfModel(n)' = TypeOfModel(n)
      BY <3>3 DEF TypeOfModel
    <3>6. TypeOfModel(n)' # "none" => model'[n] # Nothing
      BY <3>1, <3>2, <3>5
    <3> QED BY <3>4, <3>6 DEF Made
  <2>3. ASSUME NEW n \in Nodes, n < at PROVE Made(n)'
    <3>1. Made(n)
      BY <2>0, <2>3 DEF MadeInv
    <3>2. names'[n] = names[n] /\ model'[n] = model[n]
      <4>1. n # at
        BY <2>0, <2>3, NodesAre
      <4>2. names \in [Nodes -> IO] /\ model \in [Nodes -> Contents]
        BY DEF TypeOK
      <4> QED BY <2>1, <4>1, <4>2
    <3> QED BY <2>1, <3>1, <3>2 DEF Made, TypeOfModel
  <2>4. ASSUME NEW n \in Nodes, n <= at PROVE Made(n)'
    BY <2>0, <2>2, <2>3, <2>4, NodesAre
  <2>5. CASE at < NumNodes
    BY <2>0, <2>1, <2>4, <2>5, NodesAre DEF Onward, MadeInv
  <2>6. CASE ~(at < NumNodes)
    <3>1. \A n \in Nodes : n <= at
      BY <2>0, <2>6, NodesAre
    <3> QED BY <2>0, <2>1, <2>4, <2>6, <3>1 DEF Onward, MadeInv
  <2> QED BY <2>5, <2>6
<1>4. CASE BuildGraph \/ SaveInitialValues \/ SaveNode \/ OpenYaml \/ DumpYaml
  <2>1. UNCHANGED <<kind, session, names, model>>
    BY <1>4 DEF BuildGraph, SaveInitialValues, SaveNode, OpenYaml, DumpYaml
  <2>2. \A n \in Nodes : Made(n) => Made(n)'
    BY <2>1 DEF Made, TypeOfModel
  <2>3. \A n \in Nodes : Made(n)
    BY <1>4 DEF BuildGraph, SaveInitialValues, SaveNode, OpenYaml, DumpYaml, MadeInv
  <2>4. phase' # "compile"
    BY <1>4 DEF BuildGraph, SaveInitialValues, SaveNode, OpenYaml, DumpYaml, Onward, Ends
  <2> QED BY <2>2, <2>3, <2>4 DEF MadeInv
<1>5. CASE UNCHANGED vars
  BY <1>5 DEF vars, MadeInv, Made, TypeOfModel
<1> QED
  BY <1>1, <1>2, <1>3, <1>4, <1>5
  DEF Next, Step, Trace, CompileNode, ValidateNode, Fault, Raised, Ends, PlaceInv


\* What is written for a node does not change what is written for another.
LEMMA StoredStays ==
    ASSUME TypeOK, OwnInv, [Next]_vars, NEW n \in Nodes, Stored(n),
           UNCHANGED <<kind, model>>, saved'[n] = saved[n]
    PROVE  Stored(n)'
<1>1. OwnInv'
  BY StepOwn
<1>2. kind[n].own # <<>> => OwnContent(n)' = OwnContent(n)
  <2>1. SUFFICES ASSUME kind[n].own # <<>> PROVE OwnContent(n)' = OwnContent(n)
    OBVIOUS
  <2>2. OwnFile(n) \in Files /\ OwnFile(n)[1] = "own" /\ OwnFile(n)' = OwnFile(n)
    BY <2>1, PathType DEF OwnFile, Path
  <2>3. /\ disk[OwnFile(n)] = Content(0, OwnFile(n)[2], <<>>)
        /\ disk'[OwnFile(n)] = Content(0, OwnFile(n)[2], <<>>)
    BY <1>1, <2>2 DEF OwnInv
  <2> QED BY <2>2, <2>3 DEF OwnContent
<1>3. SavedFile(n)' = SavedFile(n)
  BY <1>2 DEF SavedFile, Artifact, OwnFile, Path
<1>4. SavedContent(n)' = SavedContent(n)
  BY <1>2 DEF SavedContent
<1> QED BY <1>3, <1>4 DEF Stored

LEMMA StepStored ==
    ASSUME TypeOK, OwnInv, PlaceInv, StoredInv, [Next]_vars
    PROVE  StoredInv'
<1>1. CASE phase' \notin {"save", "describe", "dump"}
  BY <1>1 DEF StoredInv
<1>2. CASE BuildGraph
  <2>1. phase' = IF dry THEN "describe" ELSE "initial"
    BY <1>2 DEF BuildGraph
  <2>2. dry' = dry
    BY <1>2 DEF BuildGraph
  <2> QED BY <2>1, <2>2 DEF StoredInv
<1>3. CASE SaveInitialValues
  BY <1>3, NodesAre DEF SaveInitialValues, PlaceInv, StoredInv
<1>4. CASE SaveNode
  <2>0. /\ at \in Nodes /\ phase = "save" /\ dry' = dry /\ UNCHANGED <<kind, model>>
        /\ saved' = [saved EXCEPT ![at] = [file |-> SavedFile(at), sha |-> SavedContent(at)]]
        /\ Onward("describe")
    BY <1>4 DEF SaveNode, TypeOK
  <2>1. ASSUME NEW n \in Nodes, n = at PROVE Stored(n)'
    <3>1. saved'[n] = [file |-> SavedFile(n), sha |-> SavedContent(n)]
      BY <2>0, <2>1 DEF TypeOK
    <3>2. kind[n].own # <<>> => OwnContent(n)' = OwnContent(n)
      <4> SUFFICES ASSUME kind[n].own # <<>> PROVE OwnContent(n)' = OwnContent(n)
        OBVIOUS
      <4>1. OwnFile(n) \in Files /\ OwnFile(n)[1] = "own" /\ OwnFile(n)' = OwnFile(n)
        BY <2>0, PathType DEF OwnFile, Path
      <4>2. OwnInv'
        BY StepOwn
      <4>3. disk'[OwnFile(n)] = disk[OwnFile(n)]
        BY <4>1, <4>2 DEF OwnInv
      <4> QED BY <4>1, <4>3 DEF OwnContent
    <3>3. SavedFile(n)' = SavedFile(n)
      BY <2>0, <3>2 DEF SavedFile, Artifact, OwnFile, Path
    <3>4. SavedContent(n)' = SavedContent(n)
      BY <2>0, <3>2 DEF SavedContent
    <3> QED BY <3>1, <3>3, <3>4 DEF Stored
  <2>2. ASSUME NEW n \in Nodes, n < at PROVE Stored(n)'
    <3>1. n # at
      BY <2>0, <2>2, NodesAre
    <3>2. saved'[n] = saved[n]
      BY <2>0, <3>1 DEF TypeOK
    <3>3. Stored(n)
      BY <2>0, <2>2 DEF StoredInv
    <3> QED BY <2>0, <3>2, <3>3, StoredStays
  <2>3. ASSUME NEW n \in Nodes, n <= at PROVE Stored(n)'
    BY <2>0, <2>1, <2>2, <2>3, NodesAre
  <2>4. CASE at < NumNodes
    BY <2>0, <2>3, <2>4, NodesAre DEF Onward, StoredInv
  <2>5. CASE ~(at < NumNodes)
    <3>1. \A n \in Nodes : n <= at
      BY <2>0, <2>5, NodesAre
    <3> QED BY <2>0, <2>3, <2>5, <3>1 DEF Onward, StoredInv
  <2> QED BY <2>4, <2>5
<1>5. CASE OpenYaml
  <2>1. UNCHANGED <<kind, model, saved, dry>> /\ phase = "describe" /\ phase' = "dump"
    BY <1>5 DEF OpenYaml
  <2>2. ~dry => \A n \in Nodes : Stored(n)'
    BY <2>1, StoredStays DEF StoredInv
  <2> QED BY <2>1, <2>2 DEF StoredInv
<1>6. CASE UNCHANGED vars
  BY <1>6 DEF vars, StoredInv, Stored, SavedFile, SavedContent, Artifact, OwnContent, OwnFile, Path
<1> QED
  BY <1>1, <1>2, <1>3, <1>4, <1>5, <1>6
  DEF Next, Step, Trace, CompileGraph, CompileNode, DumpYaml, ValidateNode, Fault, Raised,
      Ends, Onward

LEMMA StepCore == Core /\ [Next]_vars => Core'
BY StepTyped, StepKind, StepDry, StepOwn, StepPlace, StepMade, StepStored DEF Core

\* The type of every variable, for any nodes and any bounds.
THEOREM TypeCorrect == Spec => []TypeOK
<1>1. Core => TypeOK
  BY DEF Core
<1> QED BY <1>1, InitCore, StepCore, PTL DEF Spec

\* The export directory and the user's files are kept apart: no export ever
\* writes a file of the user's (NoneExportBackend.save copies from it).
THEOREM OwnFilesIntact == Spec => []OwnInv
<1>1. Core => OwnInv
  BY DEF Core
<1> QED BY <1>1, InitCore, StepCore, PTL DEF Spec

-----------------------------------------------------------------------------
(* What a deployer accepts *)

\* A model the user names exists, unless it is copied or is opened when it is
\* compiled: ONNX files are opened on the first call only, and the YAML then
\* gives no checksum that could tell the file is missing.
Deployable == \A k \in Kinds :
                 k.own # <<>> /\ k.own[2] = "onnx" /\ ~k.copied => k.own[1] # 0

LEMMA OwnDeployable ==
    ASSUME Deployable, TypeOK, KindInv, NEW n \in Nodes,
           kind[n].own # <<>>, kind[n].own[2] = "onnx", ~kind[n].copied
    PROVE  kind[n].own[1] # 0
<1>1. PICK k \in Kinds : kind[n] \in {k, [k EXCEPT !.backend = "none", !.own = <<>>]}
  BY DEF KindInv
<1>2. k \in NodeKinds
  BY ExportAssumption
<1>3. [k EXCEPT !.backend = "none", !.own = <<>>].own = <<>>
  BY <1>2 DEF NodeKinds
<1>4. kind[n] = k
  BY <1>1, <1>3
<1> QED BY <1>4 DEF Deployable

\* The entry of a node that was compiled and saved in this call.
LEMMA DescribedNode ==
    ASSUME Deployable, Core, session > 0, NEW n \in Nodes, Made(n), Stored(n)
    PROVE  OneExport([file |-> saved[n].file, sha |-> saved[n].sha,
                      backend |-> TypeOfModel(n), io |-> names[n]], session, n)
<1> DEFINE e == [file |-> saved[n].file, sha |-> saved[n].sha,
                 backend |-> TypeOfModel(n), io |-> names[n]]
<1>1. e.file = SavedFile(n) /\ e.sha = SavedContent(n) /\ e.io = names[n]
      /\ e.backend = TypeOfModel(n)
  BY DEF Stored
<1>2. ASSUME TypeOfModel(n) \in Types
      PROVE  /\ TypeOfModel(n) = "onnx" /\ SavedFile(n) # NoFile => SavedContent(n) # Nothing
             /\ SavedContent(n).trace[1] # 0 => /\ SavedContent(n).trace = <<session, n>>
                                                /\ SavedContent(n).inputs = names[n].inputs
  <2>1. CASE kind[n].backend # "none"
    <3>1. SavedContent(n) = Content(session, n, names[n].inputs) /\ SavedContent(n) # Nothing
      BY <1>2, <2>1 DEF Made, SavedContent, TypeOfModel, Types
    <3>2. session \in Int /\ n \in Int /\ names[n].inputs \in Seq(Named)
      <4>1. session \in Int /\ n \in Int
        BY NodesAre DEF Core, TypeOK
      <4>2. names[n] \in IO
        BY DEF Core, TypeOK
      <4> QED BY <4>1, <4>2 DEF IO
    <3>3. /\ SavedContent(n).trace = <<session, n>>
          /\ SavedContent(n).inputs = names[n].inputs
      BY <3>1, <3>2, ContentType
    <3> QED BY <3>1, <3>3
  <2>2. CASE kind[n].backend = "none"
    <3>1. kind[n].own # <<>> /\ TypeOfModel(n) = kind[n].own[2]
      BY <1>2, <2>2 DEF TypeOfModel, Types
    <3>2. SavedContent(n) = OwnContent(n) /\ OwnContent(n).trace[1] = 0
      BY <2>2, <3>1, OwnContentIs DEF SavedContent, Core
    <3>3. ASSUME TypeOfModel(n) = "onnx", SavedFile(n) # NoFile PROVE OwnContent(n) # Nothing
      <4>1. CASE kind[n].copied
        BY <2>2, <3>1, <3>3, <4>1 DEF SavedFile
      <4>2. CASE ~kind[n].copied
        <5>1. kind[n].own[1] # 0
          BY <3>1, <3>3, <4>2, OwnDeployable DEF Core
        <5> QED BY <3>1, <5>1, OwnContentIs DEF Core
      <4> QED BY <4>1, <4>2
    <3> QED BY <3>2, <3>3
  <2> QED BY <2>1, <2>2
<1>3. OneExport(e, session, n)
  <2> HIDE DEF e
  <2> QED BY <1>1, <1>2 DEF OneExport
<1> QED BY <1>3

LEMMA StepYaml ==
    ASSUME Deployable, Core, YamlInv, [Next]_vars
    PROVE  YamlInv'
<1>1. CASE phase = "dump" /\ yaml' = Description
  <2>1. yaml' = Description /\ phase = "dump" /\ session > 0
    BY <1>1 DEF Core, PlaceInv
  <2>2. ASSUME NEW n \in Nodes PROVE OneExport(yaml'.nodes[n], yaml'.session, n)
    <3> DEFINE e == [file |-> saved[n].file, sha |-> saved[n].sha,
                     backend |-> TypeOfModel(n), io |-> names[n]]
    <3>1. yaml'.nodes[n] = e /\ yaml'.session = session
      BY <2>1 DEF Description
    <3>2. CASE dry
      <4>1. TypeOfModel(n) = "none"
        BY <3>2 DEF Core, DryInv, TypeOfModel
      <4> QED BY <3>1, <4>1 DEF OneExport, Types
    <3>3. CASE ~dry
      <4>1. Made(n) /\ Stored(n)
        BY <2>1, <3>3 DEF Core, MadeInv, StoredInv
      <4>2. OneExport(e, session, n)
        BY <2>1, <4>1, DescribedNode
      <4> HIDE DEF e
      <4> QED BY <3>1, <4>2
    <3> QED BY <3>2, <3>3
  <2> QED BY <2>2 DEF YamlInv
<1>2. CASE OpenYaml
  BY <1>2 DEF OpenYaml, YamlInv, NoYaml
<1>3. CASE UNCHANGED yaml
  BY <1>3 DEF YamlInv
<1> QED
  BY <1>1, <1>2, <1>3
  DEF Next, Step, vars, Trace, CompileGraph, CompileNode, BuildGraph, SaveInitialValues,
      SaveNode, DumpYaml, ValidateNode, Fault

\* At any moment what a deployer would load is one export, however many
\* nodes, sessions, calls and faults there are (ExportBackend.load,
\* InferenceManager._create_nodes), if no ONNX file of the user's is missing.
THEOREM AcceptedAlways == ASSUME Deployable PROVE Spec => []AcceptedIsOneExport
<1>1. Init => Core /\ YamlInv
  BY InitCore DEF Init, YamlInv, NoYaml
<1>2. Core /\ YamlInv /\ [Next]_vars => (Core /\ YamlInv)'
  BY StepCore, StepYaml
<1>3. Core /\ YamlInv => AcceptedIsOneExport
  <2> SUFFICES ASSUME YamlInv, Accepted, NEW n \in Nodes
               PROVE  LET e == yaml.nodes[n]
                          m == disk[e.file]
                      IN  /\ m = e.sha /\ m # Nothing
                          /\ m.trace[1] # 0 => /\ m.trace = <<yaml.session, n>>
                                               /\ m.inputs = e.io.inputs
    BY DEF AcceptedIsOneExport
  <2>1. Sound(yaml.nodes[n]) /\ OneExport(yaml.nodes[n], yaml.session, n)
    BY DEF Accepted, YamlInv
  <2> QED BY <2>1 DEF Sound, OneExport
<1> QED BY <1>1, <1>2, <1>3, PTL DEF Spec

-----------------------------------------------------------------------------
(* What strict validation lets through *)

\* No hidden state is back where it started once the samples, 0 to k.samples,
\* have been run: validation cannot tell such a model from one without state.
NoCycle == \A k \in Kinds : k.model = "parity" => k.samples % 2 = 0

LEMMA KindNoCycle ==
    ASSUME NoCycle, KindInv, NEW n \in Nodes, Passes(kind[n])
    PROVE  Repeats(kind[n])
<1>1. PICK k \in Kinds : kind[n] \in {k, [k EXCEPT !.backend = "none", !.own = <<>>]}
  BY DEF KindInv
<1>2. k \in NodeKinds
  BY ExportAssumption
<1>3. kind[n] \in NodeKinds /\ kind[n].model = k.model /\ kind[n].samples = k.samples
  <2> DEFINE r == [k EXCEPT !.backend = "none", !.own = <<>>]
  <2>1. r \in NodeKinds /\ r.model = k.model /\ r.samples = k.samples
    BY <1>2 DEF NodeKinds
  <2>2. kind[n] \in {k, r}
    BY <1>1
  <2> HIDE DEF r
  <2> QED BY <1>2, <2>1, <2>2
<1> QED BY <1>3, PassesRepeats DEF NoCycle

CheckedStep == CheckedInv /\ ValidatedRepeats

LEMMA StepChecked ==
    ASSUME NoCycle, Core, CheckedStep, [Next]_vars
    PROVE  CheckedStep'
<1>1. CASE DumpYaml
  <2>1. CASE phase' = "validate"
    <3>1. /\ yaml' = Description /\ UNCHANGED <<kind, model, session, passed, outcome, at>>
          /\ phase = "dump"
      BY <1>1, <2>1 DEF DumpYaml, Ends
    <3>2. passed = {} /\ outcome = "none"
      BY <3>1 DEF Core, PlaceInv
    <3>3. \A n \in Nodes : yaml'.nodes[n].backend = TypeOfModel(n) /\ TypeOfModel(n)' = TypeOfModel(n)
      BY <3>1 DEF Description, TypeOfModel
    <3>4. yaml'.status = "complete" /\ yaml'.session = session'
      BY <3>1 DEF Description
    <3>5. \A n \in Nodes : TypeOfModel(n) # "none" => model'[n] # Nothing
      BY <3>1 DEF Core, MadeInv, Made
    <3> QED BY <3>1, <3>2, <3>3, <3>4, <3>5 DEF CheckedStep, CheckedInv, ValidatedRepeats
  <2>2. CASE phase' # "validate"
    <3>1. outcome' = "returned"
      BY <1>1, <2>2 DEF DumpYaml, Ends
    <3> QED BY <2>2, <3>1 DEF CheckedStep, CheckedInv, ValidatedRepeats
  <2> QED BY <2>1, <2>2
<1>2. CASE ValidateNode
  <2> DEFINE results == IF PassesNode(at) THEN passed \cup {at} ELSE passed
  <2>0. /\ phase = "validate" /\ at \in Nodes /\ UNCHANGED <<kind, yaml, session>>
        /\ model' = [model EXCEPT ![at] = Nothing] /\ outcome = "none"
    BY <1>2 DEF ValidateNode, Core, TypeOK, PlaceInv
  <2>1. /\ yaml.status = "complete" /\ yaml.session = session
        /\ \A n \in Nodes : yaml.nodes[n].backend = TypeOfModel(n)
        /\ \A n \in Nodes : n >= at /\ TypeOfModel(n) # "none" => model[n] # Nothing
        /\ \A n \in passed : TypeOfModel(n) = "none" \/ Repeats(kind[n])
    BY <2>0 DEF CheckedStep, CheckedInv
  <2>2. \A n \in Nodes : TypeOfModel(n)' = TypeOfModel(n) /\ kind'[n] = kind[n]
    BY <2>0 DEF TypeOfModel
  <2>3. \A n \in results : n \in Nodes /\ (TypeOfModel(n) = "none" \/ Repeats(kind[n]))
    <3>1. PassesNode(at) => TypeOfModel(at) = "none" \/ Repeats(kind[at])
      BY <2>0, <2>1, KindNoCycle, NodesAre DEF PassesNode, Core
    <3> QED BY <2>0, <2>1, <3>1 DEF Core, TypeOK
  <2>4. CASE at < NumNodes
    <3>1. at' = at + 1 /\ passed' = results /\ UNCHANGED <<phase, mode, outcome>>
      BY <1>2, <2>4 DEF ValidateNode
    <3>2. ASSUME NEW n \in Nodes, n >= at', TypeOfModel(n) # "none" PROVE model'[n] # Nothing
      <4>1. n >= at /\ n # at
        BY <2>0, <3>1, <3>2, NodesAre
      <4>2. model'[n] = model[n]
        BY <2>0, <4>1 DEF Core, TypeOK
      <4> QED BY <2>1, <3>2, <4>1, <4>2
    <3> HIDE DEF results
    <3> QED BY <2>0, <2>1, <2>2, <2>3, <3>1, <3>2 DEF CheckedStep, CheckedInv, ValidatedRepeats
  <2>5. CASE ~(at < NumNodes)
    <3>1. phase' = "idle" /\ (outcome' = "validated" => results = Nodes)
      BY <1>2, <2>5 DEF ValidateNode, Ends
    <3> HIDE DEF results
    <3> QED BY <2>0, <2>1, <2>2, <2>3, <3>1 DEF CheckedStep, CheckedInv, ValidatedRepeats
  <2> QED BY <2>4, <2>5
<1>3. CASE phase' # "validate" /\ outcome' # "validated"
  BY <1>3 DEF CheckedStep, CheckedInv, ValidatedRepeats
<1>4. CASE UNCHANGED vars
  BY <1>4 DEF vars, CheckedStep, CheckedInv, ValidatedRepeats, TypeOfModel
<1>5. \/ DumpYaml \/ ValidateNode \/ UNCHANGED vars
      \/ phase' # "validate" /\ outcome' # "validated"
  BY DEF Next, Step, Trace, CompileGraph, CompileNode, BuildGraph, SaveInitialValues, SaveNode,
         OpenYaml, Fault, Raised, Ends, Onward, Core, PlaceInv
<1> QED BY <1>1, <1>2, <1>3, <1>4, <1>5

\* A graph strict validation lets through repeats its recorded samples whatever
\* was called before, and the YAML is that of the session validated
\* (leapp_node.validate_compiled_model), if no hidden state is back where it
\* started when the samples have been run.
THEOREM ValidatedAlways == ASSUME NoCycle PROVE Spec => []ValidatedRepeats
<1>1. Init => Core /\ CheckedStep
  BY InitCore DEF Init, CheckedStep, CheckedInv, ValidatedRepeats
<1>2. Core /\ CheckedStep /\ [Next]_vars => (Core /\ CheckedStep)'
  BY StepCore, StepChecked
<1>3. Core /\ CheckedStep => ValidatedRepeats
  BY DEF CheckedStep
<1> QED BY <1>1, <1>2, <1>3, PTL DEF Spec

=============================================================================
