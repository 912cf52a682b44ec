----------------------------- MODULE FunctionNode -----------------------------
(***************************************************************************)
(* A function annotated as one node whose body is exported as source (the  *)
(* FunctionDecoratorNode of annotate._method()).  Its arguments and its    *)
(* results may be nested lists and dicts of tensors: LEAPP flattens them   *)
(* into named ports, and ModuleBuilder generates a forward() that packs    *)
(* the flat inputs, calls the body and unpacks what it returns.            *)
(*                                                                         *)
(* A nested value is a function from the paths of its leaves to tensors; a *)
(* path is a sequence of keys, and a key or a name the sequence of its     *)
(* "_"-separated words, so that the key "a_0" and the keys "a", 0 give the *)
(* same flat name, as they do in the code.  The body moves tensors: each   *)
(* leaf it returns is a leaf it was given.                                 *)
(***************************************************************************)
EXTENDS Integers, Sequences, FiniteSets, SequencesExt

CONSTANTS Programs, \* what is annotated: params and returns are sequences of
                    \* names; shapes are the structures each parameter may
                    \* be given; body says which leaf of which argument each
                    \* leaf of each result is
          MaxCalls, \* bound: calls of the function in the session
          MaxCache  \* re-entry samples kept: max_cached_io - 1

VARIABLES
    program,  \* the annotated function
    calls,    \* calls made so far
    node,     \* what the node recorded, NoNode before its first call
    indexed,  \* the node was given its completion index
    ports,    \* tensor -> output port it carries, for the tensors that do
    compiled  \* compile_graph() has built the module: no more calls

functionVars == <<program, calls, node, indexed, ports, compiled>>

-----------------------------------------------------------------------------
(* Annotated functions.                                                    *)

Paths == Seq(Seq(STRING) \ {<<>>})

\* The leaves of a nested value, in order: none lies inside another.
IsStructure(paths) ==
    /\ paths \in Seq(Paths)
    /\ \A i, j \in DOMAIN paths : IsPrefix(paths[i], paths[j]) => i = j

\* A tensor by itself: its only leaf is at the empty path.
BareTensor == << <<>> >>

\* A signature has no name twice; results may, and are then refused.
IsProgram(f) ==
    /\ f.params \in Seq(Seq(STRING)) /\ f.returns \in Seq(Seq(STRING))
    /\ \A p, q \in DOMAIN f.params : f.params[p] = f.params[q] => p = q
    /\ DOMAIN f.shapes = DOMAIN f.params
    /\ \A p \in DOMAIN f.params : \A paths \in f.shapes[p] : IsStructure(paths)
    /\ DOMAIN f.body = DOMAIN f.returns
    /\ \A r \in DOMAIN f.body :
          /\ IsStructure(f.body[r].paths)
          /\ DOMAIN f.body[r].from = DOMAIN f.body[r].paths
          /\ \A i \in DOMAIN f.body[r].from :
                f.body[r].from[i] \in (DOMAIN f.params) \X Paths

ASSUME ProgramAssumption ==
    MaxCalls \in Nat /\ MaxCache \in Int /\ \A f \in Programs : IsProgram(f)

\* What each parameter may be given, in one call.
ShapesOf(f) ==
    {s \in [DOMAIN f.params -> UNION {f.shapes[p] : p \in DOMAIN f.params}] :
        \A p \in DOMAIN f.params : s[p] \in f.shapes[p]}

-----------------------------------------------------------------------------
(* Nested values and their descriptions.                                   *)

NoNode == [new |-> TRUE]
Zeros  == <<"zeros">>

\* A tensor is known by the call, the parameter and the path it entered at.
Argument(c, p, paths) == [path \in ToSet(paths) |-> <<c, p, path>>]
Leaf(value) == [path \in {<<>>} |-> value]

FlatName(name, path) == name \o FlattenSeq(path)

\* describe_io(): one description per leaf, in the order of the structure.
Describe(name, paths, value) ==
    [i \in DOMAIN paths |->
        [name   |-> FlatName(name, paths[i]),
         port   |-> FlatName(name, paths[i]),
         value  |-> value[paths[i]],
         cached |-> [k \in 1..MaxCache |-> Zeros]]]

NamesOf(descs) == {descs[i].name : i \in DOMAIN descs}

\* _validate_and_add_to_list(): the leaves before the first whose name is
\* taken are recorded, then it raises.  Otherwise the format that rebuilds the
\* structure is kept too; it holds the descriptions themselves, here their
\* positions in the list.
\* Fault: names are not compared.
TakenNever(known, descs, i) == FALSE

Taken(known, descs, i) ==
    descs[i].name \in NamesOf(known) \cup NamesOf(SubSeq(descs, 1, i - 1))

Add(io, name, paths, value) ==
    LET descs == Describe(name, paths, value)
        taken == {i \in DOMAIN descs : Taken(io.list, descs, i)}
    IN  IF taken = {}
        THEN [io EXCEPT !.list    = @ \o descs,
                        !.formats = Append(@,
                            [name  |-> name,
                             paths |-> paths,
                             at    |-> [i \in DOMAIN paths |-> Len(io.list) + i]])]
        ELSE [io EXCEPT !.list   = @ \o SubSeq(descs, 1, Min(taken) - 1),
                        !.raised = TRUE]

\* validate_io_and_update_sources(): leaf by leaf, the value is stored in the
\* slot under the write index; a name the node does not have raises.
Store(io, name, paths, value, slot) ==
    LET descs   == Describe(name, paths, value)
        unknown == {i \in DOMAIN descs : descs[i].name \notin NamesOf(io.list)}
        stored  == {i \in DOMAIN descs : \A j \in unknown : i < j}
        Of(d)   == {i \in stored : descs[i].name = d.name}
        Written(d) == IF slot > MaxCache \/ Of(d) = {} THEN d
                      ELSE [d EXCEPT !.cached[slot] = descs[Max(Of(d))].value]
    IN  [io EXCEPT !.list   = [i \in DOMAIN io.list |-> Written(io.list[i])],
                   !.raised = unknown # {}]

Empty == [list |-> <<>>, formats |-> <<>>, raised |-> FALSE]

\* What a call passes or returns under one name.  A first call (slot 0) adds
\* descriptions, a later one fills their slots; an active carrier of another
\* node among the leaves raises before any of them is recorded.
RecordOne(io, v, slot) ==
    IF io.raised THEN io
    ELSE IF v.foreign THEN [io EXCEPT !.raised = TRUE]
    ELSE IF slot = 0 THEN Add(io, v.name, v.paths, v.value)
    ELSE Store(io, v.name, v.paths, v.value, slot)

\* They are recorded one after the other, until one raises.
Recorded(io, values, slot) ==
    LET after[k \in 0..Len(values)] ==
            IF k = 0 THEN io ELSE RecordOne(after[k-1], values[k], slot)
    IN  after[Len(values)]

-----------------------------------------------------------------------------
(* The function and the forward() ModuleBuilder generates around it.       *)

\* The body of result r for the arguments; it raises when it reads a leaf
\* that is not there.
Reads == UNION {ToSet(program.body[r].from) : r \in DOMAIN program.body}
BodyRaises(args) == \E w \in Reads : w[2] \notin DOMAIN args[w[1]]
Result(r, args) ==
    LET b == program.body[r]
    IN  [path \in ToSet(b.paths) |->
            LET w == b.from[CHOOSE i \in DOMAIN b.paths : b.paths[i] = path]
            IN  args[w[1]][w[2]]]

Bind(env, name, value) ==
    [x \in DOMAIN env \cup {name} |-> IF x = name THEN value ELSE env[x]]

\* x[0]["a"]: what a nested value holds at a path.
Item(value, path) ==
    [q \in {SubSeq(p, Len(path) + 1, Len(p)) :
                p \in {p \in DOMAIN value : IsPrefix(path, p)}} |-> value[path \o q]]

\* The right-hand side of an assignment: a nested value put together of parts,
\* each what the variable `of` holds at `item`, placed at `path`.
Assembled(env, parts) ==
    LET Part(c) == Item(env[c.of], c.item)
        cells == UNION {{<<c, q>> : q \in DOMAIN Part(c)} : c \in parts}
    IN  [path \in {x[1].path \o x[2] : x \in cells} |->
            LET x == CHOOSE x \in cells : x[1].path \o x[2] = path
            IN  Part(x[1])[x[2]]]

\* The assignments of the generated code, in order, on whatever the variables
\* hold by then.
Executed(env, code) ==
    LET after[k \in 0..Len(code)] ==
            IF k = 0 THEN env
            ELSE Bind(after[k-1], code[k].to, Assembled(after[k-1], code[k].parts))
    IN  after[Len(code)]

\* packed_tensor_expr: "x = [x_0, x_1]".
PackCode(io) ==
    [p \in DOMAIN io.formats |->
        LET f == io.formats[p]
        IN  [to    |-> f.name,
             parts |-> {[of |-> io.list[f.at[i]].name, item |-> <<>>, path |-> f.paths[i]] :
                            i \in DOMAIN f.at}]]

\* unpacked_tensor_expr: "x_0 = x[0]", one assignment per leaf.
UnpackCode(io) ==
    [n \in DOMAIN io.list |->
        LET f == CHOOSE f \in ToSet(io.formats) : n \in ToSet(f.at)
            i == CHOOSE i \in DOMAIN f.at : f.at[i] = n
        IN  [to    |-> io.list[n].name,
             parts |-> {[of |-> f.name, item |-> f.paths[i], path |-> <<>>]}]]

\* "(x, y) = self._core(a, b)": a name returned twice keeps its last result.
Called(env, outs, args) ==
    LET Of(x) == {r \in DOMAIN outs.formats : outs.formats[r].name = x}
    IN  [x \in DOMAIN env \cup {outs.formats[r].name : r \in DOMAIN outs.formats} |->
            IF Of(x) = {} THEN env[x] ELSE Result(Max(Of(x)), args)]

\* forward() applied to the flat inputs: the flat outputs, in order.
Forward(ins, outs, flat) ==
    LET bare   == [x \in NamesOf(ins.list) |->
                      Leaf(flat[CHOOSE i \in DOMAIN ins.list : ins.list[i].name = x])]
        packed == Executed(bare, PackCode(ins))
        args   == [p \in DOMAIN ins.formats |-> packed[ins.formats[p].name]]
        env    == Executed(Called(packed, outs, args), UnpackCode(outs))
    IN  IF BodyRaises(args) THEN <<"raises">>
        ELSE [i \in DOMAIN outs.list |-> env[outs.list[i].name]]

-----------------------------------------------------------------------------
(* A call of the annotated function.                                       *)

ParamIds == DOMAIN program.params
Shapes == ShapesOf(program)

Args(shape) == [p \in ParamIds |-> Argument(calls + 1, p, shape[p])]

\* Arguments and results as they are recorded.
Arguments(shape, active) ==
    [p \in ParamIds |-> [name  |-> program.params[p], paths |-> shape[p],
                         value |-> Args(shape)[p], foreign |-> p = active]]
Results(shape) ==
    [r \in DOMAIN program.returns |->
        [name  |-> program.returns[r], paths |-> program.body[r].paths,
         value |-> Result(r, Args(shape)), foreign |-> FALSE]]

\* The leaves whose structure was recorded to its end, by their position.
Described(io) == UNION {ToSet(f.at) : f \in ToSet(io.formats)}

\* Fault: leaves and descriptions in opposite orders.
PublishReversed(io) ==
    LET Of(t) == {i \in Described(io) : io.list[i].value = t}
    IN  [t \in DOMAIN ports \cup {io.list[i].value : i \in Described(io)} |->
            IF Of(t) = {} THEN ports[t]
            ELSE io.list[Len(io.list) + 1 - Max(Of(t))].port]

\* publish_output_ports() lines leaves and descriptions up; the
\* publish_output_port() of this node promotes each leaf it returned, which
\* takes the tensor over from whoever published it before.
Publish(io) ==
    LET Of(t) == {i \in Described(io) : io.list[i].value = t}
    IN  [t \in DOMAIN ports \cup {io.list[i].value : i \in Described(io)} |->
            IF Of(t) = {} THEN ports[t] ELSE io.list[Max(Of(t))].port]

\* The first call captures the interface.  Whatever raises leaves the node
\* registered under its name with what was recorded so far.
Capture(shape, active, fails) ==
    LET ins    == Recorded(Empty, Arguments(shape, active), 0)
        ran    == ~ins.raised /\ ~fails /\ ~BodyRaises(Args(shape))
        outs   == IF ran THEN Recorded(Empty, Results(shape), 0) ELSE Empty
    IN  /\ node = NoNode
        /\ node' = [new |-> FALSE, idx |-> 0, bounds |-> ~ins.raised,
                    ins |-> [ins EXCEPT !.raised = FALSE],
                    outs |-> [outs EXCEPT !.raised = FALSE]]
        /\ indexed' = (ran /\ ~outs.raised)
        /\ ports' = IF ran THEN Publish(outs) ELSE ports

\* A later call validates against the captured interface, storing the values
\* as the next sample, which counts once the call returned.
Reenter(shape, active, fails) ==
    LET slot == node.idx + 1
        ins  == Recorded(node.ins, Arguments(shape, active), slot)
        ran  == ~ins.raised /\ ~fails /\ ~BodyRaises(Args(shape))
        outs == IF ran THEN Recorded(node.outs, Results(shape), slot) ELSE node.outs
    IN  /\ node # NoNode /\ node.bounds
        /\ node' = [node EXCEPT
                       !.ins  = [ins EXCEPT !.raised = FALSE],
                       !.outs = [outs EXCEPT !.raised = FALSE],
                       !.idx  = IF ran /\ ~outs.raised /\ @ < MaxCache THEN @ + 1 ELSE @]
        /\ UNCHANGED <<indexed, ports>>

\* validate_function_boundaries(): a node whose first call raised over its
\* inputs never learned where its function is, and takes no call.
Refused == /\ node # NoNode /\ ~node.bounds
           /\ UNCHANGED <<node, indexed, ports>>

Call ==
    /\ ~compiled /\ calls < MaxCalls
    /\ calls' = calls + 1
    /\ \/ \E shape \in Shapes, active \in ParamIds \cup {0}, fails \in BOOLEAN :
             Capture(shape, active, fails) \/ Reenter(shape, active, fails)
       \/ Refused
    /\ UNCHANGED <<program, compiled>>

-----------------------------------------------------------------------------
(* Compilation: an ONNX backend renames what is both input and output.     *)

Renamed(io, names, suffix) ==
    LET Of(d) == IF d.name \in names THEN [d EXCEPT !.name = Append(@, suffix)] ELSE d
    IN  [io EXCEPT !.list = [i \in DOMAIN io.list |-> Of(io.list[i])]]

Compile(onnx) ==
    LET both == IF onnx THEN NamesOf(node.ins.list) \cap NamesOf(node.outs.list) ELSE {}
        used == NamesOf(node.ins.list) \cup NamesOf(node.outs.list)
    IN  /\ node # NoNode /\ indexed /\ ~compiled
        /\ \A x \in both : Append(x, "in") \notin used /\ Append(x, "out") \notin used
        /\ compiled' = TRUE
        /\ node' = [node EXCEPT !.ins = Renamed(@, both, "in"),
                                !.outs = Renamed(@, both, "out")]
        /\ UNCHANGED <<program, calls, indexed, ports>>

FunctionInit ==
    /\ program \in Programs
    /\ calls = 0
    /\ node = NoNode
    /\ indexed = FALSE
    /\ ports = << >>
    /\ compiled = FALSE

FunctionNext == Call \/ (\E onnx \in BOOLEAN : Compile(onnx))

FunctionSpec == FunctionInit /\ [][FunctionNext]_functionVars

-----------------------------------------------------------------------------
(* Where the flat names are enough.                                        *)

LeafNames(names, paths) ==
    [leaf \in UNION {{p} \X (DOMAIN paths[p]) : p \in DOMAIN names} |->
        FlatName(names[leaf[1]], paths[leaf[1]][leaf[2]])]

\* The interface s gives is one forward() can pack: the variable a nested
\* argument is assigned to is not an input read by a later assignment, as it is
\* or as ONNX renames it.  And a call has no two leaves under one name of it.
ArgumentsApart(f, s) ==
    /\ \A p, q \in DOMAIN f.params : \A i \in DOMAIN s[q] :
          p < q /\ s[p] # BareTensor =>
              f.params[p] \notin {FlatName(f.params[q], s[q][i]),
                                  Append(FlatName(f.params[q], s[q][i]), "in")}
    /\ \A t \in ShapesOf(f) :
          Range(LeafNames(f.params, t)) \subseteq Range(LeafNames(f.params, s))
              => IsInjective(LeafNames(f.params, t))

\* The variable a nested result is unpacked from is no other result's, and not
\* an output assigned before it.
ResultsApart(f) ==
    \A r, s \in DOMAIN f.returns :
        /\ r # s /\ f.body[s].paths # BareTensor => f.returns[r] # f.returns[s]
        /\ r < s /\ f.body[s].paths # BareTensor =>
              \A i \in DOMAIN f.body[r].paths :
                  LET y == FlatName(f.returns[r], f.body[r].paths[i])
                  IN  f.returns[s] \notin {y, Append(y, "out")}

\* So it is for every interface the function can be captured with: one whose
\* flat names differ.
NamesApart(f) ==
    IsInjective(LeafNames(f.returns, [r \in DOMAIN f.body |-> f.body[r].paths])) =>
        /\ ResultsApart(f)
        /\ \A s \in ShapesOf(f) :
              IsInjective(LeafNames(f.params, s)) => ArgumentsApart(f, s)

-----------------------------------------------------------------------------
(* Properties.                                                             *)

Sample(io, k) == [i \in DOMAIN io.list |->
                     IF k = 0 THEN io.list[i].value ELSE io.list[i].cached[k]]

\* The generated forward() computes the function that was called: on every
\* sample the node keeps, before and after a rename, flattening, packing, the
\* body and unpacking give the flat outputs the call produced.
ReplaysCalls ==
    indexed =>
        \A k \in 0..node.idx :
            Forward(node.ins, node.outs, Sample(node.ins, k))
                = [i \in DOMAIN node.outs.list |-> Leaf(Sample(node.outs, k)[i])]

\* The port a returned tensor carries names the leaf it is: through it a
\* consumer's edge delivers this tensor and no other.
PortsNameOutputs ==
    \A t \in DOMAIN ports :
        \E i \in DOMAIN node.outs.list :
            node.outs.list[i].value = t /\ node.outs.list[i].port = ports[t]
=============================================================================
