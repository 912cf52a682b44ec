--------------------------- MODULE TracedCarriers ---------------------------
(***************************************************************************)
(* Traced carriers of one node: the tensors and arrays a program works on  *)
(* while LEAPP records, the FX graph being recorded, and what the finished *)
(* graph computes.                                                         *)
(*                                                                         *)
(* Two memories run side by side.  mem is the eager one: every storage has *)
(* two parts, an object covers both (Whole) or the leading one (Lead), and *)
(* objects over one storage are aliases.  The other is the graph's: an FX  *)
(* node that computes allocates a cell, a view shares the cell of its      *)
(* argument, and a write recorded by update_proxy is a copy_ node that     *)
(* changes the cell, so that a carrier keeps its proxy through writes.     *)
(*                                                                         *)
(* A value is a set of tokens and an operation is symmetric difference.    *)
(* The token of a Live storage stands for data that changes from run to    *)
(* run; Bake is what is left of it once the graph holds it as a constant,  *)
(* so a baked token never equals what the program computes.                *)
(*                                                                         *)
(* Habits names what the traced program may do beyond what the docs ask.   *)
(***************************************************************************)
EXTENDS Integers, Sequences, FiniteSets, FiniteSetsExt

CONSTANTS
    Named,       \* tensors the program holds when tracing starts
    Temps,       \* variables its results are assigned to
    Stores,      \* allocations
    Start,       \* Start[o]: the storage and the parts of a Named tensor
    Live,        \* storages whose data changes from run to run
    Habits,      \* subset of {"bare", "slice", "split", "stale", "shared"}
    MaxOps,      \* bound on the calls, those in transit and later declarations included
    MaxOutputs,  \* bound on the carriers output_tensors is given
    MaxPasses    \* 2: the graph is replaced once, for a Warp capture pass

Lead == {1}
Whole == {1, 2}
Objects == Named \cup Temps

VARIABLES
    mem,        \* the eager memory
    obj,        \* what each program variable refers to
    graph,      \* the node's FX graph: a sequence of FX nodes
    pass,       \* which graph of the node this is
    index,      \* _layout_index: the carrier declared for a layout
    phase,      \* "tracing" or "done" (transit)
    ops         \* calls made

vars == <<mem, obj, graph, pass, index, phase, ops>>

NoStore == "no storage"
NoPort == <<>>
Nobody == "nobody"
Scalar == "scalar"                \* a Python number as an operand
NoProxy == [pass |-> 0, node |-> 0]

ASSUME CarrierAssumption ==
    /\ Named \cap Temps = {}
    /\ NoStore \notin Stores /\ {Nobody, Scalar} \cap Objects = {}
    /\ Start \in [Named -> [st : Stores, sel : {Lead, Whole}]]
    /\ Live \subseteq Stores
    /\ Habits \subseteq {"bare", "slice", "split", "stale", "shared"}
    /\ MaxOps \in Nat /\ MaxOutputs \in Nat /\ MaxPasses \in {1, 2}

-----------------------------------------------------------------------------
(* Values: a set of tokens for each part.                                  *)

One == <<"one", "one">>
Odd == <<"failed", "failed">>
Foreign == <<"foreign", "foreign">>
Varies(t) == t[1] = "data" /\ t[2] \in Live
Bake(v) == [i \in Whole |-> {IF Varies(t) THEN <<"baked", t[2]>> ELSE t : t \in v[i]}]
Xor(v, w) == [i \in Whole |-> (v[i] \ w[i]) \cup (w[i] \ v[i])]
Only(v, sel) == [i \in Whole |-> IF i \in sel THEN v[i] ELSE {}]
Over(v, w, sel) == [i \in Whole |-> IF i \in sel THEN w[i] ELSE v[i]]
Ones == [i \in Whole |-> {One}]
Empty == [i \in Whole |-> {}]

-----------------------------------------------------------------------------
(* The graph.                                                              *)

FX(op, a, b, sel, val, st) ==
    [op |-> op, a |-> a, b |-> b, sel |-> sel, val |-> val, st |-> st]
Newest(g) == [pass |-> pass, node |-> Len(g)]

\* The node whose cell node i reads and writes.
CellOf(g) ==
    LET Cell[i \in 0..Len(g)] ==
            IF i > 0 /\ g[i].op = "view" THEN Cell[g[i].a.node] ELSE i
    IN  Cell

\* What a proxy reads: c is what the cells hold so far.
Reads(g, c, p) == IF p.pass = pass THEN c[CellOf(g)[p.node]] ELSE [i \in Whole |-> {Foreign}]

\* What node n computes; m is the memory a constant held by reference (FX keeps
\* the tensor, not a copy) reads then.
Result(g, c, n, m) ==
    LET arg == IF n.b = NoProxy THEN Ones ELSE Reads(g, c, n.b)
    IN  CASE n.op \in {"placeholder", "const"} -> Only(n.val, n.sel)
          [] n.op = "ref" -> Only(Bake(m[n.st]), n.sel)
          [] n.op = "call" -> Only(Xor(Reads(g, c, n.a), arg), n.sel)
          [] n.op = "clone" -> Only(Reads(g, c, n.a), n.sel)
          [] n.op = "put" -> Only(Over(Reads(g, c, n.a), arg, g[n.b.node].sel), n.sel)
          [] n.op = "failed" -> Only([i \in Whole |-> {Odd}], n.sel)
          [] OTHER -> Empty

\* The cells of the nodes up to k, once node k has run (if it is in Kept).
Advance(g, Kept, m, c, k) ==
    LET n == g[k] IN
    [i \in 1..k |->
        IF k \in Kept /\ n.op = "copy_" /\ i = CellOf(g)[n.a.node]
        THEN Over(c[i], Reads(g, c, n.b), n.sel)
        ELSE IF i < k THEN c[i]
        ELSE IF k \in Kept THEN Result(g, c, n, m) ELSE Empty]

\* The cells after the nodes of Kept have run in recording order.
Run(g, Kept, m) ==
    LET Ran[k \in 0..Len(g)] ==
            IF k = 0 THEN <<>> ELSE Advance(g, Kept, m, Ran[k-1], k)
    IN  Ran[Len(g)]

\* The nodes reachable backwards from From, latest first.
Reached(g, From) ==
    LET Need[k \in 0..Len(g)] ==
            IF k = 0 THEN From
            ELSE LET i == Len(g) + 1 - k IN
                 IF i \in Need[k-1]
                 THEN Need[k-1] \cup {p.node : p \in {g[i].a, g[i].b} \ {NoProxy}}
                 ELSE Need[k-1]
    IN  Need[Len(g)]

\* Fault: only what the outputs reach is kept.
PruneReachable(g, outputs) == Reached(g, outputs)

\* _prune_graph with preserve_mutations: a write through a view reaches an
\* output without a data edge, so every write is a root besides the outputs.
Mutations(g) == {i \in 1..Len(g) : g[i].op = "copy_"}
Prune(g, outputs) == Reached(g, outputs \cup Mutations(g))

Failed(kept) == \E i \in kept : graph[i].op = "failed"

-----------------------------------------------------------------------------
(* Carriers.                                                               *)

Plain(st, sel) == [kind |-> "plain", st |-> st, sel |-> sel, proxy |-> NoProxy, port |-> NoPort]
Wrap(kind, st, sel, proxy) ==
    [kind |-> kind, st |-> st, sel |-> sel, proxy |-> proxy, port |-> NoPort]
Nothing == Plain(NoStore, {})

Tracing == phase = "tracing"
Carrier(o) == obj[o].kind \in {"torch", "numpy"}
Value(o) == Only(mem[obj[o].st], obj[o].sel)
Layout(o) == <<obj[o].st, obj[o].sel>>
Layouts == Stores \X {Lead, Whole}

\* Fault: a second name for declared bytes is a second input.
DeclaredAliasNever(o) == Nobody

\* TracedTensorNode.find_declared_alias: the carrier declared for these bytes.
DeclaredAlias(o) ==
    LET c == index[Layout(o)] IN
    IF c = Nobody \/ c = o THEN Nobody
    ELSE IF Tracing /\ obj[c].port = NoPort /\ Layout(c) = Layout(o) THEN c ELSE Nobody

\* TracedData.proxy: a carrier of a replaced graph that published nothing
\* attaches to the carrier the new pass has declared for its bytes.
Handle(o) ==
    LET p == obj[o].proxy IN
    IF p.pass = pass \/ obj[o].port # NoPort \/ DeclaredAlias(o) = Nobody THEN p
    ELSE obj[DeclaredAlias(o)].proxy

\* Fault: a carrier of a replaced graph is taken for one of this graph.
StaleNever(o) == Carrier(o) /\ FALSE

\* TracedData.describes_replaced_graph.
Stale(o) == Carrier(o) /\ Handle(o).pass # pass
Fresh(o) == Carrier(o) /\ ~Stale(o)

\* clear_tracing_state on every torch carrier of a replaced graph among args.
Shed(args) ==
    [o \in Objects |-> IF o \in args /\ Stale(o) /\ obj[o].kind = "torch"
                       THEN Plain(obj[o].st, obj[o].sel) ELSE obj[o]]

\* _record_storage_layout: the node's value covers this whole allocation.
Covers(st, sel) == IF sel = Whole THEN st ELSE NoStore

\* An allocation nothing refers to, and the graph without the weak layouts
\* that died with it.
Unused(t) ==
    Stores \ ({obj[o].st : o \in Objects \ {t}}
              \cup {graph[i].st : i \in {j \in DOMAIN graph : graph[j].op = "ref"}})
Allocated(t) == IF Unused(t) = {} THEN {} ELSE {CHOOSE s \in Unused(t) : TRUE}
Forget(s) ==
    [i \in DOMAIN graph |-> IF graph[i].st = s THEN [graph[i] EXCEPT !.st = NoStore] ELSE graph[i]]
Store(s, v, sel) == [mem EXCEPT ![s] = Over(@, v, sel)]

-----------------------------------------------------------------------------
(* What the traced programs read.  Data LEAPP was not told about enters    *)
(* the graph as a constant (a documented limitation), so a program reads a *)
(* plain tensor only while it holds the same data on every run and no      *)
(* carrier of this graph shares its bytes, or did; and it writes none that *)
(* a constant refers to.  The carriers of a replaced graph count as plain. *)

Captured(o) == {i \in DOMAIN graph : graph[i].op # "ref" /\ graph[i].st = obj[o].st}
Shared(o) == Captured(o) # {} \/ \E c \in Objects \ {o} : Fresh(c) /\ obj[c].st = obj[o].st
Steady(o) == ~Shared(o) /\ \A i \in Whole : \A t \in Value(o)[i] : ~Varies(t)
Readable == {Scalar} \cup {o \in Objects : obj[o] # Nothing /\ (Fresh(o) \/ Steady(o))}
Referred(st) == \E i \in DOMAIN graph : graph[i].op = "ref" /\ graph[i].st = st
Transitable(o) ==       \* a write to bytes no other carrier has published
    "shared" \in Habits \/ \A c \in Objects \ {o} : obj[c].st = obj[o].st => obj[c].port = NoPort

Operands == Objects \cup {Scalar}
Operand(b, sel) == IF b = Scalar THEN Only(Ones, sel) ELSE Value(b)
Assignable ==
    LET old == {b \in Objects : Stale(b)}
        known == IF Tracing THEN Readable ELSE Operands
    IN  IF "stale" \in Habits THEN known \cup old ELSE known \ old
Fitting(sel) == {Scalar} \cup {b \in Objects : obj[b].sel = sel}
Alike(o) ==             \* a plain tensor may take a carrier, never an array
    LET kind == IF obj[o].kind = "plain" THEN "torch" ELSE obj[o].kind
    IN  {Scalar} \cup {b \in Objects : obj[b].kind \in {"plain", kind}}
Apart(o) == {Scalar} \cup {b \in Objects : obj[b].st # obj[o].st \/ obj[b].sel = obj[o].sel}

-----------------------------------------------------------------------------
Init ==
    /\ mem = [s \in Stores |-> [i \in Whole |-> {<<"data", s>>}]]
    /\ obj = [o \in Objects |-> IF o \in Named THEN Plain(Start[o].st, Start[o].sel) ELSE Nothing]
    /\ graph = <<>> /\ pass = 1
    /\ index = [l \in Layouts |-> Nobody]
    /\ phase = "tracing" /\ ops = 0

Busy == ops' = ops + 1
May == ops < MaxOps

(***************************************************************************)
(* TracedTensorNode.create_input, at any time while the node is traced.    *)
(* Bytes the pass has declared under another name keep their placeholder;  *)
(* anything else gets a fresh one: a plain tensor, a carrier of a replaced *)
(* graph, and with a warning a carrier of this graph or a published value. *)
(***************************************************************************)
\* _rebind_input for a carrier of this graph: every handle it had is read as
\* the new one from now on.  (The code keeps the pair in _input_rebindings and
\* TracedData.proxy follows it at the next use.)
Rebound(o, proxy) ==
    [c \in Objects |-> IF Fresh(o) /\ obj[c].proxy = Handle(o)
                       THEN [obj[c] EXCEPT !.proxy = proxy] ELSE obj[c]]

\* The program gives bytes a second placeholder ("split") if a carrier of this
\* graph that is not rebound, a view or an undeclared tensor, shares them.
Split(o) ==
    /\ obj[o].port # NoPort \/ index[Layout(o)] \in {Nobody, o}
    /\ \E c \in Objects : /\ Fresh(c) /\ obj[c].st = obj[o].st
                          /\ Fresh(o) => Handle(c) # Handle(o)

Declare(o) ==
    LET d == IF obj[o].port = NoPort THEN DeclaredAlias(o) ELSE Nobody
        g == Append(graph, FX("placeholder", NoProxy, NoProxy, obj[o].sel, Value(o),
                              Covers(obj[o].st, obj[o].sel)))
        proxy == IF d = Nobody THEN Newest(g) ELSE obj[d].proxy
        later == Fresh(o) \/ \E i \in DOMAIN graph : graph[i].op # "placeholder"
    IN  /\ Tracing /\ obj[o].st \in Live /\ (later => May)
        /\ Split(o) => "split" \in Habits
        /\ obj[o].sel = Lead => "slice" \in Habits
        /\ obj' = [Rebound(o, proxy) EXCEPT ![o] = Wrap("torch", obj[o].st, obj[o].sel, proxy)]
        /\ IF d # Nobody THEN UNCHANGED <<graph, index>>
           ELSE /\ graph' = g
                /\ index' = [index EXCEPT ![Layout(o)] = IF @ = Nobody THEN o ELSE @]
        /\ ops' = IF later THEN ops + 1 ELSE ops
        /\ UNCHANGED <<mem, pass, phase>>

\* A plain operand of a recorded call is a constant the graph holds by reference.
Given(g, b) ==
    IF b = Scalar THEN <<g, NoProxy>>
    ELSE IF Fresh(b) THEN <<g, Handle(b)>>
    ELSE LET h == Append(g, FX("ref", NoProxy, NoProxy, obj[b].sel, Empty, obj[b].st))
         IN  <<h, Newest(h)>>

\* _register_setitem_tensor: a clone of the value becomes a constant, which
\* stands for the allocation st if a plain tensor is promoted onto it.
Registered(g, v, sel, st) == Append(g, FX("const", NoProxy, NoProxy, sel, Bake(v), st))
Source(g, b, sel) ==
    IF b # Scalar /\ Carrier(b) THEN <<g, Handle(b)>>
    ELSE LET h == Registered(g, Operand(b, sel), sel, NoStore) IN <<h, Newest(h)>>

\* update_proxy: a write is recorded against the handle, which stays.
Write(g, old, new, sel) ==
    IF old.node = new.node /\ old.pass = new.pass THEN g
    ELSE Append(g, FX("copy_", old, new, sel, Empty, NoStore))

(***************************************************************************)
(* An allocating call (torch.add(o, b)): TracedTensor._record_torch_       *)
(* function.  Once every carrier among the arguments is shed, or the node  *)
(* is done, it runs natively and the result is plain.                      *)
(***************************************************************************)
Call(o, b, t) ==
    /\ May /\ Carrier(o) /\ obj[o].kind = "torch" /\ obj[o].sel = Whole
    /\ b \in Fitting(Whole) \cap Alike(o) /\ t \notin {o, b}
    /\ Tracing => {o, b} \subseteq Readable
    /\ \E s \in Allocated(t) :
         LET g == Given(Forget(s), o)
             h == Given(g[1], b)
             k == Append(h[1], FX("call", g[2], h[2], Whole, Empty, s))
         IN  IF Tracing /\ (\E c \in {o, b} \ {Scalar} : Fresh(c))
             THEN /\ graph' = k
                  /\ obj' = [Shed({o, b}) EXCEPT ![t] = Wrap("torch", s, Whole, Newest(k))]
                  /\ mem' = Store(s, Xor(Value(o), Operand(b, Whole)), Whole)
             ELSE /\ graph' = Forget(s)
                  /\ obj' = [Shed({o, b}) EXCEPT ![t] = Plain(s, Whole)]
                  /\ mem' = Store(s, Xor(Value(o), Operand(b, Whole)), Whole)
    /\ Busy /\ UNCHANGED <<pass, index, phase>>

(***************************************************************************)
(* x[:]: the same bytes, hence the same handle; NumPy records a view node. *)
(* In transit indexing returns a native alias.                             *)
(***************************************************************************)
Alias(o, t) ==
    LET g == Append(graph, FX("view", Handle(o), NoProxy, obj[o].sel, Empty, NoStore)) IN
    /\ May /\ Fresh(o) /\ t # o
    /\ IF Tracing /\ obj[o].kind = "numpy"
       THEN graph' = g /\ obj' = [obj EXCEPT ![t] = Wrap("numpy", obj[o].st, obj[o].sel, Newest(g))]
       ELSE /\ UNCHANGED graph
            /\ obj' = [obj EXCEPT ![t] = IF Tracing THEN Wrap("torch", obj[o].st, obj[o].sel, Handle(o))
                                         ELSE Plain(obj[o].st, obj[o].sel)]
    /\ Busy /\ UNCHANGED <<mem, pass, index, phase>>

\* x[:n]: a view node over the same cell.
Narrow(o, t) ==
    LET g == Append(graph, FX("view", Handle(o), NoProxy, Lead, Empty, NoStore)) IN
    /\ May /\ Fresh(o) /\ obj[o].sel = Whole /\ t # o
    /\ IF Tracing
       THEN graph' = g /\ obj' = [obj EXCEPT ![t] = Wrap(obj[o].kind, obj[o].st, Lead, Newest(g))]
       ELSE UNCHANGED graph /\ obj' = [obj EXCEPT ![t] = Plain(obj[o].st, Lead)]
    /\ Busy /\ UNCHANGED <<mem, pass, index, phase>>

(***************************************************************************)
(* x.numpy(), torch.from_numpy(x): a second carrier over the same bytes.   *)
(* It forwards the whole tracing state, the port included (preserve_port). *)
(***************************************************************************)
Convert(o, t) ==
    /\ May /\ Fresh(o)
    /\ \E kind \in {"torch", "numpy"} \ {obj[o].kind} :
          obj' = [obj EXCEPT ![t] = [Wrap(kind, obj[o].st, obj[o].sel, Handle(o))
                                       EXCEPT !.port = obj[o].port]]
    /\ Busy /\ UNCHANGED <<mem, graph, pass, index, phase>>

\* x.clone(), array.copy(): fresh bytes; in transit they keep the port.
Clone(o, t) ==
    /\ May /\ Fresh(o) /\ obj[o].sel = Whole /\ t # o
    /\ \E s \in Allocated(t) :
         LET g == Append(Forget(s), FX("clone", Handle(o), NoProxy, Whole, Empty,
                                       IF obj[o].kind = "torch" THEN s ELSE NoStore))
         IN  /\ mem' = Store(s, Value(o), Whole)
             /\ IF Tracing
                THEN graph' = g /\ obj' = [obj EXCEPT ![t] = Wrap(obj[o].kind, s, Whole, Newest(g))]
                ELSE /\ graph' = Forget(s)
                     /\ obj' = [obj EXCEPT ![t] =
                          IF obj[o].port = NoPort THEN Plain(s, Whole)
                          ELSE [Wrap(obj[o].kind, s, Whole, Handle(o)) EXCEPT !.port = obj[o].port]]
    /\ Busy /\ UNCHANGED <<pass, index, phase>>

\* A NumPy call the ATen adapter cannot lower: eager goes on, a marker keeps
\* the dependency (capture_numpy_call).
Uncaptured(o, t) ==
    /\ May /\ Tracing /\ Fresh(o) /\ obj[o].kind = "numpy" /\ obj[o].sel = Whole
    /\ \E s \in Allocated(t) \ {obj[o].st} :
         LET g == Append(Forget(s), FX("failed", Handle(o), NoProxy, Whole, Empty, NoStore))
         IN  /\ graph' = g
             /\ obj' = [obj EXCEPT ![t] = Wrap("numpy", s, Whole, Newest(g))]
             /\ mem' = Store(s, Xor(Value(o), Ones), Whole)
    /\ Busy /\ UNCHANGED <<pass, index, phase>>

(***************************************************************************)
(* x.add_(b), x += b (_apply_inplace): eager writes the bytes; the         *)
(* allocating form is recorded from the handle and copied into it.  A      *)
(* plain receiver is promoted first, its value a constant                  *)
(* (_handle_functional_inplace).                                           *)
(***************************************************************************)
\* Fault: the result is recorded and not written back.
LoweredUnwritten(g, o, b, handle) ==
    LET h == Given(g, b)
    IN  Append(h[1], FX("call", handle, h[2], obj[o].sel, Empty, NoStore))

Lowered(g, o, b, handle) ==
    LET h == Given(g, b)
        k == Append(h[1], FX("call", handle, h[2], obj[o].sel, Empty, NoStore))
    IN  Write(k, handle, Newest(k), obj[o].sel)

InPlace(o, b) ==
    LET sel == obj[o].sel
        g == Registered(graph, Value(o), sel, Covers(obj[o].st, sel))
        made == Wrap("torch", obj[o].st, sel, Newest(g))
    IN  /\ May /\ obj[o] # Nothing /\ b \in Fitting(sel) \cap Alike(o) \cap Apart(o)
        /\ ~Referred(obj[o].st)
        /\ Tracing => b \in Readable
        /\ Transitable(o)
        /\ \/ /\ Fresh(o)
              /\ graph' = IF Tracing THEN Lowered(graph, o, b, Handle(o)) ELSE graph
              /\ obj' = [Shed(IF Tracing THEN {b} ELSE {})
                           EXCEPT ![o].port = NoPort, ![o].proxy = Handle(o)]
           \/ /\ ~Fresh(o) /\ obj[o].kind # "numpy" /\ b # Scalar /\ Fresh(b)
              /\ Tracing => o \in Readable \/ ("bare" \in Habits /\ Shared(o))
              /\ graph' = IF Tracing THEN Lowered(g, o, b, Newest(g)) ELSE g
              /\ obj' = [obj EXCEPT ![o] = made]
        /\ mem' = Store(obj[o].st, Xor(Value(o), Operand(b, sel)), sel)
        /\ Busy /\ UNCHANGED <<pass, index, phase>>

(***************************************************************************)
(* x[key] = b and x.copy_(b) on a carrier.  An alias assigned to itself    *)
(* records nothing; anything else is one functional index_put over the     *)
(* whole tensor, written back.  In transit a full write of a published     *)
(* value adopts its port, any other write drops the port (overwrite_port). *)
(***************************************************************************)
Assigned(g, o, b, key, handle) ==
    LET h == Source(g, b, key)
        k == Append(h[1], FX("put", handle, h[2], obj[o].sel, Empty, NoStore))
    IN  IF key = obj[o].sel /\ h[2] = handle THEN h[1]
        ELSE Write(k, handle, Newest(k), obj[o].sel)

\* Fault: a write of a part publishes the whole.
OverwritePortPartly(o, b, key) ==
    IF b # Scalar /\ obj[b].port # NoPort
    THEN [obj[o] EXCEPT !.port = obj[b].port, !.proxy = Handle(b)]
    ELSE [obj[o] EXCEPT !.port = NoPort]

OverwritePort(o, b, key) ==
    IF b # Scalar /\ obj[b].port # NoPort /\ key = obj[o].sel
    THEN [obj[o] EXCEPT !.port = obj[b].port, !.proxy = Handle(b)]
    ELSE [obj[o] EXCEPT !.port = NoPort]

Assign(o, b, key) ==
    /\ May /\ Fresh(o) /\ key \subseteq obj[o].sel
    /\ b \in Fitting(key) \cap Alike(o) \cap Apart(o) /\ ~Referred(obj[o].st)
    /\ b \in Assignable
    /\ Transitable(o)
    /\ graph' = IF Tracing THEN Assigned(graph, o, b, key, Handle(o)) ELSE graph
    /\ obj' = [obj EXCEPT ![o] = IF Tracing THEN [@ EXCEPT !.proxy = Handle(o), !.port = NoPort]
                                 ELSE OverwritePort(o, b, key)]
    /\ mem' = Store(obj[o].st, Operand(b, key), key)
    /\ Busy /\ UNCHANGED <<pass, index, phase>>

(***************************************************************************)
(* The same on a plain torch tensor (or a carrier of a replaced graph,     *)
(* which is shed first): _handle_plain_assignment promotes it, onto the    *)
(* handle of the captured value with the same bytes if there is one.       *)
(* Shared bytes without a captured view are refused before any write.      *)
(***************************************************************************)
Refused == [pass |-> -1, node |-> 0]

PlainDestination(o, b) ==
    IF ~Tracing THEN NoProxy
    ELSE IF Layout(o) = Layout(b) THEN Handle(b)
    ELSE IF DeclaredAlias(o) # Nobody THEN obj[DeclaredAlias(o)].proxy
    ELSE IF Captured(o) # {}
         THEN IF obj[o].sel = Whole THEN [pass |-> pass, node |-> Min(Captured(o))] ELSE Refused
    ELSE IF obj[b].st = obj[o].st THEN Refused
    ELSE NoProxy

AssignPlain(o, b, key) ==
    LET sel == obj[o].sel
        full == key = sel
        known == PlainDestination(o, b)
        blank == Append(graph, FX("empty_strided", NoProxy, NoProxy, sel, Empty, Covers(obj[o].st, sel)))
        kept == Registered(graph, Value(o), sel, Covers(obj[o].st, sel))
        g == IF known # NoProxy THEN graph ELSE IF ~full THEN kept ELSE IF Tracing THEN blank ELSE graph
        proxy == IF known # NoProxy THEN known
                 ELSE IF ~full \/ Tracing THEN Newest(g) ELSE Handle(b)
    IN  /\ May /\ obj[o] # Nothing /\ ~Fresh(o) /\ obj[o].kind # "numpy"
        /\ b # Scalar /\ Fresh(b) /\ obj[b].kind = "torch" /\ obj[b].sel = key /\ key \subseteq sel
        /\ ~Referred(obj[o].st)
        /\ known # Refused
        /\ Tracing => full \/ known # NoProxy \/ o \in Readable
        /\ Tracing /\ known = NoProxy => "slice" \in Habits \/ ~Shared(o)
        /\ Transitable(o)
        /\ graph' = IF ~Tracing THEN g
                    ELSE IF full THEN Write(g, proxy, Handle(b), sel)
                    ELSE Assigned(g, o, b, key, proxy)
        /\ obj' = [obj EXCEPT ![o] = [Wrap("torch", @.st, sel, proxy)
                                        EXCEPT !.port = IF full THEN obj[b].port ELSE NoPort]]
        /\ mem' = Store(obj[o].st, Value(b), key)
        /\ Busy /\ UNCHANGED <<pass, index, phase>>

(***************************************************************************)
(* output_tensors (compile_trace, build_graph_module): what the outputs do *)
(* not need is pruned, the writes are functionalized (external, and taken  *)
(* to preserve meaning), and every output carrier gets its port.  A failed *)
(* capture among the nodes kept refuses the export, and so does an output  *)
(* whose bytes a declared input still in use represents by another root.   *)
(***************************************************************************)
OneRoot(o, kept) ==
    LET declared == index[Layout(o)] IN
    declared # Nobody => \/ Handle(declared).node \in Reached(graph, {Handle(o).node})
                         \/ Handle(declared).node \notin kept

Output(O) ==
    /\ Tracing /\ Cardinality(O) \in 1..MaxOutputs /\ \A o \in O : Fresh(o)
    /\ LET kept == Prune(graph, {Handle(o).node : o \in O})
       IN  ~Failed(kept) /\ \A o \in O : OneRoot(o, kept)
    /\ obj' = [o \in Objects |-> IF o \in O THEN [obj[o] EXCEPT !.port = Value(o), !.proxy = Handle(o)]
                                 ELSE obj[o]]
    /\ phase' = "done"
    /\ UNCHANGED <<mem, graph, pass, index, ops>>

\* Fault: the layouts outlive the graph.
Remembered(declared) == declared

Forgotten(declared) == [l \in Layouts |-> Nobody]

\* prepare_warp_capture, reset_trace_state: the node gets a new graph.  NumPy
\* arrays of the old pass are not used again (they are never shed).
ReplaceGraph ==
    /\ phase = "done" /\ pass < MaxPasses
    /\ graph' = <<>> /\ pass' = pass + 1 /\ phase' = "tracing"
    /\ index' = Forgotten(index)
    /\ obj' = [o \in Objects |-> IF obj[o].kind = "numpy" THEN Nothing ELSE obj[o]]
    /\ UNCHANGED <<mem, ops>>

Next ==
    \/ \E o \in Named : Declare(o)
    \/ \E o \in Objects, b \in Operands, t \in Temps : Call(o, b, t)
    \/ \E o \in Objects, t \in Temps :
          Alias(o, t) \/ Narrow(o, t) \/ Convert(o, t) \/ Clone(o, t) \/ Uncaptured(o, t)
    \/ \E o \in Objects, b \in Operands : InPlace(o, b)
    \/ \E o \in Objects, b \in Operands, key \in {Lead, Whole} : Assign(o, b, key)
    \/ \E o \in Objects, b \in Objects, key \in {Lead, Whole} : AssignPlain(o, b, key)
    \/ \E O \in SUBSET Objects : Output(O)
    \/ ReplaceGraph

Spec == Init /\ [][Next]_vars

-----------------------------------------------------------------------------
(* Properties.                                                             *)

\* Every variable refers to a storage or nothing, every proxy of a carrier to
\* a recorded FX node, and the arguments of a node were recorded before it.
TypeOK ==
    /\ phase \in {"tracing", "done"} /\ pass \in 1..MaxPasses
    /\ \A o \in Objects : obj[o] = Nothing \/ (obj[o].st \in Stores /\ obj[o].sel \in {Lead, Whole})
    /\ \A o \in Objects : Carrier(o) => Handle(o).pass \in 1..pass
    /\ \A o \in Objects : Fresh(o) => graph[Handle(o).node].sel = obj[o].sel
    /\ \A l \in Layouts : Tracing /\ index[l] # Nobody => Carrier(index[l]) /\ Layout(index[l]) = l

\* The graph built so far computes, for data that differs from the traced
\* run's, what the eager program holds: for every carrier of this pass, aliases
\* and views written through one another included, unless it depends on a
\* capture LEAPP knows has failed.
TraceFaithful ==
    LET cell == CellOf(graph)
        computed == Run(graph, DOMAIN graph, mem)
    IN  Tracing => \A o \in Objects : Fresh(o) =>
          \/ Failed(Prune(graph, {Handle(o).node}))
          \/ Only(computed[cell[Handle(o).node]], obj[o].sel) = Value(o)

\* Whichever carrier is declared an output next, what is left of the graph
\* after pruning computes what eager computed for it (_prune_graph: a write an
\* output depends on through a view is kept, a failed capture is not exported).
\* The nodes kept for several outputs are the union of those kept for each.
OutputFaithful ==
    LET cell == CellOf(graph)
        Pruned(o) == Prune(graph, {Handle(o).node})
    IN  Tracing => \A o \in Objects : Fresh(o) /\ ~Failed(Pruned(o)) =>
          Only(Run(graph, Pruned(o), mem)[cell[Handle(o).node]], obj[o].sel) = Value(o)

\* No FX node of a replaced graph is an argument in the new one
\* (describes_replaced_graph).
GraphClosed ==
    \A i \in DOMAIN graph : \A p \in {graph[i].a, graph[i].b} \ {NoProxy} :
        p.pass = pass /\ p.node < i

\* A value that carries the port of an output still holds what was published
\* there, so the edge drawn from it is a true one (overwrite_port).
PortTruthful == \A o \in Objects : obj[o].port # NoPort => obj[o].port = Value(o)

\* Carriers of this graph are aliases in it exactly if they are in memory: what
\* the program writes through one reaches the others, however the names came to
\* share bytes, declared again included (find_declared_alias, _rebind_input,
\* _plain_destination_proxy).
AliasesShareCells ==
    LET cell == CellOf(graph)
    IN  Tracing => \A c, d \in Objects : Fresh(c) /\ Fresh(d) =>
          (obj[c].st = obj[d].st <=> cell[Handle(c).node] = cell[Handle(d).node])
=============================================================================
