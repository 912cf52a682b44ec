----------------------- MODULE TracedCarriers_proofs -----------------------
(***************************************************************************)
(* Proofs about TracedCarriers for any variables, allocations and habits   *)
(* of the traced program: the FX graph only refers to itself, a carrier    *)
(* with an output's port holds its value, carriers are aliases in the      *)
(* graph exactly if they are in memory, and the graph, whole or pruned for *)
(* an output, computes what the program does.  CarrierInv is the inductive *)
(* invariant of the first half, and FaithInv, the graph mirrors the        *)
(* memory, is added to it in the second.                                   *)
(***************************************************************************)
EXTENDS TracedCarriers, WellFoundedInduction, TLAPS

-----------------------------------------------------------------------------
(* Types                                                                   *)

Tokens   == {One} \cup ({"data", "baked"} \X Stores)
Contents == [Whole -> SUBSET Tokens]
Proxies  == [pass : Nat, node : Nat]
FXNodes  == [op : {"placeholder", "ref", "const", "call", "view", "clone", "put",
                   "copy_", "failed", "empty_strided"},
             a : Proxies, b : Proxies, sel : {Lead, Whole}, val : Contents,
             st : Stores \cup {NoStore}]
Variables == [kind : {"plain", "torch", "numpy"}, st : Stores \cup {NoStore},
              sel : {{}, Lead, Whole}, proxy : Proxies,
              port : Contents \cup {NoPort}]

LEMMA Parts == Lead # Whole /\ Lead # {} /\ Whole # {} /\ Lead \subseteq Whole
BY DEF Lead, Whole

LEMMA ContentsType ==
    /\ Ones \in Contents /\ Empty \in Contents
    /\ \A v \in Contents : Bake(v) \in Contents
    /\ \A v, w \in Contents : Xor(v, w) \in Contents
    /\ \A v \in Contents : \A sel : Only(v, sel) \in Contents
    /\ \A v, w \in Contents : \A sel : Over(v, w, sel) \in Contents
<1>1. Ones \in Contents /\ Empty \in Contents
  BY DEF Ones, Empty, Contents, Tokens
<1>2. ASSUME NEW v \in Contents PROVE Bake(v) \in Contents
  <2>1. \A t \in Tokens : (IF Varies(t) THEN <<"baked", t[2]>> ELSE t) \in Tokens
    BY DEF Tokens, Varies, One
  <2> QED BY <2>1 DEF Bake, Contents
<1>3. \A v, w \in Contents : Xor(v, w) \in Contents
  BY DEF Xor, Contents
<1>4. \A v \in Contents : \A sel : Only(v, sel) \in Contents
  BY DEF Only, Contents
<1>5. \A v, w \in Contents : \A sel : Over(v, w, sel) \in Contents
  BY DEF Over, Contents
<1> QED BY <1>1, <1>2, <1>3, <1>4, <1>5

LEMMA NoProxyType == NoProxy \in Proxies
BY DEF NoProxy, Proxies

-----------------------------------------------------------------------------
(* Graphs: a proxy p names a node of pass q, for the parts sel             *)

Known(g, p, sel, q) == p.pass = q /\ p.node \in DOMAIN g /\ g[p.node].sel = sel
Argument(g, p, q)   == p = NoProxy \/ (p.pass = q /\ p.node \in DOMAIN g)

\* Recorded nodes have their type, and a node that stands for a whole
\* allocation has the whole of it.
Sound(g) ==
    /\ g \in Seq(FXNodes)
    /\ \A i \in DOMAIN g : g[i].op # "ref" /\ g[i].st # NoStore => g[i].sel = Whole

Closed(g, q) ==
    \A i \in DOMAIN g : \A p \in {g[i].a, g[i].b} \ {NoProxy} :
        p.pass = q /\ p.node < i

\* h is g with more nodes; the layout of some nodes may have died.
Extends(g, h) ==
    /\ DOMAIN g \subseteq DOMAIN h
    /\ \A i \in DOMAIN g : h[i].sel = g[i].sel

LEMMA ExtendsTransitive ==
    ASSUME NEW g, NEW h, NEW k, Extends(g, h), Extends(h, k) PROVE Extends(g, k)
BY DEF Extends

LEMMA ExtendsSelf == ASSUME NEW g PROVE Extends(g, g)
BY DEF Extends

LEMMA ExtendsKnows ==
    ASSUME NEW g, NEW h, Extends(g, h), NEW p, NEW sel, NEW q
    PROVE  /\ Known(g, p, sel, q) => Known(h, p, sel, q)
           /\ Argument(g, p, q) => Argument(h, p, q)
BY DEF Extends, Known, Argument

LEMMA KnownArgument ==
    ASSUME NEW g, NEW p, NEW sel, NEW q, Known(g, p, sel, q)
    PROVE  Argument(g, p, q)
BY DEF Known, Argument

LEMMA AppendFacts ==
    ASSUME NEW S, NEW g \in Seq(S), NEW n \in S
    PROVE  /\ Append(g, n) \in Seq(S)
           /\ DOMAIN g = 1 .. Len(g) /\ Len(g) \in Nat
           /\ DOMAIN Append(g, n) = DOMAIN g \cup {Len(g) + 1}
           /\ Len(Append(g, n)) = Len(g) + 1
           /\ \A i \in DOMAIN g : Append(g, n)[i] = g[i]
           /\ Append(g, n)[Len(g) + 1] = n
OBVIOUS

LEMMA FXType ==
    ASSUME NEW op \in {"placeholder", "ref", "const", "call", "view", "clone",
                       "put", "copy_", "failed", "empty_strided"},
           NEW a \in Proxies, NEW b \in Proxies, NEW sel \in {Lead, Whole},
           NEW val \in Contents, NEW st \in Stores \cup {NoStore}
    PROVE  FX(op, a, b, sel, val, st) \in FXNodes
BY DEF FX, FXNodes

\* One more node: an input, a computing one, a view, a constant or a write.
LEMMA Recorded ==
    ASSUME NEW g, Sound(g), pass \in Nat, NEW n \in FXNodes,
           n.op # "ref" /\ n.st # NoStore => n.sel = Whole
    PROVE  /\ Sound(Append(g, n))
           /\ Extends(g, Append(g, n))
           /\ Known(Append(g, n), Newest(Append(g, n)), n.sel, pass)
           /\ Newest(Append(g, n)) \in Proxies
           /\ Closed(g, pass) /\ Argument(g, n.a, pass) /\ Argument(g, n.b, pass)
                => Closed(Append(g, n), pass)
<1> DEFINE h == Append(g, n)
<1>1. g \in Seq(FXNodes)
  BY DEF Sound
<1>2. /\ h \in Seq(FXNodes)
      /\ DOMAIN g = 1 .. Len(g) /\ Len(g) \in Nat
      /\ DOMAIN h = DOMAIN g \cup {Len(g) + 1}
      /\ Len(h) = Len(g) + 1
      /\ \A i \in DOMAIN g : h[i] = g[i]
      /\ h[Len(g) + 1] = n
  BY <1>1, AppendFacts
<1>3. Newest(h) = [pass |-> pass, node |-> Len(g) + 1]
  BY <1>2 DEF Newest
<1> HIDE DEF h
<1>4. Sound(h)
  BY <1>2 DEF Sound
<1>5. Extends(g, h)
  BY <1>2 DEF Extends
<1>6. Known(h, Newest(h), n.sel, pass) /\ Newest(h) \in Proxies
  BY <1>2, <1>3 DEF Known, Proxies
<1>7. ASSUME Closed(g, pass), Argument(g, n.a, pass), Argument(g, n.b, pass)
      PROVE  Closed(h, pass)
  <2> SUFFICES ASSUME NEW i \in DOMAIN h, NEW p \in {h[i].a, h[i].b} \ {NoProxy}
               PROVE  p.pass = pass /\ p.node < i
    BY DEF Closed
  <2>1. CASE i \in DOMAIN g
    BY <1>2, <1>7, <2>1 DEF Closed
  <2>2. CASE i = Len(g) + 1
    <3>1. p.pass = pass /\ p.node \in DOMAIN g
      BY <1>2, <1>7, <2>2 DEF Argument
    <3> QED BY <1>2, <2>2, <3>1
  <2> QED BY <1>2, <2>1, <2>2
<1> QED BY <1>4, <1>5, <1>6, <1>7 DEF h

-----------------------------------------------------------------------------
(* The invariant                                                           *)

\* What a program variable of pass q may refer to: a carrier of this pass
\* has a recorded proxy for the very parts it covers.
Variable(r, g, q) ==
    /\ r \in Variables
    /\ r = Nothing \/ (r.st \in Stores /\ r.sel \in {Lead, Whole})
    /\ r.kind = "plain" => r.port = NoPort
    /\ r.kind # "plain" => /\ r.st # NoStore
                           /\ r.proxy.pass \in 1 .. q
                           /\ r.proxy.pass = q => Known(g, r.proxy, r.sel, q)

\* The carrier declared for layout l: one of this pass, not an output.
Declared(r, l, q) ==
    r.kind # "plain" /\ r.proxy.pass = q /\ r.port = NoPort /\ <<r.st, r.sel>> = l

IndexInv ==
    /\ index \in [Layouts -> Named \cup {Nobody}]
    /\ Tracing => \A l \in Layouts :
          index[l] # Nobody => Declared(obj[index[l]], l, pass)

CarrierInv ==
    /\ phase \in {"tracing", "done"} /\ pass \in 1 .. MaxPasses
    /\ mem \in [Stores -> Contents]
    /\ Sound(graph)
    /\ obj \in [Objects -> Variables]
    /\ \A o \in Objects : Variable(obj[o], graph, pass)
    /\ IndexInv

LEMMA PassType == CarrierInv => pass \in Nat \ {0}
BY CarrierAssumption DEF CarrierInv

LEMMA PlainOK ==
    ASSUME NEW st \in Stores, NEW sel \in {Lead, Whole}, NEW g, NEW q
    PROVE  Variable(Plain(st, sel), g, q)
BY NoProxyType DEF Plain, Variable, Variables

LEMMA NothingOK == ASSUME NEW g, NEW q PROVE Variable(Nothing, g, q)
BY NoProxyType DEF Nothing, Plain, Variable, Variables

LEMMA StaysOK ==
    ASSUME NEW g, NEW h, Extends(g, h), NEW r, NEW q, Variable(r, g, q)
    PROVE  Variable(r, h, q)
BY ExtendsKnows DEF Variable

-----------------------------------------------------------------------------
(* Handles                                                                 *)

LEMMA ObjectFacts ==
    ASSUME CarrierInv, NEW o \in Objects
    PROVE  /\ obj[o] \in Variables /\ Variable(obj[o], graph, pass)
           /\ obj[o].port \in Contents \cup {NoPort}
           /\ obj[o] # Nothing => obj[o].st \in Stores /\ obj[o].sel \in {Lead, Whole}
           /\ obj[o].st \in Stores => Layout(o) \in Layouts /\ Value(o) \in Contents
           /\ Carrier(o) => /\ obj[o].st \in Stores /\ obj[o].sel \in {Lead, Whole}
                            /\ obj[o] # Nothing /\ obj[o].kind \in {"torch", "numpy"}
           /\ ~Carrier(o) => obj[o].kind = "plain" /\ obj[o].port = NoPort
<1>1. obj[o] \in Variables /\ Variable(obj[o], graph, pass)
  BY DEF CarrierInv
<1>2. /\ obj[o].kind \in {"plain", "torch", "numpy"}
      /\ obj[o].port \in Contents \cup {NoPort}
      /\ obj[o] # Nothing => obj[o].st \in Stores /\ obj[o].sel \in {Lead, Whole}
  BY <1>1 DEF Variables, Variable
<1>3. Carrier(o) => obj[o] # Nothing
  BY DEF Carrier, Nothing, Plain
<1>4. ~Carrier(o) => obj[o].kind = "plain" /\ obj[o].port = NoPort
  BY <1>1, <1>2 DEF Carrier, Variable
<1>5. ASSUME obj[o].st \in Stores PROVE Layout(o) \in Layouts /\ Value(o) \in Contents
  <2>1. obj[o] # Nothing
    BY <1>5, CarrierAssumption DEF Nothing, Plain
  <2>2. mem[obj[o].st] \in Contents
    BY <1>5 DEF CarrierInv
  <2> QED BY <1>2, <1>5, <2>1, <2>2, ContentsType DEF Layout, Layouts, Value
<1> QED BY <1>1, <1>2, <1>3, <1>4, <1>5 DEF Carrier

\* The carrier of the same bytes a carrier attaches to is one of this pass.
LEMMA AliasFacts ==
    ASSUME CarrierInv, NEW o \in Objects, obj[o].st \in Stores,
           DeclaredAlias(o) # Nobody
    PROVE  /\ DeclaredAlias(o) \in Named
           /\ obj[DeclaredAlias(o)].proxy \in Proxies
           /\ Known(graph, obj[DeclaredAlias(o)].proxy, obj[o].sel, pass)
<1> DEFINE c == index[Layout(o)]
<1>1. Layout(o) \in Layouts
  BY ObjectFacts
<1>2. c # Nobody /\ Tracing /\ DeclaredAlias(o) = c
  BY DEF DeclaredAlias
<1>3. c \in Named /\ Declared(obj[c], Layout(o), pass)
  BY <1>1, <1>2 DEF CarrierInv, IndexInv
<1>4. Variable(obj[c], graph, pass) /\ obj[c].proxy.pass = pass /\ obj[c].sel = obj[o].sel
  BY <1>3 DEF CarrierInv, Objects, Declared, Layout
<1> HIDE DEF c
<1> QED BY <1>2, <1>3, <1>4 DEF Variable, Variables, Declared

LEMMA HandleFacts ==
    ASSUME CarrierInv, NEW o \in Objects, Carrier(o)
    PROVE  /\ Handle(o) \in Proxies
           /\ Handle(o).pass \in 1 .. pass
           /\ Fresh(o) => Known(graph, Handle(o), obj[o].sel, pass)
           /\ obj[o].proxy.pass = pass => Fresh(o) /\ Handle(o) = obj[o].proxy
           /\ Stale(o) => obj[o].proxy.pass # pass
<1>1. pass \in Nat \ {0}
  BY PassType
<1>2. obj[o].st \in Stores /\ Variable(obj[o], graph, pass) /\ obj[o].kind # "plain"
  BY ObjectFacts
<1>3. /\ obj[o].proxy \in Proxies /\ obj[o].proxy.pass \in 1 .. pass
      /\ obj[o].proxy.pass = pass => Known(graph, obj[o].proxy, obj[o].sel, pass)
  BY <1>2 DEF Variable, Variables
<1>4. \/ Handle(o) = obj[o].proxy
      \/ obj[o].proxy.pass # pass /\ DeclaredAlias(o) # Nobody
         /\ Handle(o) = obj[DeclaredAlias(o)].proxy
  BY DEF Handle
<1>5. CASE Handle(o) = obj[o].proxy
  BY <1>3, <1>5 DEF Fresh, Stale
<1>6. CASE /\ obj[o].proxy.pass # pass /\ DeclaredAlias(o) # Nobody
           /\ Handle(o) = obj[DeclaredAlias(o)].proxy
  <2>1. Handle(o) \in Proxies /\ Known(graph, Handle(o), obj[o].sel, pass)
    BY <1>2, <1>6, AliasFacts
  <2> QED BY <1>1, <1>6, <2>1 DEF Known, Stale
<1> QED BY <1>4, <1>5, <1>6

-----------------------------------------------------------------------------
(* Least numbers                                                           *)

LEMMA Least ==
    ASSUME NEW S, S \subseteq Nat, S # {}
    PROVE  \E x \in S : \A y \in S : x =< y
<1> DEFINE R == {ss \in Nat \X Nat : ss[1] < ss[2]}
<1>1. IsWellFoundedOn(R, Nat)
  BY NatLessThanWellFounded DEF OpToRel
<1>2. \E x \in S : \A y \in S : ~ (<<y, x>> \in R)
  <2> HIDE DEF R
  <2> QED BY <1>1, WFMin
<1>3. PICK x \in S : \A y \in S : <<y, x>> \notin R
  BY <1>2
<1>4. ASSUME NEW y \in S PROVE x =< y
  <2>1. x \in Nat /\ y \in Nat /\ <<y, x>> \notin R
    BY <1>3
  <2> QED BY <2>1
<1> QED BY <1>4

LEMMA LeastNode == ASSUME NEW S, S \subseteq Nat, S # {} PROVE Min(S) \in S
BY Least DEF Min

-----------------------------------------------------------------------------
(* Recording                                                               *)

\* What the graph may become in a step that keeps the pass.  Whether its
\* nodes only refer to this pass depends on the program: see GraphClosed.
Grown(g) ==
    /\ Sound(g) /\ Extends(graph, g)
    /\ "stale" \notin Habits /\ Closed(graph, pass) => Closed(g, pass)

LEMMA GraphGrown == CarrierInv => Grown(graph)
BY ExtendsSelf DEF CarrierInv, Grown

LEMMA ForgetGrown ==
    ASSUME CarrierInv, NEW s \in Stores PROVE Grown(Forget(s))
<1> DEFINE h == Forget(s)
<1>1. graph \in Seq(FXNodes) /\ Sound(graph)
  BY DEF CarrierInv, Sound
<1>2. /\ h = [i \in DOMAIN graph |-> IF graph[i].st = s
                   THEN [graph[i] EXCEPT !.st = NoStore] ELSE graph[i]]
  BY DEF Forget
<1>3. \A n \in FXNodes :
         /\ [n EXCEPT !.st = NoStore] \in FXNodes
         /\ [n EXCEPT !.st = NoStore].st = NoStore
         /\ [n EXCEPT !.st = NoStore].op = n.op
         /\ [n EXCEPT !.st = NoStore].sel = n.sel
         /\ [n EXCEPT !.st = NoStore].a = n.a
         /\ [n EXCEPT !.st = NoStore].b = n.b
  BY DEF FXNodes
<1>4. /\ DOMAIN h = DOMAIN graph
      /\ \A i \in DOMAIN graph :
            /\ h[i] \in FXNodes
            /\ h[i].st \in {graph[i].st, NoStore}
            /\ h[i].op = graph[i].op /\ h[i].sel = graph[i].sel
            /\ h[i].a = graph[i].a /\ h[i].b = graph[i].b
  <2> HIDE DEF h
  <2>1. \A i \in DOMAIN graph : graph[i] \in FXNodes
    BY <1>1
  <2> QED BY <1>2, <1>3, <2>1
<1> HIDE DEF h
<1>5. h \in Seq(FXNodes)
  <2>1. DOMAIN h = 1 .. Len(graph) /\ Len(graph) \in Nat
    BY <1>1, <1>4
  <2>2. h = [i \in 1 .. Len(graph) |-> h[i]]
    BY <1>2, <1>4, <2>1
  <2>3. h \in [1 .. Len(graph) -> FXNodes]
    BY <1>4, <2>1, <2>2
  <2> QED BY <2>1, <2>3
<1>6. Sound(h) /\ Extends(graph, h)
  BY <1>1, <1>4, <1>5 DEF Sound, Extends
<1>7. Closed(graph, pass) => Closed(h, pass)
  BY <1>4 DEF Closed
<1> QED BY <1>6, <1>7 DEF Grown, h

LEMMA RecordGrown ==
    ASSUME CarrierInv, NEW g, Grown(g), NEW n \in FXNodes,
           n.op # "ref" /\ n.st # NoStore => n.sel = Whole,
           "stale" \notin Habits => Argument(g, n.a, pass) /\ Argument(g, n.b, pass)
    PROVE  /\ Grown(Append(g, n)) /\ Extends(g, Append(g, n))
           /\ Known(Append(g, n), Newest(Append(g, n)), n.sel, pass)
           /\ Newest(Append(g, n)) \in Proxies
BY PassType, Recorded, ExtendsTransitive DEF Grown

LEMMA NoArgument == ASSUME NEW g, NEW q PROVE Argument(g, NoProxy, q)
BY DEF Argument

\* An operand that is a number or refers to something.
Something(b) == b = Scalar \/ (b \in Objects /\ obj[b] # Nothing)

LEMMA OperandType ==
    ASSUME CarrierInv, NEW b, Something(b), NEW sel
    PROVE  Operand(b, sel) \in Contents
BY ObjectFacts, ContentsType DEF Something, Operand

LEMMA GivenGrown ==
    ASSUME CarrierInv, NEW g, Grown(g), NEW b, Something(b)
    PROVE  /\ Grown(Given(g, b)[1]) /\ Extends(g, Given(g, b)[1])
           /\ Given(g, b)[2] \in Proxies
           /\ Argument(Given(g, b)[1], Given(g, b)[2], pass)
<1>1. CASE b = Scalar
  BY <1>1, NoProxyType, NoArgument, ExtendsSelf DEF Given
<1>2. CASE b # Scalar /\ Fresh(b)
  <2>1. Given(g, b) = <<g, Handle(b)>>
    BY <1>2 DEF Given
  <2>2. Handle(b) \in Proxies /\ Known(graph, Handle(b), obj[b].sel, pass)
    BY <1>2, HandleFacts DEF Something, Fresh
  <2>3. Known(g, Handle(b), obj[b].sel, pass)
    BY <2>2, ExtendsKnows DEF Grown
  <2> QED BY <2>1, <2>2, <2>3, KnownArgument, ExtendsSelf
<1>3. CASE b # Scalar /\ ~Fresh(b)
  <2> DEFINE n == FX("ref", NoProxy, NoProxy, obj[b].sel, Empty, obj[b].st)
  <2>1. Given(g, b) = <<Append(g, n), Newest(Append(g, n))>>
    BY <1>3 DEF Given
  <2>2. b \in Objects /\ obj[b].st \in Stores /\ obj[b].sel \in {Lead, Whole}
    BY <1>3, ObjectFacts DEF Something
  <2>3. n \in FXNodes
    BY <2>2, FXType, NoProxyType, ContentsType
  <2>4. n.op = "ref" /\ n.a = NoProxy /\ n.b = NoProxy
    BY DEF FX
  <2> HIDE DEF n
  <2>5. /\ Grown(Append(g, n)) /\ Extends(g, Append(g, n))
        /\ Known(Append(g, n), Newest(Append(g, n)), n.sel, pass)
        /\ Newest(Append(g, n)) \in Proxies
    BY <2>3, <2>4, NoArgument, RecordGrown
  <2> QED BY <2>1, <2>5, KnownArgument
<1> QED BY <1>1, <1>2, <1>3

LEMMA CoversType ==
    ASSUME NEW st \in Stores, NEW sel
    PROVE  /\ Covers(st, sel) \in Stores \cup {NoStore}
           /\ Covers(st, sel) # NoStore => sel = Whole
           /\ sel = Whole => Covers(st, sel) = st
BY DEF Covers

LEMMA RegisteredGrown ==
    ASSUME CarrierInv, NEW g, Grown(g), NEW v \in Contents, NEW sel \in {Lead, Whole},
           NEW st \in Stores \cup {NoStore}, st # NoStore => sel = Whole
    PROVE  LET h == Registered(g, v, sel, st)
           IN  /\ Grown(h) /\ Extends(g, h)
               /\ Known(h, Newest(h), sel, pass) /\ Newest(h) \in Proxies
<1> DEFINE n == FX("const", NoProxy, NoProxy, sel, Bake(v), st)
<1>1. n \in FXNodes
  BY FXType, NoProxyType, ContentsType
<1>2. n.op = "const" /\ n.a = NoProxy /\ n.b = NoProxy /\ n.st = st /\ n.sel = sel
  BY DEF FX
<1>3. Registered(g, v, sel, st) = Append(g, n)
  BY DEF Registered
<1> HIDE DEF n
<1> QED BY <1>1, <1>2, <1>3, NoArgument, RecordGrown

\* The value written to a part: a carrier of a replaced graph brings a proxy
\* of that graph only into the programs that assign stale values.
LEMMA SourceGrown ==
    ASSUME CarrierInv, NEW g, Grown(g), NEW b, Something(b), NEW sel \in {Lead, Whole},
           "stale" \notin Habits /\ b # Scalar => ~Stale(b)
    PROVE  /\ Grown(Source(g, b, sel)[1]) /\ Extends(g, Source(g, b, sel)[1])
           /\ Source(g, b, sel)[2] \in Proxies
           /\ "stale" \notin Habits =>
                 Argument(Source(g, b, sel)[1], Source(g, b, sel)[2], pass)
<1>1. CASE b # Scalar /\ Carrier(b)
  <2>1. Source(g, b, sel) = <<g, Handle(b)>>
    BY <1>1 DEF Source
  <2>2. /\ Handle(b) \in Proxies
        /\ "stale" \notin Habits => Known(graph, Handle(b), obj[b].sel, pass)
    BY <1>1, HandleFacts DEF Something, Fresh
  <2>3. "stale" \notin Habits => Known(g, Handle(b), obj[b].sel, pass)
    BY <2>2, ExtendsKnows DEF Grown
  <2> QED BY <2>1, <2>2, <2>3, KnownArgument, ExtendsSelf
<1>2. CASE ~(b # Scalar /\ Carrier(b))
  <2> DEFINE h == Registered(g, Operand(b, sel), sel, NoStore)
  <2>1. Source(g, b, sel) = <<h, Newest(h)>>
    BY <1>2 DEF Source
  <2>2. Operand(b, sel) \in Contents
    BY OperandType
  <2>3. Grown(h) /\ Extends(g, h) /\ Known(h, Newest(h), sel, pass) /\ Newest(h) \in Proxies
    BY <2>2, RegisteredGrown
  <2> HIDE DEF h
  <2> QED BY <2>1, <2>3, KnownArgument
<1> QED BY <1>1, <1>2

\* A computing node and the write of its value back to the handle.
LEMMA WrittenBack ==
    ASSUME CarrierInv, NEW g, Grown(g), NEW op \in {"call", "put"},
           NEW p \in Proxies, NEW sel \in {Lead, Whole}, Known(g, p, sel, pass),
           NEW r \in Proxies, "stale" \notin Habits => Argument(g, r, pass)
    PROVE  LET k == Append(g, FX(op, p, r, sel, Empty, NoStore))
           IN  Grown(Write(k, p, Newest(k), sel)) /\ Extends(g, Write(k, p, Newest(k), sel))
<1> DEFINE n == FX(op, p, r, sel, Empty, NoStore)
           k == Append(g, n)
           w == FX("copy_", p, Newest(k), sel, Empty, NoStore)
<1>1. n \in FXNodes
  BY FXType, ContentsType
<1>2. n.op = op /\ n.a = p /\ n.b = r /\ n.st = NoStore /\ n.sel = sel
  BY DEF FX
<1>3. Argument(g, p, pass)
  BY KnownArgument
<1>4. /\ Grown(k) /\ Extends(g, k) /\ Known(k, Newest(k), sel, pass)
      /\ Newest(k) \in Proxies
  <2> HIDE DEF n
  <2> QED BY <1>1, <1>2, <1>3, RecordGrown
<1>5. Argument(k, p, pass) /\ Argument(k, Newest(k), pass)
  BY <1>3, <1>4, ExtendsKnows, KnownArgument
<1>6. w \in FXNodes
  BY <1>4, FXType, ContentsType
<1>7. w.op = "copy_" /\ w.a = p /\ w.b = Newest(k) /\ w.st = NoStore
  BY DEF FX
<1>8. Grown(Append(k, w)) /\ Extends(k, Append(k, w))
  <2> HIDE DEF k, w
  <2> QED BY <1>4, <1>5, <1>6, <1>7, RecordGrown
<1>9. Extends(g, Append(k, w))
  BY <1>4, <1>8, ExtendsTransitive
<1>10. Write(k, p, Newest(k), sel) \in {k, Append(k, w)}
  BY DEF Write
<1> HIDE DEF k, w
<1> QED BY <1>4, <1>8, <1>9, <1>10 DEF k, n

LEMMA LoweredGrown ==
    ASSUME CarrierInv, NEW g, Grown(g), NEW o, obj[o].sel \in {Lead, Whole},
           NEW b, Something(b), NEW p \in Proxies, Known(g, p, obj[o].sel, pass)
    PROVE  Grown(Lowered(g, o, b, p)) /\ Extends(g, Lowered(g, o, b, p))
<1> DEFINE h == Given(g, b)
<1>1. /\ Grown(h[1]) /\ Extends(g, h[1]) /\ h[2] \in Proxies
      /\ Argument(h[1], h[2], pass)
  BY GivenGrown
<1>2. Known(h[1], p, obj[o].sel, pass)
  BY <1>1, ExtendsKnows
<1>3. Lowered(g, o, b, p) =
        LET k == Append(h[1], FX("call", p, h[2], obj[o].sel, Empty, NoStore))
        IN  Write(k, p, Newest(k), obj[o].sel)
  BY DEF Lowered
<1> HIDE DEF h
<1>4. Grown(Lowered(g, o, b, p)) /\ Extends(h[1], Lowered(g, o, b, p))
  BY <1>1, <1>2, <1>3, WrittenBack
<1> QED BY <1>1, <1>4, ExtendsTransitive

LEMMA AssignedGrown ==
    ASSUME CarrierInv, NEW g, Grown(g), NEW o, obj[o].sel \in {Lead, Whole},
           NEW b, Something(b), NEW key \in {Lead, Whole},
           "stale" \notin Habits /\ b # Scalar => ~Stale(b),
           NEW p \in Proxies, Known(g, p, obj[o].sel, pass)
    PROVE  Grown(Assigned(g, o, b, key, p)) /\ Extends(g, Assigned(g, o, b, key, p))
<1> DEFINE h == Source(g, b, key)
           k == Append(h[1], FX("put", p, h[2], obj[o].sel, Empty, NoStore))
<1>1. /\ Grown(h[1]) /\ Extends(g, h[1]) /\ h[2] \in Proxies
      /\ "stale" \notin Habits => Argument(h[1], h[2], pass)
  BY SourceGrown
<1>2. Known(h[1], p, obj[o].sel, pass)
  BY <1>1, ExtendsKnows
<1>3. Assigned(g, o, b, key, p) \in {h[1], Write(k, p, Newest(k), obj[o].sel)}
  BY DEF Assigned
<1> HIDE DEF h
<1>4. /\ Grown(Write(k, p, Newest(k), obj[o].sel))
      /\ Extends(h[1], Write(k, p, Newest(k), obj[o].sel))
  BY <1>1, <1>2, WrittenBack
<1> HIDE DEF k
<1> QED BY <1>1, <1>3, <1>4, ExtendsTransitive

-----------------------------------------------------------------------------
(* Steps within a pass                                                     *)

\* A changed variable may be declared for its layout only if it stays so.
StaysDeclared(o, r) ==
    o \in Named /\ Tracing /\ Declared(obj[o], Layout(o), pass)
        => Declared(r, Layout(o), pass)

LEMMA Framed ==
    ASSUME CarrierInv, Grown(graph'), pass' = pass, index' = index,
           phase' \in {phase, "done"}, mem' \in [Stores -> Contents],
           obj' \in [Objects -> Variables],
           \A o \in Objects :
              \/ obj'[o] = obj[o]
              \/ /\ Variable(obj'[o], graph', pass)
                 /\ phase' = phase => StaysDeclared(o, obj'[o])
    PROVE  CarrierInv'
<1>1. Sound(graph') /\ Extends(graph, graph')
  BY DEF Grown
<1>2. \A o \in Objects : Variable(obj'[o], graph', pass')
  BY <1>1, StaysOK DEF CarrierInv
<1>3. IndexInv'
  <2>1. index' \in [Layouts -> Named \cup {Nobody}]
    BY DEF CarrierInv, IndexInv
  <2>2. ASSUME Tracing', NEW l \in Layouts, index[l] # Nobody
        PROVE  Declared(obj'[index[l]], l, pass)
    <3>1. Tracing /\ phase' = phase
      BY <2>2 DEF Tracing, CarrierInv
    <3>2. index[l] \in Named /\ Declared(obj[index[l]], l, pass)
      BY <2>2, <3>1 DEF CarrierInv, IndexInv
    <3>3. Layout(index[l]) = l
      BY <3>2 DEF Declared, Layout
    <3>4. \/ obj'[index[l]] = obj[index[l]]
          \/ StaysDeclared(index[l], obj'[index[l]])
      BY <3>1, <3>2 DEF Objects
    <3> QED BY <3>1, <3>2, <3>3, <3>4 DEF StaysDeclared
  <2> QED BY <2>1, <2>2 DEF IndexInv
<1>4. phase' \in {"tracing", "done"} /\ pass' \in 1 .. MaxPasses
  BY DEF CarrierInv
<1> QED BY <1>1, <1>2, <1>3, <1>4 DEF CarrierInv

LEMMA ShedFacts ==
    ASSUME CarrierInv, NEW args
    PROVE  /\ Shed(args) \in [Objects -> Variables]
           /\ \A o \in Objects :
                 \/ Shed(args)[o] = obj[o]
                 \/ /\ Carrier(o) /\ Shed(args)[o] = Plain(obj[o].st, obj[o].sel)
                    /\ \A g : Variable(Shed(args)[o], g, pass)
                    /\ ~Declared(obj[o], Layout(o), pass)
<1>1. ASSUME NEW o \in Objects, Stale(o)
      PROVE  /\ Carrier(o) /\ ~Declared(obj[o], Layout(o), pass)
             /\ \A g : Variable(Plain(obj[o].st, obj[o].sel), g, pass)
             /\ Plain(obj[o].st, obj[o].sel) \in Variables
  <2>1. Carrier(o)
    BY <1>1 DEF Stale
  <2>2. \A g : Variable(Plain(obj[o].st, obj[o].sel), g, pass)
    BY <2>1, ObjectFacts, PlainOK
  <2>3. Plain(obj[o].st, obj[o].sel) \in Variables
    BY <2>2 DEF Variable
  <2> QED BY <1>1, <2>1, <2>2, <2>3, HandleFacts DEF Declared
<1>2. obj \in [Objects -> Variables]
  BY DEF CarrierInv
<1> QED BY <1>1, <1>2 DEF Shed

LEMMA Changed ==
    ASSUME CarrierInv, Grown(graph'), pass' = pass, index' = index, phase' = phase,
           mem' \in [Stores -> Contents], NEW t \in Objects, NEW r,
           Variable(r, graph', pass), StaysDeclared(t, r),
           NEW args, obj' = [Shed(args) EXCEPT ![t] = r]
    PROVE  CarrierInv'
<1>1. r \in Variables
  BY DEF Variable
<1>2. obj' \in [Objects -> Variables]
  BY <1>1, ShedFacts
<1>3. obj'[t] = r /\ \A o \in Objects \ {t} : obj'[o] = Shed(args)[o]
  BY ShedFacts
<1>4. ASSUME NEW o \in Objects
      PROVE  \/ obj'[o] = obj[o]
             \/ Variable(obj'[o], graph', pass) /\ StaysDeclared(o, obj'[o])
  BY <1>3, ShedFacts DEF StaysDeclared
<1> QED BY <1>2, <1>4, Framed

LEMMA ShedNone == CarrierInv => Shed({}) = obj
BY DEF Shed, CarrierInv

\* A new value in a storage.
LEMMA StoreType ==
    ASSUME CarrierInv, NEW s, NEW v \in Contents, NEW sel
    PROVE  Store(s, v, sel) \in [Stores -> Contents]
BY ContentsType DEF CarrierInv, Store

LEMMA AllocatedFacts ==
    ASSUME CarrierInv, NEW t, NEW s \in Allocated(t)
    PROVE  s \in Stores /\ \A o \in Objects \ {t} : obj[o].st # s
<1>1. s \in Unused(t)
  BY DEF Allocated
<1> QED BY <1>1 DEF Unused

LEMMA TempsStayDeclared == ASSUME NEW t \in Temps, NEW r PROVE StaysDeclared(t, r)
BY CarrierAssumption DEF StaysDeclared

-----------------------------------------------------------------------------
(* The invariant is kept, and the graph stays closed unless the program    *)
(* assigns stale values                                                    *)

Kept == /\ CarrierInv'
        /\ "stale" \notin Habits /\ Closed(graph, pass) => Closed(graph', pass')

LEMMA ChangedKept ==
    ASSUME CarrierInv, NEW g, Grown(g), graph' = g,
           UNCHANGED <<pass, index, phase>>,
           NEW m \in [Stores -> Contents], mem' = m, NEW t \in Objects, NEW r,
           Variable(r, g, pass), StaysDeclared(t, r),
           NEW args, obj' = [Shed(args) EXCEPT ![t] = r]
    PROVE  Kept
<1>1. CarrierInv'
  BY Changed
<1> QED BY <1>1 DEF Kept, Grown

\* The same where no argument is shed.
LEMMA SetKept ==
    ASSUME CarrierInv, NEW g, Grown(g), graph' = g,
           UNCHANGED <<pass, index, phase>>,
           NEW m \in [Stores -> Contents], mem' = m, NEW t \in Objects, NEW r,
           Variable(r, g, pass), StaysDeclared(t, r), obj' = [obj EXCEPT ![t] = r]
    PROVE  Kept
BY ShedNone, ChangedKept

LEMMA MemType == CarrierInv => mem \in [Stores -> Contents]
BY DEF CarrierInv

\* A carrier that is made, with no port or with another's.
LEMMA MadeOK ==
    ASSUME CarrierInv, NEW kind \in {"torch", "numpy"}, NEW st \in Stores,
           NEW sel \in {Lead, Whole}, NEW p \in Proxies, NEW g, Known(g, p, sel, pass)
    PROVE  /\ Variable(Wrap(kind, st, sel, p), g, pass)
           /\ \A port \in Contents \cup {NoPort} :
                 Variable([Wrap(kind, st, sel, p) EXCEPT !.port = port], g, pass)
<1>1. pass \in Nat \ {0} /\ p.pass \in 1 .. pass /\ st # NoStore
  BY PassType, CarrierAssumption DEF Known
<1>2. ASSUME NEW port \in Contents \cup {NoPort}
      PROVE  Variable([kind |-> kind, st |-> st, sel |-> sel, proxy |-> p,
                       port |-> port], g, pass)
  BY <1>1 DEF Variable, Variables
<1>3. \A port : [Wrap(kind, st, sel, p) EXCEPT !.port = port] =
         [kind |-> kind, st |-> st, sel |-> sel, proxy |-> p, port |-> port]
  BY DEF Wrap
<1>4. Variable(Wrap(kind, st, sel, p), g, pass)
  BY <1>2 DEF Wrap
<1> QED BY <1>2, <1>3, <1>4

LEMMA FittingFacts ==
    ASSUME CarrierInv, NEW sel \in {Lead, Whole}, NEW b \in Fitting(sel)
    PROVE  Something(b)
<1>1. Nothing.sel = {}
  BY DEF Nothing, Plain
<1> QED BY <1>1, Parts DEF Fitting, Something

LEMMA CarrierSomething ==
    ASSUME CarrierInv, NEW o \in Objects, Carrier(o) PROVE Something(o)
BY ObjectFacts DEF Something

LEMMA CallKept ==
    ASSUME CarrierInv, NEW o \in Objects, NEW b \in Operands, NEW t \in Temps,
           Call(o, b, t)
    PROVE  Kept
<1>1. Carrier(o) /\ b \in Fitting(Whole)
  BY DEF Call
<1>2. Something(o) /\ Something(b) /\ t \in Objects
  BY <1>1, CarrierSomething, FittingFacts DEF Objects
<1> DEFINE v == Xor(Value(o), Operand(b, Whole))
<1>3. v \in Contents
  BY <1>1, <1>2, ObjectFacts, OperandType, ContentsType
<1>4. PICK s \in Allocated(t) :
         LET g == Given(Forget(s), o)
             h == Given(g[1], b)
             k == Append(h[1], FX("call", g[2], h[2], Whole, Empty, s))
         IN  \/ /\ graph' = k
                /\ obj' = [Shed({o, b}) EXCEPT ![t] = Wrap("torch", s, Whole, Newest(k))]
                /\ mem' = Store(s, v, Whole)
             \/ /\ graph' = Forget(s)
                /\ obj' = [Shed({o, b}) EXCEPT ![t] = Plain(s, Whole)]
                /\ mem' = Store(s, v, Whole)
  BY DEF Call
<1> DEFINE f == Forget(s)
           g == Given(f, o)
           h == Given(g[1], b)
           n == FX("call", g[2], h[2], Whole, Empty, s)
           k == Append(h[1], n)
<1>5. s \in Stores /\ UNCHANGED <<pass, index, phase>>
  BY AllocatedFacts DEF Call
<1>6. Store(s, v, Whole) \in [Stores -> Contents]
  BY <1>3, StoreType
<1>7. Grown(f)
  BY <1>5, ForgetGrown
<1>8. CASE /\ graph' = f
           /\ obj' = [Shed({o, b}) EXCEPT ![t] = Plain(s, Whole)]
           /\ mem' = Store(s, v, Whole)
  <2>1. Variable(Plain(s, Whole), f, pass)
    BY <1>5, PlainOK
  <2> HIDE DEF f, v
  <2> QED BY <1>2, <1>5, <1>6, <1>7, <1>8, <2>1, TempsStayDeclared, ChangedKept
<1>9. CASE /\ graph' = k
           /\ obj' = [Shed({o, b}) EXCEPT ![t] = Wrap("torch", s, Whole, Newest(k))]
           /\ mem' = Store(s, v, Whole)
  <2>1. /\ Grown(g[1]) /\ g[2] \in Proxies /\ Argument(g[1], g[2], pass)
    BY <1>2, <1>7, GivenGrown
  <2>2. /\ Grown(h[1]) /\ Extends(g[1], h[1]) /\ h[2] \in Proxies
        /\ Argument(h[1], h[2], pass)
    BY <1>2, <2>1, GivenGrown
  <2>3. Argument(h[1], g[2], pass)
    BY <2>1, <2>2, ExtendsKnows
  <2>4. n \in FXNodes
    BY <1>5, <2>1, <2>2, FXType, ContentsType
  <2>5. n.op = "call" /\ n.a = g[2] /\ n.b = h[2] /\ n.sel = Whole
    BY DEF FX
  <2> HIDE DEF g, h, n, v
  <2>6. Grown(k) /\ Known(k, Newest(k), Whole, pass) /\ Newest(k) \in Proxies
    BY <2>2, <2>3, <2>4, <2>5, RecordGrown
  <2> HIDE DEF k
  <2>7. Variable(Wrap("torch", s, Whole, Newest(k)), k, pass)
    BY <1>5, <2>6, MadeOK
  <2> QED BY <1>2, <1>5, <1>6, <1>9, <2>6, <2>7, TempsStayDeclared, ChangedKept
<1> QED BY <1>4, <1>8, <1>9

\* A view or an alias: the same bytes under another name.
LEMMA ViewGrown ==
    ASSUME CarrierInv, NEW o \in Objects, Fresh(o), NEW sel \in {Lead, Whole}
    PROVE  LET g == Append(graph, FX("view", Handle(o), NoProxy, sel, Empty, NoStore))
           IN  Grown(g) /\ Known(g, Newest(g), sel, pass) /\ Newest(g) \in Proxies
<1> DEFINE n == FX("view", Handle(o), NoProxy, sel, Empty, NoStore)
<1>1. Handle(o) \in Proxies /\ Argument(graph, Handle(o), pass)
  BY HandleFacts, KnownArgument DEF Fresh
<1>2. n \in FXNodes
  BY <1>1, FXType, NoProxyType, ContentsType
<1>3. n.op = "view" /\ n.a = Handle(o) /\ n.b = NoProxy /\ n.sel = sel /\ n.st = NoStore
  BY DEF FX
<1> HIDE DEF n
<1>4. Grown(Append(graph, n)) /\ Known(Append(graph, n), Newest(Append(graph, n)), sel, pass)
      /\ Newest(Append(graph, n)) \in Proxies
  BY <1>1, <1>2, <1>3, NoArgument, GraphGrown, RecordGrown
<1> QED BY <1>4 DEF n

LEMMA AliasKept ==
    ASSUME CarrierInv, NEW o \in Objects, NEW t \in Temps, Alias(o, t)
    PROVE  Kept
<1> DEFINE sel == obj[o].sel
           st == obj[o].st
           g == Append(graph, FX("view", Handle(o), NoProxy, sel, Empty, NoStore))
<1>1. Fresh(o) /\ UNCHANGED <<mem, pass, index, phase>> /\ t \in Objects
  BY DEF Alias, Objects
<1>2. st \in Stores /\ sel \in {Lead, Whole}
  BY <1>1, ObjectFacts DEF Fresh
<1>3. CASE /\ graph' = g
           /\ obj' = [obj EXCEPT ![t] = Wrap("numpy", st, sel, Newest(g))]
  <2>1. Grown(g) /\ Known(g, Newest(g), sel, pass) /\ Newest(g) \in Proxies
    BY <1>1, <1>2, ViewGrown
  <2> HIDE DEF g
  <2>2. Variable(Wrap("numpy", st, sel, Newest(g)), g, pass)
    BY <1>2, <2>1, MadeOK
  <2> QED BY <1>1, <1>3, <2>1, <2>2, MemType, TempsStayDeclared, SetKept
<1>4. ASSUME NEW r, graph' = graph, obj' = [obj EXCEPT ![t] = r],
             r \in {Wrap("torch", st, sel, Handle(o)), Plain(st, sel)}
      PROVE  Kept
  <2>1. Handle(o) \in Proxies /\ Known(graph, Handle(o), sel, pass)
    BY <1>1, HandleFacts DEF Fresh
  <2>2. Variable(r, graph, pass)
    BY <1>2, <1>4, <2>1, PlainOK, MadeOK
  <2> QED BY <1>1, <1>4, <2>2, GraphGrown, MemType, TempsStayDeclared, SetKept
<1> QED BY <1>3, <1>4 DEF Alias

LEMMA NarrowKept ==
    ASSUME CarrierInv, NEW o \in Objects, NEW t \in Temps, Narrow(o, t)
    PROVE  Kept
<1> DEFINE st == obj[o].st
           g == Append(graph, FX("view", Handle(o), NoProxy, Lead, Empty, NoStore))
<1>1. Fresh(o) /\ UNCHANGED <<mem, pass, index, phase>> /\ t \in Objects
  BY DEF Narrow, Objects
<1>2. st \in Stores /\ obj[o].kind \in {"torch", "numpy"}
  BY <1>1, ObjectFacts DEF Fresh
<1>3. CASE /\ graph' = g
           /\ obj' = [obj EXCEPT ![t] = Wrap(obj[o].kind, st, Lead, Newest(g))]
  <2>1. Grown(g) /\ Known(g, Newest(g), Lead, pass) /\ Newest(g) \in Proxies
    BY <1>1, ViewGrown
  <2> HIDE DEF g
  <2>2. Variable(Wrap(obj[o].kind, st, Lead, Newest(g)), g, pass)
    BY <1>2, <2>1, MadeOK
  <2> QED BY <1>1, <1>3, <2>1, <2>2, MemType, TempsStayDeclared, SetKept
<1>4. CASE graph' = graph /\ obj' = [obj EXCEPT ![t] = Plain(st, Lead)]
  BY <1>1, <1>2, <1>4, PlainOK, GraphGrown, MemType, TempsStayDeclared, SetKept
<1> QED BY <1>3, <1>4 DEF Narrow

LEMMA ConvertKept ==
    ASSUME CarrierInv, NEW o \in Objects, NEW t \in Temps, Convert(o, t)
    PROVE  Kept
<1>1. Fresh(o) /\ UNCHANGED <<mem, graph, pass, index, phase>> /\ t \in Objects
  BY DEF Convert, Objects
<1>2. PICK kind \in {"torch", "numpy"} :
         obj' = [obj EXCEPT ![t] = [Wrap(kind, obj[o].st, obj[o].sel, Handle(o))
                                       EXCEPT !.port = obj[o].port]]
  BY DEF Convert
<1>3. /\ obj[o].st \in Stores /\ obj[o].sel \in {Lead, Whole}
      /\ obj[o].port \in Contents \cup {NoPort}
      /\ Handle(o) \in Proxies /\ Known(graph, Handle(o), obj[o].sel, pass)
  BY <1>1, ObjectFacts, HandleFacts DEF Fresh
<1>4. Variable([Wrap(kind, obj[o].st, obj[o].sel, Handle(o))
                   EXCEPT !.port = obj[o].port], graph, pass)
  BY <1>3, MadeOK
<1> QED BY <1>1, <1>2, <1>4, GraphGrown, MemType, TempsStayDeclared, SetKept

LEMMA CloneKept ==
    ASSUME CarrierInv, NEW o \in Objects, NEW t \in Temps, Clone(o, t)
    PROVE  Kept
<1>1. Fresh(o) /\ UNCHANGED <<pass, index, phase>> /\ t \in Objects
  BY DEF Clone, Objects
<1>2. /\ obj[o].st \in Stores /\ obj[o].kind \in {"torch", "numpy"}
      /\ Value(o) \in Contents /\ obj[o].sel = Whole
      /\ obj[o].port \in Contents \cup {NoPort}
      /\ Handle(o) \in Proxies /\ Known(graph, Handle(o), Whole, pass)
  BY <1>1, ObjectFacts, HandleFacts DEF Fresh, Clone
<1> DEFINE end(s) == IF obj[o].kind = "torch" THEN s ELSE NoStore
           n(s) == FX("clone", Handle(o), NoProxy, Whole, Empty, end(s))
           g(s) == Append(Forget(s), n(s))
           copied(s) == [Wrap(obj[o].kind, s, Whole, Handle(o)) EXCEPT !.port = obj[o].port]
<1>3. PICK s \in Allocated(t) :
         /\ mem' = Store(s, Value(o), Whole)
         /\ \/ /\ graph' = g(s)
               /\ obj' = [obj EXCEPT ![t] = Wrap(obj[o].kind, s, Whole, Newest(g(s)))]
            \/ /\ graph' = Forget(s)
               /\ obj' = [obj EXCEPT ![t] = Plain(s, Whole)]
            \/ graph' = Forget(s) /\ obj' = [obj EXCEPT ![t] = copied(s)]
  BY DEF Clone
<1>4. s \in Stores /\ Store(s, Value(o), Whole) \in [Stores -> Contents]
  BY <1>2, AllocatedFacts, StoreType
<1>5. Grown(Forget(s)) /\ Known(Forget(s), Handle(o), Whole, pass)
  BY <1>2, <1>4, ForgetGrown, ExtendsKnows DEF Grown
<1>6. CASE /\ graph' = g(s)
           /\ obj' = [obj EXCEPT ![t] = Wrap(obj[o].kind, s, Whole, Newest(g(s)))]
  <2>1. n(s) \in FXNodes
    BY <1>2, <1>4, FXType, NoProxyType, ContentsType
  <2>2. n(s).op = "clone" /\ n(s).a = Handle(o) /\ n(s).b = NoProxy /\ n(s).sel = Whole
    BY DEF FX
  <2> HIDE DEF n
  <2>3. /\ Grown(g(s)) /\ Known(g(s), Newest(g(s)), Whole, pass)
        /\ Newest(g(s)) \in Proxies
    BY <1>5, <2>1, <2>2, KnownArgument, NoArgument, RecordGrown
  <2> HIDE DEF g
  <2>4. Variable(Wrap(obj[o].kind, s, Whole, Newest(g(s))), g(s), pass)
    BY <1>2, <1>4, <2>3, MadeOK
  <2> QED BY <1>1, <1>3, <1>4, <1>6, <2>3, <2>4, TempsStayDeclared, SetKept
<1>7. CASE graph' = Forget(s) /\ obj' = [obj EXCEPT ![t] = Plain(s, Whole)]
  BY <1>1, <1>3, <1>4, <1>5, <1>7, PlainOK, TempsStayDeclared, SetKept
<1>8. CASE graph' = Forget(s) /\ obj' = [obj EXCEPT ![t] = copied(s)]
  <2>1. Variable(copied(s), Forget(s), pass)
    BY <1>2, <1>4, <1>5, MadeOK
  <2> HIDE DEF copied
  <2> QED BY <1>1, <1>3, <1>4, <1>5, <1>8, <2>1, TempsStayDeclared, SetKept
<1> QED BY <1>3, <1>6, <1>7, <1>8

LEMMA UncapturedKept ==
    ASSUME CarrierInv, NEW o \in Objects, NEW t \in Temps, Uncaptured(o, t)
    PROVE  Kept
<1>1. Fresh(o) /\ UNCHANGED <<pass, index, phase>> /\ t \in Objects
  BY DEF Uncaptured, Objects
<1>2. /\ Value(o) \in Contents /\ obj[o].sel = Whole
      /\ Handle(o) \in Proxies /\ Known(graph, Handle(o), Whole, pass)
  BY <1>1, ObjectFacts, HandleFacts DEF Fresh, Uncaptured
<1> DEFINE v == Xor(Value(o), Ones)
           n == FX("failed", Handle(o), NoProxy, Whole, Empty, NoStore)
           g(s) == Append(Forget(s), n)
<1>3. PICK s \in Allocated(t) :
         /\ mem' = Store(s, v, Whole)
         /\ graph' = g(s)
         /\ obj' = [obj EXCEPT ![t] = Wrap("numpy", s, Whole, Newest(g(s)))]
  BY DEF Uncaptured
<1>4. s \in Stores /\ Store(s, v, Whole) \in [Stores -> Contents]
  BY <1>2, AllocatedFacts, StoreType, ContentsType
<1>5. Grown(Forget(s)) /\ Known(Forget(s), Handle(o), Whole, pass)
  BY <1>2, <1>4, ForgetGrown, ExtendsKnows DEF Grown
<1>6. n \in FXNodes
  BY <1>2, FXType, NoProxyType, ContentsType
<1>7. n.op = "failed" /\ n.a = Handle(o) /\ n.b = NoProxy /\ n.sel = Whole
  BY DEF FX
<1> HIDE DEF n, v
<1>8. Grown(g(s)) /\ Known(g(s), Newest(g(s)), Whole, pass) /\ Newest(g(s)) \in Proxies
  BY <1>5, <1>6, <1>7, KnownArgument, NoArgument, RecordGrown
<1> HIDE DEF g
<1>9. Variable(Wrap("numpy", s, Whole, Newest(g(s))), g(s), pass)
  BY <1>4, <1>8, MadeOK
<1> QED BY <1>1, <1>3, <1>4, <1>8, <1>9, TempsStayDeclared, SetKept

LEMMA PortCleared ==
    ASSUME NEW r \in Variables, NEW y, y = [r EXCEPT !.port = NoPort]
    PROVE  /\ y \in Variables /\ y.kind = r.kind /\ y.st = r.st /\ y.sel = r.sel
           /\ y.proxy = r.proxy /\ y.port = NoPort
BY DEF Variables

\* A carrier of this pass that keeps its bytes and takes another proxy.
LEMMA RebindOK ==
    ASSUME CarrierInv, NEW o \in Objects, Fresh(o), NEW g, NEW y \in Variables,
           y.kind = obj[o].kind, y.st = obj[o].st, y.sel = obj[o].sel,
           y.proxy.pass \in 1 .. pass,
           y.proxy.pass = pass => Known(g, y.proxy, y.sel, pass)
    PROVE  /\ Variable(y, g, pass)
           /\ y.port = NoPort /\ y.proxy.pass = pass => StaysDeclared(o, y)
<1>1. /\ obj[o].st \in Stores /\ obj[o].sel \in {Lead, Whole} /\ obj[o] \in Variables
      /\ obj[o].kind \in {"torch", "numpy"}
  BY ObjectFacts DEF Fresh
<1>2. Variable(y, g, pass)
  BY <1>1, CarrierAssumption DEF Variable
<1>3. y.port = NoPort /\ y.proxy.pass = pass => StaysDeclared(o, y)
  BY <1>1 DEF StaysDeclared, Declared, Layout
<1> QED BY <1>2, <1>3

LEMMA UndeclaredStays ==
    ASSUME CarrierInv, NEW o \in Objects, ~Fresh(o), NEW r
    PROVE  StaysDeclared(o, r)
BY ObjectFacts, HandleFacts DEF StaysDeclared, Declared, Fresh

LEMMA InPlaceKept ==
    ASSUME CarrierInv, NEW o \in Objects, NEW b \in Operands, InPlace(o, b)
    PROVE  Kept
<1> DEFINE args == IF Tracing THEN {b} ELSE {}
           sel == obj[o].sel
           v == Xor(Value(o), Operand(b, sel))
           g == Registered(graph, Value(o), sel, Covers(obj[o].st, sel))
           made == Wrap("torch", obj[o].st, sel, Newest(g))
<1>1. /\ obj[o] # Nothing /\ b \in Fitting(sel) /\ UNCHANGED <<pass, index, phase>>
      /\ mem' = Store(obj[o].st, v, sel)
  BY DEF InPlace
<1>2. obj[o].st \in Stores /\ sel \in {Lead, Whole} /\ Value(o) \in Contents
  BY <1>1, ObjectFacts
<1>3. Something(b)
  BY <1>1, <1>2, FittingFacts
<1>4. Store(obj[o].st, v, sel) \in [Stores -> Contents]
  BY <1>2, <1>3, OperandType, ContentsType, StoreType
<1>5. CASE /\ Fresh(o)
           /\ graph' = IF Tracing THEN Lowered(graph, o, b, Handle(o)) ELSE graph
           /\ obj' = [Shed(args) EXCEPT ![o].port = NoPort, ![o].proxy = Handle(o)]
  <2>1. Handle(o) \in Proxies /\ Known(graph, Handle(o), sel, pass)
    BY <1>5, HandleFacts DEF Fresh
  <2>2. Grown(graph') /\ Extends(graph, graph')
    BY <1>2, <1>3, <1>5, <2>1, GraphGrown, LoweredGrown DEF Grown
  <2>3. Shed(args)[o] = obj[o]
    BY <1>5, ShedFacts DEF Shed, Fresh
  <2> DEFINE r == [obj[o] EXCEPT !.port = NoPort, !.proxy = Handle(o)]
  <2>4. obj' = [Shed(args) EXCEPT ![o] = r]
    BY <1>5, <2>3, ShedFacts
  <2>5. Known(graph', Handle(o), sel, pass)
    BY <2>1, <2>2, ExtendsKnows
  <2>6. Variable(r, graph', pass) /\ StaysDeclared(o, r)
    <3>1. /\ r \in Variables /\ r.kind = obj[o].kind /\ r.st = obj[o].st
          /\ r.sel = sel /\ r.proxy = Handle(o) /\ r.port = NoPort
      <4>1. obj[o] \in Variables /\ NoPort \in Contents \cup {NoPort}
        BY ObjectFacts
      <4> QED BY <2>1, <4>1 DEF Variables
    <3>2. Handle(o).pass = pass /\ pass \in 1 .. pass
      BY <2>1, PassType DEF Known
    <3> HIDE DEF r
    <3> QED BY <1>5, <2>5, <3>1, <3>2, RebindOK
  <2> HIDE DEF r, v
  <2> QED BY <1>1, <1>4, <2>2, <2>4, <2>6, ChangedKept
<1>6. CASE /\ ~Fresh(o)
           /\ graph' = IF Tracing THEN Lowered(g, o, b, Newest(g)) ELSE g
           /\ obj' = [obj EXCEPT ![o] = made]
  <2>1. Grown(g) /\ Known(g, Newest(g), sel, pass) /\ Newest(g) \in Proxies
    BY <1>2, GraphGrown, CoversType, RegisteredGrown
  <2> HIDE DEF g
  <2>2. Grown(graph') /\ Extends(g, graph')
    BY <1>2, <1>3, <1>6, <2>1, LoweredGrown, ExtendsSelf
  <2>3. Known(graph', Newest(g), sel, pass)
    BY <2>1, <2>2, ExtendsKnows
  <2>4. Variable(made, graph', pass)
    BY <1>2, <2>1, <2>3, MadeOK
  <2> HIDE DEF made, v
  <2> QED BY <1>1, <1>4, <1>6, <2>2, <2>4, UndeclaredStays, SetKept
<1> QED BY <1>5, <1>6 DEF InPlace

LEMMA AssignKept ==
    ASSUME CarrierInv, NEW o \in Objects, NEW b \in Operands,
           NEW key \in {Lead, Whole}, Assign(o, b, key)
    PROVE  Kept
<1> DEFINE m == Store(obj[o].st, Operand(b, key), key)
           r == IF Tracing THEN [obj[o] EXCEPT !.proxy = Handle(o), !.port = NoPort]
                ELSE OverwritePort(o, b, key)
<1>1. /\ Fresh(o) /\ b \in Fitting(key) /\ b \in Assignable
      /\ UNCHANGED <<pass, index, phase>> /\ mem' = m
      /\ graph' = IF Tracing THEN Assigned(graph, o, b, key, Handle(o)) ELSE graph
  BY DEF Assign
<1>2. /\ obj[o].sel \in {Lead, Whole} /\ obj[o] \in Variables
      /\ Handle(o) \in Proxies /\ Known(graph, Handle(o), obj[o].sel, pass)
      /\ obj[o].proxy.pass \in 1 .. pass
      /\ obj[o].proxy.pass = pass => Known(graph, obj[o].proxy, obj[o].sel, pass)
  BY <1>1, ObjectFacts, HandleFacts DEF Fresh, Variable
<1>3. Something(b) /\ (b # Scalar => b \in Objects /\ obj[b].sel = key)
  BY <1>1, FittingFacts DEF Fitting
<1>4. "stale" \notin Habits /\ b # Scalar => ~Stale(b)
  BY <1>1, <1>3 DEF Assignable
<1>5. m \in [Stores -> Contents]
  BY <1>3, OperandType, StoreType
<1>6. Grown(graph') /\ Extends(graph, graph')
  BY <1>1, <1>2, <1>3, <1>4, GraphGrown, AssignedGrown DEF Grown
<1>7. obj' = [obj EXCEPT ![o] = r]
  BY DEF Assign
<1>8. Variable(r, graph', pass) /\ StaysDeclared(o, r)
  <2>1. CASE Tracing
    <3>1. /\ r \in Variables /\ r.kind = obj[o].kind /\ r.st = obj[o].st
          /\ r.sel = obj[o].sel /\ r.proxy = Handle(o) /\ r.port = NoPort
      BY <1>2, <2>1 DEF Variables
    <3>2. Known(graph', Handle(o), obj[o].sel, pass)
      BY <1>2, <1>6, ExtendsKnows
    <3>3. Handle(o).pass = pass /\ pass \in 1 .. pass
      BY <1>2, PassType DEF Known
    <3> HIDE DEF r
    <3> QED BY <1>1, <3>1, <3>2, <3>3, RebindOK
  <2>2. CASE ~Tracing /\ b # Scalar /\ obj[b].port # NoPort /\ key = obj[o].sel
    <3>1. r = [obj[o] EXCEPT !.port = obj[b].port, !.proxy = Handle(b)]
      BY <2>2 DEF OverwritePort
    <3>2. Carrier(b) /\ obj[b].port \in Contents \cup {NoPort}
      BY <1>3, <2>2, ObjectFacts
    <3>3. /\ Handle(b) \in Proxies /\ Handle(b).pass \in 1 .. pass
          /\ Handle(b).pass = pass => Known(graph, Handle(b), obj[o].sel, pass)
      BY <1>3, <2>2, <3>2, HandleFacts DEF Fresh, Stale
    <3>4. /\ r \in Variables /\ r.kind = obj[o].kind /\ r.st = obj[o].st
          /\ r.sel = obj[o].sel /\ r.proxy = Handle(b)
      <4> HIDE DEF r
      <4> QED BY <1>2, <3>1, <3>2, <3>3 DEF Variables
    <3>5. graph' = graph
      BY <1>1, <2>2
    <3> HIDE DEF r
    <3>6. Variable(r, graph, pass)
      BY <1>1, <3>3, <3>4, RebindOK
    <3> QED BY <2>2, <3>5, <3>6 DEF StaysDeclared
  <2>3. CASE ~Tracing /\ ~(b # Scalar /\ obj[b].port # NoPort /\ key = obj[o].sel)
    <3>1. r = [obj[o] EXCEPT !.port = NoPort]
      BY <2>3 DEF OverwritePort
    <3>2. /\ r \in Variables /\ r.kind = obj[o].kind /\ r.st = obj[o].st
          /\ r.sel = obj[o].sel /\ r.proxy = obj[o].proxy
      BY <1>2, <3>1, PortCleared
    <3>3. graph' = graph
      BY <1>1, <2>3
    <3> HIDE DEF r
    <3>4. Variable(r, graph, pass)
      BY <1>1, <1>2, <3>2, RebindOK
    <3> QED BY <2>3, <3>3, <3>4 DEF StaysDeclared
  <2> QED BY <2>1, <2>2, <2>3
<1> HIDE DEF r, m
<1> QED BY <1>1, <1>5, <1>6, <1>7, <1>8, SetKept

\* A plain destination is written under a proxy for its very parts, if LEAPP
\* has captured a value with the same bytes.
LEMMA DestinationFacts ==
    ASSUME CarrierInv, NEW o \in Objects, obj[o] # Nothing, NEW b \in Objects,
           Fresh(b), PlainDestination(o, b) \notin {Refused, NoProxy}
    PROVE  /\ Tracing /\ PlainDestination(o, b) \in Proxies
           /\ Known(graph, PlainDestination(o, b), obj[o].sel, pass)
<1> DEFINE d == PlainDestination(o, b)
<1>1. obj[o].st \in Stores /\ obj[o].st # NoStore /\ Tracing
  BY ObjectFacts, CarrierAssumption DEF PlainDestination
<1>2. CASE Layout(o) = Layout(b)
  <2>1. d = Handle(b) /\ obj[b].sel = obj[o].sel
    BY <1>1, <1>2 DEF PlainDestination, Layout
  <2> QED BY <1>1, <2>1, HandleFacts DEF Fresh
<1>3. CASE Layout(o) # Layout(b) /\ DeclaredAlias(o) # Nobody
  <2>1. d = obj[DeclaredAlias(o)].proxy
    BY <1>1, <1>3 DEF PlainDestination
  <2> QED BY <1>1, <1>3, <2>1, AliasFacts
<1>4. CASE Layout(o) # Layout(b) /\ DeclaredAlias(o) = Nobody
  <2>1. /\ Captured(o) # {} /\ obj[o].sel = Whole
        /\ d = [pass |-> pass, node |-> Min(Captured(o))]
    BY <1>1, <1>4 DEF PlainDestination
  <2>2. graph \in Seq(FXNodes) /\ DOMAIN graph \subseteq Nat
    BY DEF CarrierInv, Sound
  <2>3. Min(Captured(o)) \in Captured(o)
    BY <2>1, <2>2, LeastNode DEF Captured
  <2> DEFINE k == Min(Captured(o))
  <2>4. k \in DOMAIN graph /\ graph[k].sel = Whole /\ k \in Nat /\ pass \in Nat
    BY <1>1, <2>2, <2>3, PassType DEF Captured, CarrierInv, Sound
  <2> HIDE DEF k
  <2>5. d = [pass |-> pass, node |-> k]
    BY <2>1 DEF k
  <2> QED BY <1>1, <2>1, <2>4, <2>5 DEF Known, Proxies
<1> QED BY <1>2, <1>3, <1>4

LEMMA AssignPlainKept ==
    ASSUME CarrierInv, NEW o \in Objects, NEW b \in Objects,
           NEW key \in {Lead, Whole}, AssignPlain(o, b, key)
    PROVE  Kept
<1> DEFINE sel == obj[o].sel
           full == key = sel
           known == PlainDestination(o, b)
           n == FX("empty_strided", NoProxy, NoProxy, sel, Empty, Covers(obj[o].st, sel))
           blank == Append(graph, n)
           kept == Registered(graph, Value(o), sel, Covers(obj[o].st, sel))
           g == IF known # NoProxy THEN graph ELSE IF ~full THEN kept
                ELSE IF Tracing THEN blank ELSE graph
           p == IF known # NoProxy THEN known
                ELSE IF ~full \/ Tracing THEN Newest(g) ELSE Handle(b)
           port == IF full THEN obj[b].port ELSE NoPort
           made == [Wrap("torch", obj[o].st, sel, p) EXCEPT !.port = port]
           m == Store(obj[o].st, Value(b), key)
<1>1. /\ obj[o] # Nothing /\ ~Fresh(o) /\ Fresh(b) /\ obj[b].sel = key
      /\ known # Refused /\ UNCHANGED <<pass, index, phase>> /\ mem' = m
      /\ graph' = IF ~Tracing THEN g
                  ELSE IF full THEN Write(g, p, Handle(b), sel)
                  ELSE Assigned(g, o, b, key, p)
      /\ obj' = [obj EXCEPT ![o] = made]
  BY DEF AssignPlain
<1>2. /\ obj[o].st \in Stores /\ sel \in {Lead, Whole} /\ Value(o) \in Contents
      /\ Value(b) \in Contents /\ obj[b].port \in Contents \cup {NoPort}
  BY <1>1, ObjectFacts DEF Fresh
<1>3. Handle(b) \in Proxies /\ Known(graph, Handle(b), key, pass)
  BY <1>1, HandleFacts DEF Fresh
<1>4. /\ Grown(blank) /\ Known(blank, Newest(blank), sel, pass)
      /\ Newest(blank) \in Proxies
  <2>1. n \in FXNodes
    BY <1>2, FXType, NoProxyType, ContentsType DEF Covers
  <2>2. /\ n.op = "empty_strided" /\ n.a = NoProxy /\ n.b = NoProxy /\ n.sel = sel
        /\ n.st # NoStore => sel = Whole
    BY DEF FX, Covers
  <2> HIDE DEF n
  <2> QED BY <2>1, <2>2, NoArgument, GraphGrown, RecordGrown
<1>5. /\ Grown(kept) /\ Known(kept, Newest(kept), sel, pass)
      /\ Newest(kept) \in Proxies
  BY <1>2, GraphGrown, CoversType, RegisteredGrown
<1>6. Grown(g) /\ p \in Proxies /\ Known(g, p, sel, pass)
  <2>1. CASE known # NoProxy
    <3>1. known \in Proxies /\ Known(graph, known, sel, pass)
      BY <1>1, <2>1, DestinationFacts
    <3> HIDE DEF known, kept, blank
    <3> QED BY <2>1, <3>1, GraphGrown
  <2>2. CASE known = NoProxy /\ (~full \/ Tracing)
    <3> HIDE DEF known, kept, blank, full
    <3> QED BY <1>4, <1>5, <2>2
  <2>3. CASE known = NoProxy /\ full /\ ~Tracing
    <3> HIDE DEF known, kept, blank
    <3> QED BY <1>3, <2>3, GraphGrown
  <2> HIDE DEF known, full
  <2> QED BY <2>1, <2>2, <2>3
<1> HIDE DEF known, blank, kept, g, p, n
<1>7. Grown(graph') /\ Extends(g, graph')
  <2>1. CASE ~Tracing
    BY <1>1, <1>6, <2>1, ExtendsSelf
  <2>2. CASE Tracing /\ full
    <3> DEFINE w == FX("copy_", p, Handle(b), sel, Empty, NoStore)
    <3>1. graph' \in {g, Append(g, w)}
      BY <1>1, <2>2 DEF Write
    <3>2. w \in FXNodes
      BY <1>2, <1>3, <1>6, FXType, ContentsType
    <3>3. w.op = "copy_" /\ w.a = p /\ w.b = Handle(b) /\ w.st = NoStore
      BY DEF FX
    <3>4. Argument(g, p, pass) /\ Argument(g, Handle(b), pass)
      BY <1>3, <1>6, ExtendsKnows, KnownArgument DEF Grown
    <3> HIDE DEF w
    <3>5. Grown(Append(g, w)) /\ Extends(g, Append(g, w))
      BY <1>6, <3>2, <3>3, <3>4, RecordGrown
    <3> QED BY <1>6, <3>1, <3>5, ExtendsSelf
  <2>3. CASE Tracing /\ ~full
    <3>1. Something(b) /\ ~Stale(b)
      BY <1>1, CarrierSomething DEF Fresh
    <3>2. graph' = Assigned(g, o, b, key, p)
      BY <1>1, <2>3
    <3> QED BY <1>2, <1>6, <3>1, <3>2, AssignedGrown
  <2> QED BY <2>1, <2>2, <2>3
<1>8. Variable(made, graph', pass)
  <2>1. Known(graph', p, sel, pass)
    BY <1>6, <1>7, ExtendsKnows
  <2>2. port \in Contents \cup {NoPort}
    BY <1>2
  <2> HIDE DEF port
  <2> QED BY <1>2, <1>6, <2>1, <2>2, MadeOK
<1>9. m \in [Stores -> Contents]
  BY <1>2, StoreType
<1> HIDE DEF made, m
<1> QED BY <1>1, <1>7, <1>8, <1>9, UndeclaredStays, SetKept

LEMMA OutputKept ==
    ASSUME CarrierInv, NEW O \in SUBSET Objects, Output(O)
    PROVE  Kept
<1>1. /\ \A o \in O : Fresh(o)
      /\ obj' = [o \in Objects |-> IF o \in O
                    THEN [obj[o] EXCEPT !.port = Value(o), !.proxy = Handle(o)]
                    ELSE obj[o]]
      /\ phase' = "done" /\ UNCHANGED <<mem, graph, pass, index>>
  BY DEF Output
<1>2. ASSUME NEW o \in O
      PROVE  /\ [obj[o] EXCEPT !.port = Value(o), !.proxy = Handle(o)] \in Variables
             /\ Variable([obj[o] EXCEPT !.port = Value(o), !.proxy = Handle(o)],
                         graph, pass)
  <2> DEFINE r == [obj[o] EXCEPT !.port = Value(o), !.proxy = Handle(o)]
  <2>1. /\ o \in Objects /\ Fresh(o) /\ obj[o] \in Variables /\ Value(o) \in Contents
        /\ Handle(o) \in Proxies /\ Known(graph, Handle(o), obj[o].sel, pass)
    BY <1>1, ObjectFacts, HandleFacts DEF Fresh
  <2>2. /\ r \in Variables /\ r.kind = obj[o].kind /\ r.st = obj[o].st
        /\ r.sel = obj[o].sel /\ r.proxy = Handle(o)
    BY <2>1 DEF Variables
  <2>3. Handle(o).pass = pass /\ pass \in 1 .. pass
    BY <2>1, PassType DEF Known
  <2> HIDE DEF r
  <2>4. Variable(r, graph, pass)
    BY <2>1, <2>2, <2>3, RebindOK
  <2> QED BY <2>2, <2>4 DEF r
<1>3. obj \in [Objects -> Variables]
  BY DEF CarrierInv
<1>4. obj' \in [Objects -> Variables]
  BY <1>1, <1>2, <1>3
<1>5. \A o \in Objects : obj'[o] = obj[o] \/ Variable(obj'[o], graph', pass)
  BY <1>1, <1>2
<1>6. Grown(graph') /\ (phase' = phase => ~Tracing)
  BY <1>1, GraphGrown DEF Tracing
<1>7. CarrierInv'
  BY <1>1, <1>4, <1>5, <1>6, MemType, Framed DEF StaysDeclared
<1> QED BY <1>1, <1>7 DEF Kept

LEMMA ReplaceGraphKept == ASSUME CarrierInv, ReplaceGraph PROVE Kept
<1>1. /\ pass < MaxPasses /\ graph' = <<>> /\ pass' = pass + 1 /\ phase' = "tracing"
      /\ index' = [l \in Layouts |-> Nobody] /\ mem' = mem
      /\ obj' = [o \in Objects |-> IF obj[o].kind = "numpy" THEN Nothing ELSE obj[o]]
  BY DEF ReplaceGraph, Forgotten
<1>2. pass \in Nat \ {0} /\ pass' \in 1 .. MaxPasses
  BY <1>1, PassType, CarrierAssumption
<1>3. Sound(<<>>)
  BY DEF Sound
<1>4. \A o \in Objects : Variable(obj'[o], graph', pass') /\ obj'[o] \in Variables
  <2> SUFFICES ASSUME NEW o \in Objects
               PROVE  Variable(obj'[o], graph', pass') /\ obj'[o] \in Variables
    OBVIOUS
  <2>1. CASE obj[o].kind = "numpy"
    BY <1>1, <2>1, NothingOK DEF Variable
  <2>2. CASE obj[o].kind # "numpy"
    <3>1. obj'[o] = obj[o] /\ Variable(obj[o], graph, pass) /\ obj[o] \in Variables
      BY <1>1, <2>2, ObjectFacts
    <3>2. obj[o].kind # "plain" => obj[o].proxy.pass \in 1 .. pass
      BY <3>1 DEF Variable
    <3>3. obj[o].kind # "plain" =>
             obj[o].proxy.pass \in 1 .. pass' /\ obj[o].proxy.pass # pass'
      BY <1>1, <1>2, <3>2
    <3> QED BY <3>1, <3>3 DEF Variable
  <2> QED BY <2>1, <2>2
<1>5. obj' \in [Objects -> Variables]
  BY <1>1, <1>4
<1>6. IndexInv'
  BY <1>1 DEF IndexInv
<1>7. CarrierInv'
  BY <1>1, <1>2, <1>3, <1>4, <1>5, <1>6, MemType DEF CarrierInv
<1>8. Closed(graph', pass')
  BY <1>1 DEF Closed
<1> QED BY <1>7, <1>8 DEF Kept

\* A rebound carrier of this graph names another node for the same parts.
LEMMA ReboundFacts ==
    ASSUME CarrierInv, NEW o \in Objects, NEW g, Extends(graph, g), NEW p \in Proxies,
           Known(g, p, obj[o].sel, pass)
    PROVE  /\ Rebound(o, p) \in [Objects -> Variables]
           /\ \A x \in Objects :
                 /\ Variable(Rebound(o, p)[x], g, pass)
                 /\ \A l : Declared(obj[x], l, pass) => Declared(Rebound(o, p)[x], l, pass)
<1> SUFFICES ASSUME NEW x \in Objects
             PROVE  /\ Rebound(o, p)[x] \in Variables
                    /\ Variable(Rebound(o, p)[x], g, pass)
                    /\ \A l : Declared(obj[x], l, pass) => Declared(Rebound(o, p)[x], l, pass)
  BY DEF Rebound
<1>1. CASE ~(Fresh(o) /\ obj[x].proxy = Handle(o))
  BY <1>1, StaysOK DEF Rebound, CarrierInv
<1>2. CASE Fresh(o) /\ obj[x].proxy = Handle(o)
  <2> DEFINE r == [obj[x] EXCEPT !.proxy = p]
  <2>1. Rebound(o, p)[x] = r
    BY <1>2 DEF Rebound
  <2>2. /\ r \in Variables /\ r.kind = obj[x].kind /\ r.st = obj[x].st
        /\ r.sel = obj[x].sel /\ r.port = obj[x].port /\ r.proxy = p
    BY ObjectFacts DEF Variables
  <2>3. Known(graph, obj[x].proxy, obj[o].sel, pass) /\ pass \in Nat \ {0}
    BY <1>2, HandleFacts, PassType DEF Fresh
  <2>4. Variable(obj[x], graph, pass) /\ (~Carrier(x) <=> obj[x].kind = "plain")
    BY ObjectFacts DEF Carrier
  <2>5. obj[x].kind # "plain" => obj[x].sel = obj[o].sel
    BY <2>3, <2>4 DEF Variable, Known
  <2> HIDE DEF r
  <2>6. obj[x] # Nothing
    <3>1. Nothing.proxy.pass = 0
      BY DEF Nothing, Plain, NoProxy
    <3> QED BY <2>3, <3>1 DEF Known
  <2>7. Variable(r, g, pass)
    BY <2>2, <2>3, <2>4, <2>5, <2>6 DEF Variable, Known
  <2>8. \A l : Declared(obj[x], l, pass) => Declared(r, l, pass)
    BY <2>2 DEF Declared, Known
  <2> QED BY <2>1, <2>2, <2>7, <2>8
<1> QED BY <1>1, <1>2

\* A declared input is a new placeholder, unless its bytes have one under
\* another name; what was declared before stays so.
LEMMA DeclareKept ==
    ASSUME CarrierInv, NEW o \in Named, Declare(o) PROVE Kept
<1> DEFINE st == obj[o].st
           sel == obj[o].sel
           d == IF obj[o].port = NoPort THEN DeclaredAlias(o) ELSE Nobody
           n == FX("placeholder", NoProxy, NoProxy, sel, Value(o), Covers(st, sel))
           g == Append(graph, n)
           p == IF d = Nobody THEN Newest(g) ELSE obj[d].proxy
           made == Wrap("torch", st, sel, p)
<1>1. /\ Tracing /\ st \in Live /\ UNCHANGED <<mem, pass, phase>> /\ o \in Objects
      /\ obj' = [Rebound(o, p) EXCEPT ![o] = made]
      /\ d # Nobody => UNCHANGED <<graph, index>>
      /\ d = Nobody => /\ graph' = g
                       /\ index' = [index EXCEPT ![Layout(o)] = IF @ = Nobody THEN o ELSE @]
  BY DEF Declare, Objects
<1>2. /\ st \in Stores /\ sel \in {Lead, Whole} /\ Value(o) \in Contents
      /\ Layout(o) \in Layouts /\ o # Nobody
  <2>1. st \in Stores /\ st # NoStore /\ o # Nobody
    BY <1>1, CarrierAssumption
  <2>2. obj[o] # Nothing
    BY <2>1 DEF Nothing, Plain
  <2> QED BY <1>1, <2>1, <2>2, ObjectFacts
<1>3. Grown(graph') /\ p \in Proxies /\ Known(graph', p, sel, pass)
  <2>1. CASE d # Nobody
    <3>1. d = DeclaredAlias(o) /\ p = obj[d].proxy /\ graph' = graph
      BY <1>1, <2>1
    <3> QED BY <1>1, <1>2, <2>1, <3>1, AliasFacts, GraphGrown
  <2>2. CASE d = Nobody
    <3>1. n \in FXNodes
      BY <1>2, CoversType, FXType, NoProxyType
    <3>2. /\ n.a = NoProxy /\ n.b = NoProxy /\ n.sel = sel
          /\ n.op # "ref" /\ n.st # NoStore => n.sel = Whole
      BY <1>2, CoversType DEF FX
    <3>3. p = Newest(g) /\ graph' = g
      BY <1>1, <2>2
    <3> HIDE DEF n
    <3>4. Grown(g) /\ Known(g, Newest(g), n.sel, pass) /\ Newest(g) \in Proxies
      BY <3>1, <3>2, GraphGrown, NoArgument, RecordGrown
    <3> QED BY <3>2, <3>3, <3>4
  <2> QED BY <2>1, <2>2
<1> HIDE DEF n, g, p
<1>4. Sound(graph') /\ Extends(graph, graph')
  BY <1>3 DEF Grown
<1>5. Variable(made, graph', pass) /\ made \in Variables /\ Declared(made, Layout(o), pass)
  <2>1. Variable(made, graph', pass)
    BY <1>2, <1>3, MadeOK
  <2> QED BY <1>3, <2>1 DEF Variable, Declared, Wrap, Layout, Known
<1>6. \A l : Declared(obj[o], l, pass) => l = Layout(o)
  BY DEF Declared, Layout
<1> HIDE DEF made, st, sel
<1>7. /\ obj' \in [Objects -> Variables] /\ obj'[o] = made
      /\ \A x \in Objects :
            /\ Variable(obj'[x], graph', pass)
            /\ \A l : Declared(obj[x], l, pass) => Declared(obj'[x], l, pass)
  <2>1. /\ Rebound(o, p) \in [Objects -> Variables]
        /\ \A x \in Objects :
              /\ Variable(Rebound(o, p)[x], graph', pass)
              /\ \A l : Declared(obj[x], l, pass) => Declared(Rebound(o, p)[x], l, pass)
    BY <1>1, <1>3, <1>4, ReboundFacts DEF sel
  <2>2. /\ obj' \in [Objects -> Variables] /\ obj'[o] = made
        /\ \A x \in Objects \ {o} : obj'[x] = Rebound(o, p)[x]
    BY <1>1, <1>5, <2>1
  <2> QED BY <1>5, <1>6, <2>1, <2>2
<1>8. /\ index \in [Layouts -> Named \cup {Nobody}]
      /\ \A l \in Layouts : index[l] # Nobody =>
            index[l] \in Objects /\ Declared(obj[index[l]], l, pass)
  BY <1>1 DEF CarrierInv, IndexInv, Objects
<1>9. /\ index' \in [Layouts -> Named \cup {Nobody}]
      /\ \A l \in Layouts : index'[l] = index[l]
                            \/ (l = Layout(o) /\ index'[l] = o)
  BY <1>1, <1>2, <1>8
<1>10. IndexInv'
  <2>1. ASSUME NEW l \in Layouts, index'[l] # Nobody
        PROVE  Declared(obj'[index'[l]], l, pass)
    BY <1>5, <1>7, <1>8, <1>9, <2>1
  <2> QED BY <1>1, <1>9, <2>1 DEF IndexInv
<1>11. CarrierInv'
  BY <1>1, <1>4, <1>7, <1>10, MemType DEF CarrierInv
<1> QED BY <1>1, <1>3, <1>11 DEF Kept, Grown

LEMMA StepKept == ASSUME CarrierInv, Next PROVE Kept
<1> USE CarrierInv
<1>1. ASSUME NEW o \in Named, Declare(o) PROVE Kept
  BY <1>1, DeclareKept
<1>2. ASSUME NEW o \in Objects, NEW b \in Operands, NEW t \in Temps, Call(o, b, t)
      PROVE  Kept
  BY <1>2, CallKept
<1>3. ASSUME NEW o \in Objects, NEW t \in Temps,
             Alias(o, t) \/ Narrow(o, t) \/ Convert(o, t) \/ Clone(o, t)
                \/ Uncaptured(o, t)
      PROVE  Kept
  BY <1>3, AliasKept, NarrowKept, ConvertKept, CloneKept, UncapturedKept
<1>4. ASSUME NEW o \in Objects, NEW b \in Operands, InPlace(o, b) PROVE Kept
  BY <1>4, InPlaceKept
<1>5. ASSUME NEW o \in Objects, NEW b \in Operands, NEW key \in {Lead, Whole},
             Assign(o, b, key)
      PROVE  Kept
  BY <1>5, AssignKept
<1>6. ASSUME NEW o \in Objects, NEW b \in Objects, NEW key \in {Lead, Whole},
             AssignPlain(o, b, key)
      PROVE  Kept
  BY <1>6, AssignPlainKept
<1>7. ASSUME NEW O \in SUBSET Objects, Output(O) PROVE Kept
  BY <1>7, OutputKept
<1>8. ASSUME ReplaceGraph PROVE Kept
  BY <1>8, ReplaceGraphKept
<1> QED BY <1>1, <1>2, <1>3, <1>4, <1>5, <1>6, <1>7, <1>8 DEF Next

LEMMA InitCarrier == Init => CarrierInv
<1> SUFFICES ASSUME Init PROVE CarrierInv
  OBVIOUS
<1>1. phase \in {"tracing", "done"} /\ pass = 1 /\ pass \in 1 .. MaxPasses
  BY CarrierAssumption DEF Init
<1>2. mem \in [Stores -> Contents]
  <2>1. \A s \in Stores : [i \in Whole |-> {<<"data", s>>}] \in Contents
    BY DEF Contents, Tokens
  <2> QED BY <2>1 DEF Init
<1>3. graph = <<>> /\ Sound(graph)
  BY DEF Init, Sound
<1>4. ASSUME NEW o \in Objects
      PROVE  Variable(obj[o], graph, pass) /\ obj[o].kind = "plain"
  <2>1. CASE o \in Named
    <3>1. Start[o].st \in Stores /\ Start[o].sel \in {Lead, Whole}
      BY <2>1, CarrierAssumption
    <3>2. obj[o] = Plain(Start[o].st, Start[o].sel)
      BY <2>1 DEF Init
    <3>3. obj[o].kind = "plain"
      BY <3>2 DEF Plain
    <3> QED BY <3>1, <3>2, <3>3, PlainOK
  <2>2. CASE o \notin Named
    <3>1. obj[o] = Nothing
      BY <2>2 DEF Init
    <3> QED BY <3>1, NothingOK DEF Nothing, Plain
  <2> QED BY <2>1, <2>2
<1>5. obj \in [Objects -> Variables]
  BY <1>4 DEF Init, Variable
<1>6. IndexInv
  BY <1>3 DEF Init, IndexInv
<1> QED BY <1>1, <1>2, <1>3, <1>4, <1>5, <1>6 DEF CarrierInv

LEMMA StutterKept == ASSUME CarrierInv, UNCHANGED vars PROVE Kept
BY DEF vars, Kept, CarrierInv, IndexInv, Tracing

LEMMA InvTypes == CarrierInv => TypeOK
<1> SUFFICES ASSUME CarrierInv PROVE TypeOK
  OBVIOUS
<1>1. phase \in {"tracing", "done"} /\ pass \in 1 .. MaxPasses
  BY DEF CarrierInv
<1>2. \A o \in Objects : obj[o] = Nothing \/ (obj[o].st \in Stores /\ obj[o].sel \in {Lead, Whole})
  BY ObjectFacts
<1>3. \A o \in Objects : Carrier(o) => Handle(o).pass \in 1 .. pass
  BY HandleFacts
<1>4. \A o \in Objects : Fresh(o) => graph[Handle(o).node].sel = obj[o].sel
  BY HandleFacts DEF Known, Fresh
<1>5. ASSUME NEW l \in Layouts, Tracing, index[l] # Nobody
      PROVE  Carrier(index[l]) /\ Layout(index[l]) = l
  <2>1. index[l] \in Objects /\ Declared(obj[index[l]], l, pass)
    BY <1>5 DEF CarrierInv, IndexInv, Objects
  <2> QED BY <2>1, ObjectFacts DEF Declared, Layout
<1> QED BY <1>1, <1>2, <1>3, <1>4, <1>5 DEF TypeOK

\* Every variable of the program refers to a storage or to nothing, every
\* carrier of a pass to a recorded node for the very parts it covers, and the
\* layout index (_layout_index) to carriers of the layouts they stand for.
THEOREM TypeCorrect == Spec => []TypeOK
<1>1. CarrierInv /\ [Next]_vars => CarrierInv'
  BY StepKept, StutterKept DEF Kept
<1> QED BY <1>1, InitCarrier, InvTypes, PTL DEF Spec

LEMMA ClosedIs == Closed(graph, pass) <=> GraphClosed
BY DEF Closed, GraphClosed

\* Unless the program assigns values traced before its graph was replaced,
\* no node recorded in a pass has an argument of another pass or one recorded
\* after it (describes_replaced_graph).
THEOREM ClosedAlways == ASSUME "stale" \notin Habits PROVE Spec => []GraphClosed
<1> DEFINE Inv == CarrierInv /\ Closed(graph, pass)
<1>1. Init => Inv
  <2>1. Init => Closed(graph, pass)
    BY DEF Init, Closed
  <2> QED BY <2>1, InitCarrier
<1>2. Inv /\ [Next]_vars => Inv'
  BY StepKept, StutterKept DEF Kept
<1>3. Inv => GraphClosed
  BY ClosedIs
<1> HIDE DEF Inv
<1> QED BY <1>1, <1>2, <1>3, PTL DEF Spec

-----------------------------------------------------------------------------
(* A port is the value of its output                                       *)

LEMMA Stored ==
    ASSUME CarrierInv, NEW s \in Stores, NEW v \in Contents, NEW sel
    PROVE  /\ \A x \in Stores \ {s} : Store(s, v, sel)[x] = mem[x]
           /\ Only(Store(s, v, sel)[s], sel) = Only(v, sel)
           /\ Only(Store(s, v, sel)[s], sel) = Only(Only(v, sel), sel)
<1>1. mem \in [Stores -> Contents]
  BY MemType
<1>2. Store(s, v, sel)[s] = Over(mem[s], v, sel)
      /\ \A x \in Stores \ {s} : Store(s, v, sel)[x] = mem[x]
  BY <1>1 DEF Store
<1> QED BY <1>2 DEF Over, Only

\* Of the carriers, only t may hold the bytes the step writes and keep a port.
LEMMA PortStored ==
    ASSUME CarrierInv, PortTruthful, NEW t \in Objects,
           NEW s \in Stores, NEW v \in Contents, NEW sel, mem' = Store(s, v, sel),
           \A o \in Objects \ {t} : obj[o].st = s => obj[o].port = NoPort,
           NEW args, \A o \in Objects \ {t} : obj'[o] = Shed(args)[o],
           obj'[t].port # NoPort => obj'[t].port = Only(mem'[obj'[t].st], obj'[t].sel)
    PROVE  PortTruthful'
<1> SUFFICES ASSUME NEW o \in Objects, obj'[o].port # NoPort
             PROVE  obj'[o].port = Only(mem'[obj'[o].st], obj'[o].sel)
  BY DEF PortTruthful, Value
<1>1. CASE o # t
  <2>1. obj'[o] = obj[o]
    <3>1. Plain(obj[o].st, obj[o].sel).port = NoPort
      BY DEF Plain
    <3>2. Shed(args)[o] \in {obj[o], Plain(obj[o].st, obj[o].sel)}
      BY ShedFacts
    <3> QED BY <1>1, <3>1, <3>2
  <2>2. obj[o].st # s /\ obj[o].st \in Stores
    BY <1>1, <2>1, ObjectFacts
  <2>3. mem'[obj[o].st] = mem[obj[o].st]
    BY <2>2, Stored
  <2> QED BY <2>1, <2>3 DEF PortTruthful, Value
<1> QED BY <1>1

\* A step that writes no bytes.
LEMMA PortUnwritten ==
    ASSUME PortTruthful, UNCHANGED mem,
           \A o \in Objects : obj'[o].port # NoPort =>
              obj'[o] = obj[o] \/ obj'[o].port = Only(mem[obj'[o].st], obj'[o].sel)
    PROVE  PortTruthful'
BY DEF PortTruthful, Value

LEMMA FreshStore ==
    ASSUME CarrierInv, NEW t \in Objects, NEW s \in Allocated(t)
    PROVE  s \in Stores /\ \A o \in Objects \ {t} : obj[o].st = s => obj[o].port = NoPort
BY AllocatedFacts

LEMMA ShedElsewhere ==
    ASSUME CarrierInv, NEW t \in Objects, NEW r, obj' = [obj EXCEPT ![t] = r]
    PROVE  /\ \A o \in Objects \ {t} : obj'[o] = Shed({})[o]
           /\ obj'[t] = r
BY ShedNone DEF CarrierInv

LEMMA DeclarePort ==
    ASSUME CarrierInv, PortTruthful, NEW o \in Named, Declare(o) PROVE PortTruthful'
<1>1. UNCHANGED mem
  BY DEF Declare
<1>2. PICK p : obj' = [Rebound(o, p) EXCEPT ![o] = Wrap("torch", obj[o].st, obj[o].sel, p)]
  BY DEF Declare
<1>3. ASSUME NEW x \in Objects, obj'[x].port # NoPort
      PROVE  obj'[x].port = obj[x].port /\ obj'[x].st = obj[x].st /\ obj'[x].sel = obj[x].sel
  <2>1. x # o /\ obj'[x] = Rebound(o, p)[x]
    BY <1>2, <1>3 DEF Rebound, Wrap, Objects
  <2>2. obj[x] \in Variables
    BY DEF CarrierInv
  <2> QED BY <2>1, <2>2 DEF Rebound, Variables
<1>4. ASSUME NEW x \in Objects, obj'[x].port # NoPort
      PROVE  obj'[x].port = Only(mem[obj'[x].st], obj'[x].sel)
  BY <1>3, <1>4 DEF PortTruthful, Value
<1> QED BY <1>1, <1>4, PortUnwritten

LEMMA CallPort ==
    ASSUME CarrierInv, PortTruthful, NEW o \in Objects, NEW b \in Operands,
           NEW t \in Temps, Call(o, b, t)
    PROVE  PortTruthful'
<1> DEFINE v == Xor(Value(o), Operand(b, Whole))
<1>1. /\ v \in Contents /\ t \in Objects
  <2>1. Something(o) /\ Something(b)
    BY CarrierSomething, FittingFacts DEF Call
  <2> QED BY <2>1, ObjectFacts, OperandType, ContentsType DEF Call, Objects
<1>2. \E s \in Allocated(t) : \E r :
         /\ obj' = [Shed({o, b}) EXCEPT ![t] = r] /\ r.port = NoPort
         /\ mem' = Store(s, v, Whole)
  <2>1. \A s, p : /\ Wrap("torch", s, Whole, p).port = NoPort
                  /\ Plain(s, Whole).port = NoPort
    BY DEF Wrap, Plain
  <2>2. \E s \in Allocated(t) : \E p :
           /\ mem' = Store(s, v, Whole)
           /\ \/ obj' = [Shed({o, b}) EXCEPT ![t] = Wrap("torch", s, Whole, p)]
              \/ obj' = [Shed({o, b}) EXCEPT ![t] = Plain(s, Whole)]
    BY DEF Call
  <2> HIDE DEF v
  <2> QED BY <2>1, <2>2
<1> HIDE DEF v
<1>3. PICK s \in Allocated(t) : \E r :
         /\ obj' = [Shed({o, b}) EXCEPT ![t] = r] /\ r.port = NoPort
         /\ mem' = Store(s, v, Whole)
  BY <1>2
<1>4. obj'[t].port = NoPort /\ \A x \in Objects \ {t} : obj'[x] = Shed({o, b})[x]
  BY <1>1, <1>3, ShedFacts
<1>5. s \in Stores /\ \A x \in Objects \ {t} : obj[x].st = s => obj[x].port = NoPort
  BY <1>1, FreshStore
<1>6. mem' = Store(s, v, Whole)
  BY <1>3
<1> QED BY <1>1, <1>4, <1>5, <1>6, PortStored

LEMMA ViewPort ==
    ASSUME CarrierInv, PortTruthful, NEW o \in Objects, NEW t \in Temps,
           Alias(o, t) \/ Narrow(o, t)
    PROVE  PortTruthful'
<1>1. UNCHANGED mem
  BY DEF Alias, Narrow
<1>2. \E kind, st, sel, p : obj' \in {[obj EXCEPT ![t] = Wrap(kind, st, sel, p)],
                                      [obj EXCEPT ![t] = Plain(st, sel)]}
  BY DEF Alias, Narrow
<1>3. \A x \in Objects : obj'[x] = obj[x] \/ obj'[x].port = NoPort
  BY <1>2 DEF CarrierInv, Wrap, Plain
<1> QED BY <1>1, <1>3, PortUnwritten

LEMMA ConvertPort ==
    ASSUME CarrierInv, PortTruthful, NEW o \in Objects, NEW t \in Temps, Convert(o, t)
    PROVE  PortTruthful'
<1>1. UNCHANGED mem
  BY DEF Convert
<1>2. PICK kind :
         obj' = [obj EXCEPT ![t] = [Wrap(kind, obj[o].st, obj[o].sel, Handle(o))
                                      EXCEPT !.port = obj[o].port]]
  BY DEF Convert
<1> DEFINE r == [Wrap(kind, obj[o].st, obj[o].sel, Handle(o)) EXCEPT !.port = obj[o].port]
<1>3. r.port = obj[o].port /\ r.st = obj[o].st /\ r.sel = obj[o].sel
  BY DEF Wrap
<1>4. t \in Objects /\ obj'[t] = r /\ \A x \in Objects \ {t} : obj'[x] = obj[x]
  BY <1>2 DEF CarrierInv, Objects
<1> HIDE DEF r
<1>5. r.port # NoPort => r.port = Only(mem[r.st], r.sel)
  BY <1>3 DEF PortTruthful, Value
<1> QED BY <1>1, <1>4, <1>5, PortUnwritten

LEMMA ClonePort ==
    ASSUME CarrierInv, PortTruthful, NEW o \in Objects, NEW t \in Temps, Clone(o, t)
    PROVE  PortTruthful'
<1>1. t \in Objects /\ Value(o) \in Contents /\ obj[o].sel = Whole
  BY ObjectFacts DEF Clone, Fresh, Objects
<1>2. \E s \in Allocated(t) : \E r :
         /\ mem' = Store(s, Value(o), Whole) /\ obj' = [obj EXCEPT ![t] = r]
         /\ r.port = NoPort \/ (r.port = obj[o].port /\ r.st = s /\ r.sel = Whole)
  <2>1. \A s : Plain(s, Whole).port = NoPort
    BY DEF Plain
  <2>2. \A kind, s, p, port :
           /\ Wrap(kind, s, Whole, p).port = NoPort
           /\ [Wrap(kind, s, Whole, p) EXCEPT !.port = port].port = port
           /\ [Wrap(kind, s, Whole, p) EXCEPT !.port = port].st = s
           /\ [Wrap(kind, s, Whole, p) EXCEPT !.port = port].sel = Whole
    BY DEF Wrap
  <2>3. PICK s \in Allocated(t) :
           /\ mem' = Store(s, Value(o), Whole)
           /\ \/ obj' = [obj EXCEPT ![t] = Plain(s, Whole)]
              \/ \E p : obj' = [obj EXCEPT ![t] = Wrap(obj[o].kind, s, Whole, p)]
              \/ obj' = [obj EXCEPT ![t] = [Wrap(obj[o].kind, s, Whole, Handle(o))
                                              EXCEPT !.port = obj[o].port]]
    BY DEF Clone
  <2>4. \E r : /\ obj' = [obj EXCEPT ![t] = r]
               /\ r.port = NoPort \/ (r.port = obj[o].port /\ r.st = s /\ r.sel = Whole)
    <3>1. CASE obj' = [obj EXCEPT ![t] = Plain(s, Whole)]
      BY <2>1, <3>1
    <3>2. CASE \E p : obj' = [obj EXCEPT ![t] = Wrap(obj[o].kind, s, Whole, p)]
      <4>1. PICK p : obj' = [obj EXCEPT ![t] = Wrap(obj[o].kind, s, Whole, p)]
        BY <3>2
      <4>2. Wrap(obj[o].kind, s, Whole, p).port = NoPort
        BY <2>2
      <4> QED BY <4>1, <4>2
    <3>3. CASE obj' = [obj EXCEPT ![t] = [Wrap(obj[o].kind, s, Whole, Handle(o))
                                            EXCEPT !.port = obj[o].port]]
      <4> DEFINE r == [Wrap(obj[o].kind, s, Whole, Handle(o)) EXCEPT !.port = obj[o].port]
      <4>1. r.port = obj[o].port /\ r.st = s /\ r.sel = Whole
        BY <2>2
      <4>2. obj' = [obj EXCEPT ![t] = r]
        BY <3>3
      <4> HIDE DEF r
      <4> QED BY <4>1, <4>2
    <3> QED BY <2>3, <3>1, <3>2, <3>3
  <2> QED BY <2>3, <2>4
<1>3. PICK s \in Allocated(t) : \E r :
         /\ mem' = Store(s, Value(o), Whole) /\ obj' = [obj EXCEPT ![t] = r]
         /\ r.port = NoPort \/ (r.port = obj[o].port /\ r.st = s /\ r.sel = Whole)
  BY <1>2
<1> DEFINE r == obj'[t]
<1>4. /\ r.port = NoPort \/ (r.port = obj[o].port /\ r.st = s /\ r.sel = Whole)
      /\ \A x \in Objects \ {t} : obj'[x] = Shed({})[x]
  BY <1>1, <1>3, ShedElsewhere
<1>5. s \in Stores /\ \A x \in Objects \ {t} : obj[x].st = s => obj[x].port = NoPort
  BY <1>1, FreshStore
<1>6. Only(mem'[s], Whole) = Only(Value(o), Whole)
  BY <1>1, <1>3, <1>5, Stored
<1>7. Only(Value(o), Whole) = Value(o)
  BY <1>1 DEF Only, Value
<1>8. r.port # NoPort => r.port = Only(mem'[r.st], r.sel)
  BY <1>4, <1>6, <1>7 DEF PortTruthful
<1> QED BY <1>1, <1>3, <1>4, <1>5, <1>8, PortStored

LEMMA UncapturedPort ==
    ASSUME CarrierInv, PortTruthful, NEW o \in Objects, NEW t \in Temps,
           Uncaptured(o, t)
    PROVE  PortTruthful'
<1>1. t \in Objects /\ Xor(Value(o), Ones) \in Contents
  BY ObjectFacts, ContentsType DEF Uncaptured, Fresh, Objects
<1>2. PICK s \in Allocated(t) : \E p :
         /\ obj' = [obj EXCEPT ![t] = Wrap("numpy", s, Whole, p)]
         /\ mem' = Store(s, Xor(Value(o), Ones), Whole)
  BY DEF Uncaptured
<1>3. obj'[t].port = NoPort /\ \A x \in Objects \ {t} : obj'[x] = Shed({})[x]
  <2>1. PICK p : obj' = [obj EXCEPT ![t] = Wrap("numpy", s, Whole, p)]
    BY <1>2
  <2>2. Wrap("numpy", s, Whole, p).port = NoPort
    BY DEF Wrap
  <2> QED BY <1>1, <2>1, <2>2, ShedElsewhere
<1>4. s \in Stores /\ \A x \in Objects \ {t} : obj[x].st = s => obj[x].port = NoPort
  BY <1>1, FreshStore
<1> QED BY <1>1, <1>2, <1>3, <1>4, PortStored

LEMMA InPlacePort ==
    ASSUME CarrierInv, PortTruthful, "shared" \notin Habits,
           NEW o \in Objects, NEW b \in Operands, InPlace(o, b)
    PROVE  PortTruthful'
<1> DEFINE given == IF Tracing THEN {b} ELSE {}
           sel == obj[o].sel
           v == Xor(Value(o), Operand(b, sel))
<1>1. /\ obj[o] # Nothing /\ b \in Fitting(sel) /\ mem' = Store(obj[o].st, v, sel)
      /\ \A c \in Objects \ {o} : obj[c].st = obj[o].st => obj[c].port = NoPort
  BY DEF InPlace, Transitable
<1>2. obj[o].st \in Stores /\ sel \in {Lead, Whole} /\ Value(o) \in Contents
  BY <1>1, ObjectFacts
<1>3. v \in Contents
  BY <1>1, <1>2, FittingFacts, OperandType, ContentsType
<1>4. \E args : obj'[o].port = NoPort
                /\ \A x \in Objects \ {o} : obj'[x] = Shed(args)[x]
  <2>1. CASE obj' = [Shed(given) EXCEPT ![o].port = NoPort, ![o].proxy = Handle(o)]
    <3>1. Shed(given) \in [Objects -> Variables]
      BY ShedFacts
    <3>2. \A x \in Objects \ {o} : obj'[x] = Shed(given)[x]
      BY <2>1, <3>1
    <3>3. obj'[o].port = NoPort
      BY <2>1, <3>1 DEF Variables
    <3> QED BY <3>2, <3>3
  <2>2. CASE \E p : obj' = [obj EXCEPT ![o] = Wrap("torch", obj[o].st, sel, p)]
    <3>1. PICK p : obj' = [obj EXCEPT ![o] = Wrap("torch", obj[o].st, sel, p)]
      BY <2>2
    <3> DEFINE made == Wrap("torch", obj[o].st, sel, p)
    <3>2. made.port = NoPort
      BY DEF Wrap
    <3>3. obj' = [obj EXCEPT ![o] = made]
      BY <3>1
    <3> HIDE DEF made
    <3> QED BY <3>2, <3>3, ShedElsewhere
  <2> QED BY <2>1, <2>2 DEF InPlace
<1> HIDE DEF v, sel
<1> QED BY <1>1, <1>2, <1>3, <1>4, PortStored

\* A value written over the whole of a carrier, and its port with it.
LEMMA PortAdopted ==
    ASSUME CarrierInv, PortTruthful, "shared" \notin Habits,
           NEW o \in Objects, obj[o].st \in Stores, Transitable(o),
           NEW v \in Contents, NEW key, mem' = Store(obj[o].st, v, key),
           NEW r, r.st = obj[o].st, r.sel = obj[o].sel,
           obj' = [obj EXCEPT ![o] = r],
           r.port # NoPort => /\ key = obj[o].sel
                              /\ \E b \in Objects : /\ obj[b].sel = key /\ v = Value(b)
                                                    /\ r.port = obj[b].port
    PROVE  PortTruthful'
<1>1. \A c \in Objects \ {o} : obj[c].st = obj[o].st => obj[c].port = NoPort
  BY DEF Transitable
<1>2. obj'[o] = r /\ \A x \in Objects \ {o} : obj'[x] = Shed({})[x]
  BY ShedElsewhere
<1>3. ASSUME r.port # NoPort PROVE r.port = Only(mem'[r.st], r.sel)
  <2>1. PICK b \in Objects : obj[b].sel = key /\ v = Value(b) /\ r.port = obj[b].port
    BY <1>3
  <2>2. r.port = v
    BY <1>3, <2>1 DEF PortTruthful
  <2>3. Only(mem'[r.st], r.sel) = Only(v, key)
    BY <1>3, Stored
  <2>4. Only(v, key) = v
    BY <2>1 DEF Value, Only
  <2> QED BY <2>2, <2>3, <2>4
<1> QED BY <1>1, <1>2, <1>3, PortStored

LEMMA AssignPort ==
    ASSUME CarrierInv, PortTruthful, "shared" \notin Habits, NEW o \in Objects,
           NEW b \in Operands, NEW key \in {Lead, Whole}, Assign(o, b, key)
    PROVE  PortTruthful'
<1> DEFINE r == IF Tracing THEN [obj[o] EXCEPT !.proxy = Handle(o), !.port = NoPort]
                ELSE OverwritePort(o, b, key)
<1>1. /\ Fresh(o) /\ b \in Fitting(key) /\ Transitable(o)
      /\ mem' = Store(obj[o].st, Operand(b, key), key)
      /\ obj' = [obj EXCEPT ![o] = r]
  BY DEF Assign
<1>2. obj[o].st \in Stores /\ obj[o] \in Variables
  BY <1>1, ObjectFacts DEF Fresh
<1>3. Something(b) /\ (b # Scalar => b \in Objects /\ obj[b].sel = key)
  BY <1>1, FittingFacts DEF Fitting
<1>4. Operand(b, key) \in Contents /\ (b # Scalar => Operand(b, key) = Value(b))
  BY <1>3, OperandType DEF Operand
<1>5. \E p, port : /\ r = [obj[o] EXCEPT !.proxy = p, !.port = port]
                   /\ port # NoPort => b # Scalar /\ key = obj[o].sel /\ port = obj[b].port
  <2>1. [obj[o] EXCEPT !.port = NoPort]
           = [obj[o] EXCEPT !.proxy = obj[o].proxy, !.port = NoPort]
    BY <1>2 DEF Variables
  <2>2. CASE Tracing
    BY <2>2
  <2>3. CASE ~Tracing /\ b # Scalar /\ obj[b].port # NoPort /\ key = obj[o].sel
    <3>1. r = [obj[o] EXCEPT !.port = obj[b].port, !.proxy = Handle(b)]
      BY <2>3 DEF OverwritePort
    <3>2. r = [obj[o] EXCEPT !.proxy = Handle(b), !.port = obj[b].port]
      BY <1>2, <3>1 DEF Variables
    <3> QED BY <2>3, <3>2
  <2>4. CASE ~Tracing /\ ~(b # Scalar /\ obj[b].port # NoPort /\ key = obj[o].sel)
    BY <2>1, <2>4 DEF OverwritePort
  <2> QED BY <2>2, <2>3, <2>4
<1> HIDE DEF r
<1>6. PICK p, port :
         /\ r = [obj[o] EXCEPT !.proxy = p, !.port = port]
         /\ port # NoPort => b # Scalar /\ key = obj[o].sel /\ port = obj[b].port
  BY <1>5
<1>7. r.st = obj[o].st /\ r.sel = obj[o].sel /\ r.port = port
  BY <1>2, <1>6 DEF Variables
<1>8. r.port # NoPort => /\ key = obj[o].sel
                         /\ \E c \in Objects : /\ obj[c].sel = key
                                                /\ Operand(b, key) = Value(c)
                                                /\ r.port = obj[c].port
  BY <1>3, <1>4, <1>6, <1>7
<1> DEFINE v == Operand(b, key)
<1>9. v \in Contents /\ mem' = Store(obj[o].st, v, key)
  BY <1>1, <1>4
<1> HIDE DEF v
<1> QED BY <1>1, <1>2, <1>7, <1>8, <1>9, PortAdopted DEF v

LEMMA AssignPlainPort ==
    ASSUME CarrierInv, PortTruthful, "shared" \notin Habits, NEW o \in Objects,
           NEW b \in Objects, NEW key \in {Lead, Whole}, AssignPlain(o, b, key)
    PROVE  PortTruthful'
<1> DEFINE port == IF key = obj[o].sel THEN obj[b].port ELSE NoPort
<1>1. /\ obj[o] # Nothing /\ Fresh(b) /\ obj[b].sel = key /\ Transitable(o)
      /\ mem' = Store(obj[o].st, Value(b), key)
  BY DEF AssignPlain
<1>2. PICK p :
         obj' = [obj EXCEPT ![o] = [Wrap("torch", obj[o].st, obj[o].sel, p)
                                      EXCEPT !.port = port]]
  BY DEF AssignPlain
<1> DEFINE r == [Wrap("torch", obj[o].st, obj[o].sel, p) EXCEPT !.port = port]
<1>3. r.st = obj[o].st /\ r.sel = obj[o].sel /\ r.port = port
  BY DEF Wrap
<1>4. obj[o].st \in Stores /\ Value(b) \in Contents
  BY <1>1, ObjectFacts DEF Fresh
<1>5. obj' = [obj EXCEPT ![o] = r]
  BY <1>2
<1> HIDE DEF r
<1> QED BY <1>1, <1>3, <1>4, <1>5, PortAdopted

LEMMA OutputPort ==
    ASSUME CarrierInv, PortTruthful, NEW O \in SUBSET Objects, Output(O)
    PROVE  PortTruthful'
<1>1. /\ UNCHANGED mem
      /\ obj' = [o \in Objects |-> IF o \in O
                    THEN [obj[o] EXCEPT !.port = Value(o), !.proxy = Handle(o)]
                    ELSE obj[o]]
  BY DEF Output
<1>2. ASSUME NEW o \in O
      PROVE  obj'[o].port = Value(o) /\ obj'[o].st = obj[o].st /\ obj'[o].sel = obj[o].sel
  <2>1. obj'[o] = [obj[o] EXCEPT !.port = Value(o), !.proxy = Handle(o)]
    BY <1>1
  <2>2. obj[o] \in Variables
    BY ObjectFacts
  <2> QED BY <2>1, <2>2 DEF Variables
<1> QED BY <1>1, <1>2, PortUnwritten DEF Value

LEMMA ReplaceGraphPort ==
    ASSUME CarrierInv, PortTruthful, ReplaceGraph PROVE PortTruthful'
<1>1. /\ UNCHANGED mem
      /\ obj' = [o \in Objects |-> IF obj[o].kind = "numpy" THEN Nothing ELSE obj[o]]
  BY DEF ReplaceGraph
<1>2. Nothing.port = NoPort
  BY DEF Nothing, Plain
<1> QED BY <1>1, <1>2, PortUnwritten

\* After output_tensors, a program that writes no bytes another output was
\* published from leaves every port on a carrier that still holds what was
\* published there: full writes take the port along, partial ones and in-place
\* calls drop it, views never get one (overwrite_port).
THEOREM PortAlways == ASSUME "shared" \notin Habits PROVE Spec => []PortTruthful
<1> DEFINE Inv == CarrierInv /\ PortTruthful
<1>1. Init => Inv
  <2>1. ASSUME Init, NEW o \in Objects PROVE obj[o].port = NoPort
    BY <2>1 DEF Init, Plain, Nothing
  <2> QED BY <2>1, InitCarrier DEF PortTruthful
<1>2. Inv /\ [Next]_vars => Inv'
  <2> SUFFICES ASSUME CarrierInv, PortTruthful, [Next]_vars PROVE Inv'
    OBVIOUS
  <2>1. CarrierInv'
    BY StepKept, StutterKept DEF Kept
  <2>2. ASSUME UNCHANGED vars PROVE PortTruthful'
    BY <2>2, PortUnwritten DEF vars
  <2>3. ASSUME Next PROVE PortTruthful'
    <3>1. ASSUME NEW o \in Named, Declare(o) PROVE PortTruthful'
      BY <3>1, DeclarePort
    <3>2. ASSUME NEW o \in Objects, NEW b \in Operands, NEW t \in Temps, Call(o, b, t)
          PROVE  PortTruthful'
      BY <3>2, CallPort
    <3>3. ASSUME NEW o \in Objects, NEW t \in Temps,
                 Alias(o, t) \/ Narrow(o, t) \/ Convert(o, t) \/ Clone(o, t)
                    \/ Uncaptured(o, t)
          PROVE  PortTruthful'
      BY <3>3, ViewPort, ConvertPort, ClonePort, UncapturedPort
    <3>4. ASSUME NEW o \in Objects, NEW b \in Operands, InPlace(o, b)
          PROVE  PortTruthful'
      BY <3>4, InPlacePort
    <3>5. ASSUME NEW o \in Objects, NEW b \in Operands, NEW key \in {Lead, Whole},
                 Assign(o, b, key)
          PROVE  PortTruthful'
      BY <3>5, AssignPort
    <3>6. ASSUME NEW o \in Objects, NEW b \in Objects, NEW key \in {Lead, Whole},
                 AssignPlain(o, b, key)
          PROVE  PortTruthful'
      BY <3>6, AssignPlainPort
    <3>7. ASSUME NEW O \in SUBSET Objects, Output(O) PROVE PortTruthful'
      BY <3>7, OutputPort
    <3>8. ASSUME ReplaceGraph PROVE PortTruthful'
      BY <3>8, ReplaceGraphPort
    <3> QED BY <2>3, <3>1, <3>2, <3>3, <3>4, <3>5, <3>6, <3>7, <3>8 DEF Next
  <2> QED BY <2>1, <2>2, <2>3
<1>3. Inv => PortTruthful
  OBVIOUS
<1> HIDE DEF Inv
<1> QED BY <1>1, <1>2, <1>3, PTL DEF Spec

-----------------------------------------------------------------------------
(* Cells.  An induction over the nodes is one over a set of their numbers  *)

\* Every argument of a node is an earlier node, or 0 for none.
Backward(g) ==
    /\ Len(g) \in Nat /\ DOMAIN g = 1 .. Len(g)
    /\ \A i \in 1 .. Len(g) : g[i].a.node \in 0 .. i - 1 /\ g[i].b.node \in 0 .. i - 1

LEMMA ClosedBackward == ASSUME NEW g, Sound(g), NEW q, Closed(g, q) PROVE Backward(g)
<1>1. g \in Seq(FXNodes)
  BY DEF Sound
<1>2. Len(g) \in Nat /\ DOMAIN g = 1 .. Len(g) /\ \A i \in 1 .. Len(g) : g[i] \in FXNodes
  BY <1>1
<1>3. ASSUME NEW i \in 1 .. Len(g), NEW p \in {g[i].a, g[i].b} PROVE p.node \in 0 .. i - 1
  <2>1. p \in Proxies
    BY <1>2, <1>3 DEF FXNodes
  <2>2. p.node \in Nat /\ NoProxy.node = 0
    BY <2>1 DEF Proxies, NoProxy
  <2>3. p # NoProxy => p.node < i
    BY <1>2, <1>3 DEF Closed
  <2> QED BY <2>2, <2>3
<1> QED BY <1>2, <1>3 DEF Backward

\* A set of numbers up to n that holds 0 and with every number the next.
LEMMA UpTo ==
    ASSUME NEW n \in Nat, NEW S, 0 \in S, \A k \in 1 .. n : k - 1 \in S => k \in S
    PROVE  0 .. n \subseteq S
<1> DEFINE T == {k \in 0 .. n : k \notin S}
<1> SUFFICES ASSUME T # {} PROVE FALSE
  OBVIOUS
<1>1. PICK k \in T : \A j \in T : k =< j
  <2>1. T \subseteq Nat
    OBVIOUS
  <2> HIDE DEF T
  <2> QED BY <2>1, Least
<1>2. k \in 1 .. n /\ k - 1 \notin T
  BY <1>1
<1> QED BY <1>1, <1>2

CellRule(g, f, n) ==
    f = [i \in 0 .. n |-> IF i > 0 /\ g[i].op = "view" THEN f[g[i].a.node] ELSE i]

\* The rule of the recursive function in CellOf has a solution, which is CellOf.
LEMMA CellExists == ASSUME NEW g, Backward(g) PROVE \E f : CellRule(g, f, Len(g))
<1> DEFINE S == {n \in 0 .. Len(g) : \E f : CellRule(g, f, n)}
<1>0. Len(g) \in Nat
  BY DEF Backward
<1>1. 0 \in S
  <2>1. CellRule(g, [i \in 0 .. 0 |-> i], 0)
    BY DEF CellRule
  <2> QED BY <1>0, <2>1
<1>2. ASSUME NEW n \in 1 .. Len(g), n - 1 \in S PROVE n \in S
  <2>1. PICK f : CellRule(g, f, n - 1)
    BY <1>2
  <2> DEFINE h == [i \in 0 .. n |-> IF i < n THEN f[i]
                                    ELSE IF g[n].op = "view" THEN f[g[n].a.node] ELSE n]
  <2>2. \A i \in 0 .. n - 1 : h[i] = f[i]
    BY <1>0
  <2>3. \A i \in 1 .. n : g[i].a.node \in 0 .. i - 1
    BY <1>0, <1>2 DEF Backward
  <2>4. \A i \in 0 .. n : h[i] = IF i > 0 /\ g[i].op = "view" THEN h[g[i].a.node] ELSE i
    <3> SUFFICES ASSUME NEW i \in 0 .. n
                 PROVE  h[i] = IF i > 0 /\ g[i].op = "view" THEN h[g[i].a.node] ELSE i
      OBVIOUS
    <3>1. CASE i < n
      <4>1. i \in 0 .. n - 1 /\ h[i] = f[i]
        BY <1>0, <2>2, <3>1
      <4>2. f[i] = IF i > 0 /\ g[i].op = "view" THEN f[g[i].a.node] ELSE i
        BY <2>1, <4>1 DEF CellRule
      <4>3. i > 0 => h[g[i].a.node] = f[g[i].a.node]
        BY <1>0, <2>2, <2>3, <3>1
      <4> QED BY <4>1, <4>2, <4>3
    <3>2. CASE i = n
      <4>1. n > 0 /\ h[n] = IF g[n].op = "view" THEN f[g[n].a.node] ELSE n
        BY <1>0
      <4>2. h[g[n].a.node] = f[g[n].a.node]
        BY <1>0, <2>2, <2>3
      <4> HIDE DEF h
      <4> QED BY <3>2, <4>1, <4>2
    <3> QED BY <1>0, <3>1, <3>2
  <2>5. h = [i \in 0 .. n |-> h[i]]
    OBVIOUS
  <2> HIDE DEF h
  <2>6. CellRule(g, h, n)
    BY <2>4, <2>5 DEF CellRule
  <2> QED BY <2>6
<1> HIDE DEF S
<1>3. 0 .. Len(g) \subseteq S
  BY <1>0, <1>1, <1>2, UpTo
<1>4. Len(g) \in S
  BY <1>0, <1>3
<1> QED BY <1>4 DEF S

LEMMA CellDef ==
    ASSUME NEW g, Backward(g), NEW i \in 0 .. Len(g)
    PROVE  CellOf(g)[i] = IF i > 0 /\ g[i].op = "view" THEN CellOf(g)[g[i].a.node] ELSE i
<1>1. CellOf(g) = CHOOSE f : CellRule(g, f, Len(g))
  BY DEF CellOf, CellRule
<1>2. CellRule(g, CellOf(g), Len(g))
  BY <1>1, CellExists
<1> QED BY <1>2 DEF CellRule

LEMMA CellBounds ==
    ASSUME NEW g, Backward(g)
    PROVE  CellOf(g)[0] = 0 /\ \A i \in 1 .. Len(g) : CellOf(g)[i] \in 0 .. i
<1> DEFINE S == {n \in 0 .. Len(g) : \A i \in 0 .. n : CellOf(g)[i] \in 0 .. i}
<1>0. Len(g) \in Nat /\ \A i \in 1 .. Len(g) : g[i].a.node \in 0 .. i - 1
  BY DEF Backward
<1>1. CellOf(g)[0] = 0
  BY <1>0, CellDef
<1>2. 0 \in S
  BY <1>0, <1>1
<1>3. ASSUME NEW n \in 1 .. Len(g), n - 1 \in S PROVE n \in S
  <2>1. CellOf(g)[n] = IF g[n].op = "view" THEN CellOf(g)[g[n].a.node] ELSE n
    BY <1>0, CellDef
  <2>2. \A i \in 0 .. n - 1 : CellOf(g)[i] \in 0 .. i
    BY <1>3
  <2>3. CellOf(g)[g[n].a.node] \in 0 .. g[n].a.node
    BY <1>0, <2>2
  <2>4. CellOf(g)[n] \in 0 .. n
    BY <1>0, <2>1, <2>3
  <2> QED BY <1>0, <2>2, <2>4
<1> HIDE DEF S
<1>4. 0 .. Len(g) \subseteq S
  BY <1>0, <1>2, <1>3, UpTo
<1>5. Len(g) \in S
  BY <1>0, <1>4
<1> QED BY <1>0, <1>1, <1>5 DEF S

\* h starts with the nodes of g, as far as they compute: a layout that only a
\* promotion looks up may be forgotten.
Begins(g, h) ==
    /\ Len(g) =< Len(h)
    /\ \A i \in 1 .. Len(g) :
          /\ h[i].op = g[i].op /\ h[i].a = g[i].a /\ h[i].b = g[i].b
          /\ h[i].sel = g[i].sel /\ h[i].val = g[i].val
          /\ g[i].op = "ref" => h[i].st = g[i].st

\* A node recorded later gives no earlier one another cell.
LEMMA CellsBegin ==
    ASSUME NEW g, NEW h, Backward(g), Backward(h), Begins(g, h)
    PROVE  \A i \in 0 .. Len(g) : CellOf(h)[i] = CellOf(g)[i]
<1> DEFINE S == {n \in 0 .. Len(g) : \A i \in 0 .. n : CellOf(h)[i] = CellOf(g)[i]}
<1>0. /\ Len(g) \in Nat /\ Len(h) \in Nat /\ Len(g) =< Len(h)
      /\ \A i \in 1 .. Len(g) : g[i].a.node \in 0 .. i - 1
  BY DEF Backward, Begins
<1>2. 0 \in S
  BY <1>0, CellBounds
<1>3. ASSUME NEW n \in 1 .. Len(g), n - 1 \in S PROVE n \in S
  <2>1. CellOf(g)[n] = IF g[n].op = "view" THEN CellOf(g)[g[n].a.node] ELSE n
    BY <1>0, CellDef
  <2>2. CellOf(h)[n] = IF h[n].op = "view" THEN CellOf(h)[h[n].a.node] ELSE n
    <3>1. n \in 0 .. Len(h) /\ n > 0
      BY <1>0
    <3> QED BY <3>1, CellDef
  <2>3. h[n].op = g[n].op /\ h[n].a = g[n].a
    BY DEF Begins
  <2>4. \A i \in 0 .. n - 1 : CellOf(h)[i] = CellOf(g)[i]
    BY <1>3
  <2>5. CellOf(h)[n] = CellOf(g)[n]
    BY <1>0, <2>1, <2>2, <2>3, <2>4
  <2> QED BY <1>0, <2>4, <2>5
<1> HIDE DEF S
<1>4. 0 .. Len(g) \subseteq S
  BY <1>0, <1>2, <1>3, UpTo
<1>5. Len(g) \in S
  BY <1>0, <1>4
<1> QED BY <1>5 DEF S

-----------------------------------------------------------------------------
(* Running                                                                 *)

RunRule(g, K, m, f, n) ==
    f = [k \in 0 .. n |-> IF k = 0 THEN <<>> ELSE Advance(g, K, m, f[k-1], k)]

\* The cells after every node of the run.
Trail(g, K, m) == CHOOSE f : RunRule(g, K, m, f, Len(g))

LEMMA TrailExists ==
    ASSUME NEW g, Len(g) \in Nat, NEW K, NEW m PROVE \E f : RunRule(g, K, m, f, Len(g))
<1> DEFINE S == {n \in 0 .. Len(g) : \E f : RunRule(g, K, m, f, n)}
<1>1. 0 \in S
  <2>1. RunRule(g, K, m, [k \in 0 .. 0 |-> <<>>], 0)
    BY DEF RunRule
  <2> QED BY <2>1
<1>2. ASSUME NEW n \in 1 .. Len(g), n - 1 \in S PROVE n \in S
  <2>1. PICK f : RunRule(g, K, m, f, n - 1)
    BY <1>2
  <2> DEFINE h == [k \in 0 .. n |-> IF k < n THEN f[k] ELSE Advance(g, K, m, f[n-1], n)]
  <2>2. \A k \in 0 .. n : h[k] = IF k = 0 THEN <<>> ELSE Advance(g, K, m, h[k-1], k)
    <3> SUFFICES ASSUME NEW k \in 0 .. n
                 PROVE  h[k] = IF k = 0 THEN <<>> ELSE Advance(g, K, m, h[k-1], k)
      OBVIOUS
    <3>1. CASE k < n
      <4>1. h[k] = f[k] /\ (k > 0 => h[k-1] = f[k-1])
        BY <3>1
      <4>2. f[k] = IF k = 0 THEN <<>> ELSE Advance(g, K, m, f[k-1], k)
        BY <2>1, <3>1 DEF RunRule
      <4> HIDE DEF h
      <4> QED BY <4>1, <4>2
    <3>2. CASE k = n
      <4>1. h[n] = Advance(g, K, m, f[n-1], n) /\ h[n-1] = f[n-1]
        OBVIOUS
      <4> HIDE DEF h
      <4> QED BY <3>2, <4>1
    <3> QED BY <3>1, <3>2
  <2>3. h = [k \in 0 .. n |-> h[k]]
    OBVIOUS
  <2> HIDE DEF h
  <2>4. RunRule(g, K, m, h, n)
    BY <2>2, <2>3 DEF RunRule
  <2> QED BY <2>4
<1> HIDE DEF S
<1>3. 0 .. Len(g) \subseteq S
  BY <1>1, <1>2, UpTo
<1>4. Len(g) \in S
  BY <1>3
<1> QED BY <1>4 DEF S

LEMMA TrailDef ==
    ASSUME NEW g, Len(g) \in Nat, NEW K, NEW m
    PROVE  /\ Trail(g, K, m)[0] = <<>>
           /\ \A k \in 1 .. Len(g) :
                 Trail(g, K, m)[k] = Advance(g, K, m, Trail(g, K, m)[k-1], k)
           /\ Run(g, K, m) = Trail(g, K, m)[Len(g)]
<1>1. RunRule(g, K, m, Trail(g, K, m), Len(g))
  BY TrailExists DEF Trail
<1>2. Run(g, K, m) = Trail(g, K, m)[Len(g)]
  BY DEF Run, Trail, RunRule
<1> HIDE DEF Trail
<1> QED BY <1>1, <1>2 DEF RunRule

Arguments(n) == {p.node : p \in {n.a, n.b} \ {NoProxy}}

\* Nodes Run can execute: a constant held by reference has a storage, an
\* assignment a value, and a view what it is a view of.
Regular(g) ==
    \A i \in 1 .. Len(g) : /\ g[i].op = "ref" => g[i].st \in Stores
                           /\ g[i].op = "put" => g[i].b # NoProxy
                           /\ g[i].op = "view" => g[i].a # NoProxy
                           /\ 0 \notin Arguments(g[i])

\* Two memories with the same data where the graph refers to it.
SameRefs(g, m, mm) == \A i \in 1 .. Len(g) : g[i].op = "ref" => mm[g[i].st] = m[g[i].st]

LEMMA AdvanceBegins ==
    ASSUME NEW g, NEW h, Backward(g), Backward(h), Begins(g, h), Regular(g),
           NEW m, NEW mm, SameRefs(g, m, mm), NEW K, NEW L, NEW k \in 1 .. Len(g),
           k \in K <=> k \in L, NEW c
    PROVE  Advance(h, L, mm, c, k) = Advance(g, K, m, c, k)
<1>1. /\ h[k].op = g[k].op /\ h[k].a = g[k].a /\ h[k].b = g[k].b
      /\ h[k].sel = g[k].sel /\ h[k].val = g[k].val
      /\ g[k].op = "ref" => h[k].st = g[k].st
  BY DEF Begins
<1>2. g[k].a.node \in 0 .. Len(g) /\ g[k].b.node \in 0 .. Len(g) /\ Len(g) \in Nat
  BY DEF Backward
<1>3. /\ CellOf(h)[g[k].a.node] = CellOf(g)[g[k].a.node]
      /\ CellOf(h)[g[k].b.node] = CellOf(g)[g[k].b.node]
  BY <1>2, CellsBegin
<1>4. Reads(h, c, g[k].a) = Reads(g, c, g[k].a) /\ Reads(h, c, g[k].b) = Reads(g, c, g[k].b)
  BY <1>3 DEF Reads
<1>5. Result(h, c, h[k], mm) = Result(g, c, g[k], m)
  <2>1. g[k].op = "put" => h[g[k].b.node].sel = g[g[k].b.node].sel
    <3>1. ASSUME g[k].op = "put" PROVE g[k].b.node \in 1 .. Len(g)
      BY <1>2, <3>1 DEF Regular, Arguments
    <3> QED BY <3>1 DEF Begins
  <2>2. g[k].op = "ref" => mm[g[k].st] = m[g[k].st]
    BY DEF SameRefs
  <2> QED BY <1>1, <1>4, <2>1, <2>2 DEF Result
<1> QED BY <1>1, <1>3, <1>4, <1>5 DEF Advance

\* What a graph computes does not depend on the nodes recorded later.
LEMMA TrailBegins ==
    ASSUME NEW g, NEW h, Backward(g), Backward(h), Begins(g, h), Regular(g),
           NEW m, NEW mm, SameRefs(g, m, mm), NEW K, NEW L,
           \A i \in 1 .. Len(g) : i \in K <=> i \in L
    PROVE  \A k \in 0 .. Len(g) : Trail(h, L, mm)[k] = Trail(g, K, m)[k]
<1> DEFINE S == {k \in 0 .. Len(g) : Trail(h, L, mm)[k] = Trail(g, K, m)[k]}
<1>0. Len(g) \in Nat /\ Len(h) \in Nat /\ Len(g) =< Len(h)
  BY DEF Backward, Begins
<1>1. 0 \in S
  BY <1>0, TrailDef
<1>2. ASSUME NEW k \in 1 .. Len(g), k - 1 \in S PROVE k \in S
  <2>1. Trail(g, K, m)[k] = Advance(g, K, m, Trail(g, K, m)[k-1], k)
    BY <1>0, TrailDef
  <2>2. k \in 1 .. Len(h)
    BY <1>0
  <2>3. Trail(h, L, mm)[k] = Advance(h, L, mm, Trail(h, L, mm)[k-1], k)
    BY <1>0, <2>2, TrailDef
  <2>4. Trail(h, L, mm)[k-1] = Trail(g, K, m)[k-1]
    BY <1>2
  <2>5. Trail(h, L, mm)[k] = Trail(g, K, m)[k]
    BY <2>1, <2>3, <2>4, AdvanceBegins
  <2> QED BY <1>0, <2>5
<1> HIDE DEF S
<1>3. 0 .. Len(g) \subseteq S
  BY <1>0, <1>1, <1>2, UpTo
<1> QED BY <1>3 DEF S

\* The cells of all nodes.
Cells(g, m) == Run(g, DOMAIN g, m)

LEMMA CellsSame ==
    ASSUME NEW g, NEW h, Backward(g), Backward(h), Begins(g, h), Regular(g),
           Len(h) = Len(g), NEW m, NEW mm, SameRefs(g, m, mm)
    PROVE  Cells(h, mm) = Cells(g, m)
<1>1. Len(g) \in Nat /\ DOMAIN h = DOMAIN g
  BY DEF Backward
<1>2. \A k \in 0 .. Len(g) : Trail(h, DOMAIN h, mm)[k] = Trail(g, DOMAIN g, m)[k]
  BY <1>1, TrailBegins
<1> QED BY <1>1, <1>2, TrailDef DEF Cells

\* One more node changes the cell it writes to and no other.
LEMMA CellsAppended ==
    ASSUME NEW g, NEW h, Backward(g), Backward(h), Begins(g, h), Regular(g),
           Len(h) = Len(g) + 1, NEW m, NEW mm, SameRefs(g, m, mm)
    PROVE  LET n == h[Len(h)]
               c == Cells(g, m)
           IN  /\ \A i \in 1 .. Len(g) :
                     Cells(h, mm)[i] = IF n.op = "copy_" /\ i = CellOf(h)[n.a.node]
                                       THEN Over(c[i], Reads(h, c, n.b), n.sel) ELSE c[i]
               /\ n.op # "copy_" => Cells(h, mm)[Len(h)] = Result(h, c, n, mm)
<1>1. Len(g) \in Nat /\ DOMAIN g = 1 .. Len(g) /\ DOMAIN h = 1 .. Len(g) + 1 /\ Len(h) \in Nat
  BY DEF Backward
<1>2. \A k \in 0 .. Len(g) : Trail(h, DOMAIN h, mm)[k] = Trail(g, DOMAIN g, m)[k]
  <2>1. \A i \in 1 .. Len(g) : i \in DOMAIN g <=> i \in DOMAIN h
    BY <1>1
  <2> QED BY <2>1, TrailBegins
<1>3. Trail(h, DOMAIN h, mm)[Len(g)] = Cells(g, m)
  BY <1>1, <1>2, TrailDef DEF Cells
<1>4. Cells(h, mm) = Advance(h, DOMAIN h, mm, Cells(g, m), Len(h))
  <2>1. Len(h) \in 1 .. Len(h) /\ Len(h) - 1 = Len(g)
    BY <1>1
  <2> QED BY <1>1, <1>3, <2>1, TrailDef DEF Cells
<1>5. Len(h) \in DOMAIN h
  BY <1>1
<1> QED BY <1>1, <1>4, <1>5 DEF Advance

-----------------------------------------------------------------------------
(* Pruning                                                                 *)

\* Node i, the k-th from the end, adds its arguments if it is needed.
Widened(g, F, k) ==
    LET i == Len(g) + 1 - k IN IF i \in F THEN F \cup Arguments(g[i]) ELSE F

NeedRule(g, From, f, n) ==
    f = [k \in 0 .. n |-> IF k = 0 THEN From ELSE Widened(g, f[k-1], k)]

Needed(g, From) == CHOOSE f : NeedRule(g, From, f, Len(g))

LEMMA NeedExists ==
    ASSUME NEW g, Len(g) \in Nat, NEW From PROVE \E f : NeedRule(g, From, f, Len(g))
<1> DEFINE S == {n \in 0 .. Len(g) : \E f : NeedRule(g, From, f, n)}
<1>1. 0 \in S
  <2>1. NeedRule(g, From, [k \in 0 .. 0 |-> From], 0)
    BY DEF NeedRule
  <2> QED BY <2>1
<1>2. ASSUME NEW n \in 1 .. Len(g), n - 1 \in S PROVE n \in S
  <2>1. PICK f : NeedRule(g, From, f, n - 1)
    BY <1>2
  <2> DEFINE h == [k \in 0 .. n |-> IF k < n THEN f[k] ELSE Widened(g, f[n-1], n)]
  <2>2. \A k \in 0 .. n - 1 : f[k] = IF k = 0 THEN From ELSE Widened(g, f[k-1], k)
    BY <2>1 DEF NeedRule
  <2>3. \A k \in 0 .. n : h[k] = IF k = 0 THEN From ELSE Widened(g, h[k-1], k)
    <3> SUFFICES ASSUME NEW k \in 0 .. n
                 PROVE  h[k] = IF k = 0 THEN From ELSE Widened(g, h[k-1], k)
      OBVIOUS
    <3>1. CASE k < n
      <4>1. h[k] = f[k] /\ (k > 0 => h[k-1] = f[k-1])
        BY <3>1
      <4>2. f[k] = IF k = 0 THEN From ELSE Widened(g, f[k-1], k)
        BY <2>2, <3>1
      <4> HIDE DEF h
      <4> QED BY <4>1, <4>2
    <3>2. CASE k = n
      <4>1. h[n] = Widened(g, f[n-1], n) /\ h[n-1] = f[n-1]
        OBVIOUS
      <4> HIDE DEF h
      <4> QED BY <3>2, <4>1
    <3> QED BY <3>1, <3>2
  <2>4. h = [k \in 0 .. n |-> h[k]]
    OBVIOUS
  <2> HIDE DEF h
  <2>5. h = [k \in 0 .. n |-> IF k = 0 THEN From ELSE Widened(g, h[k-1], k)]
    BY <2>3, <2>4
  <2>6. NeedRule(g, From, h, n)
    BY <2>5 DEF NeedRule
  <2> QED BY <2>6
<1> HIDE DEF S
<1>3. 0 .. Len(g) \subseteq S
  BY <1>1, <1>2, UpTo
<1>4. Len(g) \in S
  BY <1>3
<1> QED BY <1>4 DEF S

LEMMA NeedDef ==
    ASSUME NEW g, Len(g) \in Nat, NEW From
    PROVE  /\ Needed(g, From)[0] = From
           /\ \A k \in 1 .. Len(g) : Needed(g, From)[k] = Widened(g, Needed(g, From)[k-1], k)
           /\ Reached(g, From) = Needed(g, From)[Len(g)]
<1>1. NeedRule(g, From, Needed(g, From), Len(g))
  BY NeedExists DEF Needed
<1>2. Reached(g, From) = Needed(g, From)[Len(g)]
  BY DEF Reached, Needed, NeedRule, Widened, Arguments
<1> HIDE DEF Needed
<1> QED BY <1>1, <1>2 DEF NeedRule

\* K holds with a node its arguments.
ArgClosed(g, K) == \A i \in K \cap (1 .. Len(g)) : Arguments(g[i]) \subseteq K

\* Nothing is kept that the roots do not need.
LEMMA ReachedLeast ==
    ASSUME NEW g, Len(g) \in Nat, NEW From, NEW K, From \subseteq K, ArgClosed(g, K)
    PROVE  Reached(g, From) \subseteq K
<1> DEFINE S == {k \in 0 .. Len(g) : Needed(g, From)[k] \subseteq K}
<1>1. 0 \in S
  BY NeedDef
<1>2. ASSUME NEW k \in 1 .. Len(g), k - 1 \in S PROVE k \in S
  <2>1. Len(g) + 1 - k \in 1 .. Len(g)
    OBVIOUS
  <2>2. Needed(g, From)[k-1] \subseteq K
    BY <1>2
  <2>3. Len(g) + 1 - k \in Needed(g, From)[k-1] => Arguments(g[Len(g) + 1 - k]) \subseteq K
    BY <2>1, <2>2 DEF ArgClosed
  <2>4. Needed(g, From)[k] = Widened(g, Needed(g, From)[k-1], k)
    BY NeedDef
  <2>5. Needed(g, From)[k] \subseteq K
    BY <2>2, <2>3, <2>4 DEF Widened
  <2> QED BY <2>5
<1> HIDE DEF S
<1>3. 0 .. Len(g) \subseteq S
  BY <1>1, <1>2, UpTo
<1>4. Len(g) \in S
  BY <1>3
<1> QED BY <1>4, NeedDef DEF S

LEMMA ArgumentsBefore ==
    ASSUME NEW g, Backward(g), NEW i \in 1 .. Len(g) PROVE Arguments(g[i]) \subseteq 0 .. i - 1
BY DEF Backward, Arguments

\* The list of needed nodes has all nodes a later one needs by the time its
\* turn comes: arguments come before what they are arguments of.
LEMMA ReachedClosed ==
    ASSUME NEW g, Backward(g), NEW From, From \subseteq 0 .. Len(g)
    PROVE  /\ From \subseteq Reached(g, From) /\ Reached(g, From) \subseteq 0 .. Len(g)
           /\ ArgClosed(g, Reached(g, From))
<1> DEFINE N == Len(g)
           Need == Needed(g, From)
           Settled(l) == /\ From \subseteq Need[l] /\ Need[l] \subseteq 0 .. N
                         /\ \A k \in 0 .. l : Need[k] \subseteq Need[l]
                         /\ \A k \in 1 .. l + 1 : \A j \in Need[l] :
                               j >= N + 1 - k => j \in Need[k-1]
           S == {l \in 0 .. N : Settled(l)}
<1>0. N \in Nat
  BY DEF Backward
<1>1. /\ Need[0] = From
      /\ \A k \in 1 .. N : Need[k] = Widened(g, Need[k-1], k)
      /\ Reached(g, From) = Need[N]
  BY <1>0, NeedDef
<1> HIDE DEF Need
<1>2. 0 \in S
  <2>1. \A k \in 0 .. 0 : k = 0
    OBVIOUS
  <2>2. \A k \in 1 .. 0 + 1 : k - 1 = 0
    OBVIOUS
  <2>3. Settled(0)
    BY <1>1, <2>1, <2>2
  <2> HIDE DEF Settled
  <2> QED BY <1>0, <2>3
<1>3. ASSUME NEW l \in 1 .. N, l - 1 \in S PROVE l \in S
  <2>1. Settled(l - 1)
    BY <1>3
  <2>2. N + 1 - l \in 1 .. N
    BY <1>0
  <2>3. Arguments(g[N + 1 - l]) \subseteq 0 .. N - l
    <3>1. Arguments(g[N + 1 - l]) \subseteq 0 .. (N + 1 - l) - 1
      BY <2>2, ArgumentsBefore
    <3> QED BY <1>0, <3>1
  <2>4. Need[l-1] \subseteq Need[l] /\ Need[l] \subseteq Need[l-1] \cup (0 .. N - l)
    <3>1. Need[l] = Widened(g, Need[l-1], l)
      BY <1>1
    <3> QED BY <2>3, <3>1 DEF Widened
  <2>5. From \subseteq Need[l] /\ Need[l] \subseteq 0 .. N
    BY <1>0, <2>1, <2>4
  <2>6. \A k \in 0 .. l : Need[k] \subseteq Need[l]
    <3>1. \A k \in 0 .. l - 1 : Need[k] \subseteq Need[l]
      BY <1>0, <2>1, <2>4
    <3> QED BY <1>0, <3>1
  <2>7. ASSUME NEW k \in 1 .. l + 1, NEW j \in Need[l], j >= N + 1 - k
        PROVE  j \in Need[k-1]
    <3>1. CASE k = l + 1
      BY <1>0, <3>1
    <3>2. CASE k \in 1 .. l
      <4>1. j \notin 0 .. N - l
        BY <1>0, <2>7, <3>2
      <4>2. j \in Need[l-1]
        BY <2>4, <4>1
      <4> QED BY <1>0, <2>1, <2>7, <3>2, <4>2
    <3> QED BY <1>0, <3>1, <3>2
  <2> QED BY <2>5, <2>6, <2>7
<1> HIDE DEF S
<1>4. 0 .. N \subseteq S
  BY <1>0, <1>2, <1>3, UpTo
<1>5. N \in S
  BY <1>0, <1>4
<1>6. Settled(N)
  BY <1>5 DEF S
<1>7. ASSUME NEW i \in Reached(g, From) \cap (1 .. N) PROVE Arguments(g[i]) \subseteq Need[N]
  <2> DEFINE k == N + 1 - i
  <2>1. k \in 1 .. N /\ k \in 1 .. N + 1 /\ N + 1 - k = i /\ i >= N + 1 - k
    BY <1>0
  <2>2. i \in Need[k-1]
    <3>1. i \in Need[N]
      BY <1>1, <1>7
    <3>2. \A l \in 1 .. N + 1 : \A j \in Need[N] : j >= N + 1 - l => j \in Need[l-1]
      BY <1>6
    <3> HIDE DEF k
    <3> QED BY <2>1, <3>1, <3>2
  <2>3. Arguments(g[i]) \subseteq Need[k]
    <3>1. Need[k] = Widened(g, Need[k-1], k)
      BY <1>1, <2>1
    <3> HIDE DEF k
    <3> QED BY <2>1, <2>2, <3>1 DEF Widened
  <2> HIDE DEF k
  <2> QED BY <1>0, <1>6, <2>1, <2>3
<1> QED BY <1>1, <1>6, <1>7 DEF ArgClosed

\* A graph the node may hold.
Sane(g) == g \in Seq(FXNodes) /\ Backward(g) /\ Regular(g)

\* Pruning keeps the outputs, every write and what they need, and no more.
LEMMA PruneFacts ==
    ASSUME NEW g, Sane(g), NEW From, From \subseteq 1 .. Len(g)
    PROVE  LET K == Prune(g, From)
           IN  /\ From \subseteq K /\ Mutations(g) \subseteq K /\ K \subseteq 1 .. Len(g)
               /\ ArgClosed(g, K)
               /\ \A L : From \cup Mutations(g) \subseteq L /\ ArgClosed(g, L) => K \subseteq L
<1>1. Backward(g) /\ Regular(g) /\ Len(g) \in Nat
  BY DEF Sane, Backward
<1> DEFINE F == From \cup Mutations(g)
<1>2. Prune(g, From) = Reached(g, F)
  BY DEF Prune
<1>3. F \subseteq 1 .. Len(g)
  BY DEF Mutations
<1> HIDE DEF F
<1>4. F \subseteq 0 .. Len(g)
  BY <1>1, <1>3
<1>5. F \subseteq Reached(g, F) /\ ArgClosed(g, Reached(g, F))
  BY <1>1, <1>4, ReachedClosed
<1>6. Reached(g, F) \subseteq 1 .. Len(g)
  <2>1. ASSUME NEW i \in 1 .. Len(g) PROVE Arguments(g[i]) \subseteq 1 .. Len(g)
    <3>1. Arguments(g[i]) \subseteq 0 .. i - 1 /\ 0 \notin Arguments(g[i])
      BY <1>1, ArgumentsBefore DEF Regular
    <3> QED BY <1>1, <3>1
  <2>2. ArgClosed(g, 1 .. Len(g))
    BY <2>1 DEF ArgClosed
  <2> QED BY <1>1, <1>3, <2>2, ReachedLeast
<1>7. \A L : F \subseteq L /\ ArgClosed(g, L) => Reached(g, F) \subseteq L
  BY <1>1, ReachedLeast
<1> QED BY <1>2, <1>5, <1>6, <1>7 DEF F

\* Node n depends on a capture that failed.
Tainted(g, n) == \E i \in Prune(g, {n}) : g[i].op = "failed"

LEMMA FailedTaints ==
    ASSUME NEW g, Sane(g), NEW n \in 1 .. Len(g), g[n].op = "failed" PROVE Tainted(g, n)
<1>1. {n} \subseteq Prune(g, {n})
  BY PruneFacts
<1> QED BY <1>1 DEF Tainted

\* A failed capture taints whatever needs what it taints.
LEMMA TaintSpreads ==
    ASSUME NEW g, NEW h, Sane(g), Sane(h), Begins(g, h), NEW n \in 1 .. Len(g),
           NEW x \in 1 .. Len(h), n \in Prune(h, {x}), Tainted(g, n)
    PROVE  Tainted(h, x)
<1> DEFINE K == Prune(h, {x})
           L == K \cap (1 .. Len(g))
<1>0. Len(g) \in Nat /\ Len(h) \in Nat /\ Len(g) =< Len(h) /\ 1 .. Len(g) \subseteq 1 .. Len(h)
  BY DEF Sane, Backward, Begins
<1>1. Mutations(h) \subseteq K /\ ArgClosed(h, K)
  BY PruneFacts
<1>2. Mutations(g) \subseteq L
  <2>1. Mutations(g) \subseteq Mutations(h) /\ Mutations(g) \subseteq 1 .. Len(g)
    BY <1>0 DEF Mutations, Begins
  <2> HIDE DEF K
  <2> QED BY <1>1, <2>1
<1>3. ArgClosed(g, L)
  <2> SUFFICES ASSUME NEW i \in L PROVE Arguments(g[i]) \subseteq L
    BY DEF ArgClosed
  <2>1. i \in 1 .. Len(g) /\ i \in K
    OBVIOUS
  <2> HIDE DEF K
  <2>2. Arguments(h[i]) = Arguments(g[i])
    BY <2>1 DEF Begins, Arguments
  <2>3. Arguments(h[i]) \subseteq K
    BY <1>0, <1>1, <2>1 DEF ArgClosed
  <2>4. Arguments(g[i]) \subseteq 0 .. i - 1 /\ 0 \notin Arguments(g[i])
    BY <2>1, ArgumentsBefore DEF Sane, Regular
  <2>5. Arguments(g[i]) \subseteq 1 .. Len(g)
    BY <1>0, <2>1, <2>4
  <2> QED BY <2>2, <2>3, <2>5
<1>4. Prune(g, {n}) \subseteq L
  <2>1. {n} \cup Mutations(g) \subseteq L
    BY <1>2
  <2> HIDE DEF L
  <2> QED BY <1>3, <2>1, PruneFacts
<1>5. PICK i \in Prune(g, {n}) : g[i].op = "failed"
  BY DEF Tainted
<1>6. i \in K /\ h[i].op = "failed"
  BY <1>4, <1>5 DEF Begins
<1> HIDE DEF K, L
<1> QED BY <1>6 DEF Tainted, K

\* What node x reads, and whatever is written, taints it.
LEMMA TaintBegins ==
    ASSUME NEW g, NEW h, Sane(g), Sane(h), Begins(g, h), NEW n \in 1 .. Len(g)
    PROVE  /\ Tainted(g, n) => Tainted(h, n)
           /\ \A x \in 1 .. Len(h) :
                 n \in Arguments(h[x]) /\ Tainted(g, n) => Tainted(h, x)
           /\ \A x \in 1 .. Len(h) : \A w \in Mutations(h) :
                 n \in Arguments(h[w]) /\ Tainted(g, n) => Tainted(h, x)
<1>0. 1 .. Len(g) \subseteq 1 .. Len(h)
  BY DEF Sane, Backward, Begins
<1>1. ASSUME NEW x \in 1 .. Len(h)
      PROVE  /\ x \in Prune(h, {x}) /\ Mutations(h) \subseteq Prune(h, {x})
             /\ \A i \in Prune(h, {x}) : Arguments(h[i]) \subseteq Prune(h, {x})
  <2>1. /\ {x} \subseteq Prune(h, {x}) /\ Mutations(h) \subseteq Prune(h, {x})
        /\ Prune(h, {x}) \subseteq 1 .. Len(h) /\ ArgClosed(h, Prune(h, {x}))
    BY PruneFacts
  <2> QED BY <2>1 DEF ArgClosed
<1>2. ASSUME NEW x \in 1 .. Len(h), n \in Prune(h, {x}), Tainted(g, n) PROVE Tainted(h, x)
  BY <1>2, TaintSpreads
<1> QED BY <1>0, <1>1, <1>2

-----------------------------------------------------------------------------
(* Recording a computation                                                 *)

Refers(g, p) ==
    p \in Proxies /\ (p # NoProxy => p.pass = pass /\ p.node \in 1 .. Len(g))

\* A node that only refers to recorded ones may be recorded.
LEMMA AppendSane ==
    ASSUME NEW g, Sane(g), NEW n \in FXNodes, Refers(g, n.a), Refers(g, n.b),
           n.op = "ref" => n.st \in Stores, n.op = "put" => n.b # NoProxy,
           n.op = "view" => n.a # NoProxy,
           pass \in Nat \ {0}
    PROVE  LET h == Append(g, n)
           IN  /\ Sane(h) /\ Begins(g, h)
               /\ Len(g) \in Nat /\ Len(h) = Len(g) + 1 /\ h[Len(h)] = n
               /\ \A i \in 1 .. Len(g) : h[i] = g[i]
               /\ Newest(h) = [pass |-> pass, node |-> Len(h)]
               /\ Refers(h, Newest(h)) /\ Newest(h) # NoProxy
<1> DEFINE h == Append(g, n)
<1>1. g \in Seq(FXNodes) /\ Backward(g) /\ Regular(g)
  BY DEF Sane
<1>2. /\ h \in Seq(FXNodes)
      /\ DOMAIN g = 1 .. Len(g) /\ Len(g) \in Nat
      /\ DOMAIN h = DOMAIN g \cup {Len(g) + 1}
      /\ Len(h) = Len(g) + 1
      /\ \A i \in DOMAIN g : h[i] = g[i]
      /\ h[Len(g) + 1] = n
  BY <1>1, AppendFacts
<1>3. Newest(h) = [pass |-> pass, node |-> Len(h)]
  BY DEF Newest
<1> HIDE DEF h
<1>4. Begins(g, h)
  BY <1>2 DEF Begins
<1>5. n.a.node \in 0 .. Len(g) /\ n.b.node \in 0 .. Len(g) /\ 0 \notin Arguments(n)
  <2>1. \A p : Refers(g, p) => p.node \in 0 .. Len(g) /\ (p # NoProxy => p.node # 0)
    BY <1>2 DEF Refers, NoProxy
  <2> QED BY <2>1 DEF Arguments
<1>6. Backward(h)
  <2>1. DOMAIN h = 1 .. Len(h) /\ Len(h) \in Nat
    BY <1>2
  <2>2. ASSUME NEW i \in 1 .. Len(h)
        PROVE  h[i].a.node \in 0 .. i - 1 /\ h[i].b.node \in 0 .. i - 1
    <3>1. CASE i \in 1 .. Len(g)
      BY <1>1, <1>2, <3>1 DEF Backward
    <3>2. CASE i = Len(g) + 1
      BY <1>2, <1>5, <3>2
    <3> QED BY <1>2, <3>1, <3>2
  <2> QED BY <2>1, <2>2 DEF Backward
<1>7. Regular(h)
  BY <1>1, <1>2, <1>5 DEF Regular
<1>8. Newest(h) # NoProxy /\ Refers(h, Newest(h))
  BY <1>2, <1>3 DEF NoProxy, Refers, Proxies
<1> QED BY <1>2, <1>3, <1>4, <1>6, <1>7, <1>8 DEF h, Sane

\* In the run on memory m proxy p, for the parts sel, reads v, unless that
\* depends on a failed capture; no proxy at all reads the scalar.
Gives(g, m, p, v, sel) ==
    /\ Refers(g, p)
    /\ p = NoProxy => v = Only(Ones, sel)
    /\ p # NoProxy => \/ Tainted(g, p.node)
                      \/ Only(Cells(g, m)[CellOf(g)[p.node]], sel) = v

\* Every node has a cell, its own or that of an earlier node.
LEMMA CellRange ==
    ASSUME NEW g, Sane(g), NEW n \in 1 .. Len(g) PROVE CellOf(g)[n] \in 1 .. n
<1> DEFINE S == {k \in 0 .. Len(g) : \A i \in 1 .. k : CellOf(g)[i] \in 1 .. i}
<1>0. Len(g) \in Nat /\ Backward(g) /\ Regular(g)
  BY DEF Sane, Backward
<1>1. 0 \in S
  BY <1>0
<1>2. ASSUME NEW k \in 1 .. Len(g), k - 1 \in S PROVE k \in S
  <2>1. CellOf(g)[k] = IF g[k].op = "view" THEN CellOf(g)[g[k].a.node] ELSE k
    BY <1>0, CellDef
  <2>2. \A i \in 1 .. k - 1 : CellOf(g)[i] \in 1 .. i
    BY <1>2
  <2>3. g[k].op = "view" => g[k].a.node \in 1 .. k - 1
    BY <1>0 DEF Backward, Regular, Arguments
  <2>4. CellOf(g)[k] \in 1 .. k
    BY <1>0, <2>1, <2>2, <2>3
  <2> QED BY <1>0, <2>2, <2>4
<1> HIDE DEF S
<1>3. 0 .. Len(g) \subseteq S
  BY <1>0, <1>1, <1>2, UpTo
<1> QED BY <1>0, <1>3 DEF S

LEMMA NewCell ==
    ASSUME NEW g, Sane(g), NEW n \in 1 .. Len(g), g[n].op # "view"
    PROVE  CellOf(g)[n] = n
<1>1. Backward(g) /\ n \in 0 .. Len(g)
  BY DEF Sane, Backward
<1> QED BY <1>1, CellDef

\* What was computed stays: a pure node writes to no cell.
LEMMA PureKeeps ==
    ASSUME NEW g, NEW h, Sane(g), Sane(h), Begins(g, h), Len(h) = Len(g) + 1,
           h[Len(h)].op # "copy_", NEW m, NEW mm, SameRefs(g, m, mm),
           NEW n \in 1 .. Len(g)
    PROVE  /\ CellOf(h)[n] = CellOf(g)[n]
           /\ Cells(h, mm)[CellOf(h)[n]] = Cells(g, m)[CellOf(g)[n]]
           /\ Tainted(g, n) => Tainted(h, n)
<1>1. CellOf(h)[n] = CellOf(g)[n]
  BY CellsBegin DEF Sane
<1>2. CellOf(g)[n] \in 1 .. Len(g)
  <2>1. Len(g) \in Nat
    BY DEF Sane, Backward
  <2> QED BY <2>1, CellRange
<1>3. Cells(h, mm)[CellOf(g)[n]] = Cells(g, m)[CellOf(g)[n]]
  BY <1>2, CellsAppended DEF Sane
<1> QED BY <1>1, <1>3, TaintBegins

LEMMA Computing ==
    /\ \A v, w, sel : Only(Xor(v, w), sel) = Xor(Only(v, sel), Only(w, sel))
    /\ \A v, sel : Only(Only(v, sel), sel) = Only(v, sel)
    /\ \A v, w, key, sel : key \subseteq sel =>
          Only(Over(v, w, key), sel) = Over(Only(v, sel), Only(w, key), key)
<1>1. ASSUME NEW v, NEW w, NEW sel
      PROVE  Only(Xor(v, w), sel) = Xor(Only(v, sel), Only(w, sel))
  BY DEF Only, Xor
<1>2. \A v, sel : Only(Only(v, sel), sel) = Only(v, sel)
  BY DEF Only
<1>3. ASSUME NEW v, NEW w, NEW key, NEW sel, key \subseteq sel
      PROVE  Only(Over(v, w, key), sel) = Over(Only(v, sel), Only(w, key), key)
  BY <1>3 DEF Only, Over
<1> QED BY <1>1, <1>2, <1>3

\* h computes what g does for its nodes, and may go on.
Continues(g, m, h, mm) ==
    /\ Sane(g) /\ Sane(h) /\ Begins(g, h) /\ Len(g) \in Nat /\ Len(h) \in Nat
    /\ \A n \in 1 .. Len(g) :
          /\ CellOf(h)[n] = CellOf(g)[n]
          /\ Cells(h, mm)[CellOf(h)[n]] = Cells(g, m)[CellOf(g)[n]]
          /\ Tainted(g, n) => Tainted(h, n)

LEMMA ContinuesSame ==
    ASSUME NEW g, NEW h, Sane(g), Sane(h), Begins(g, h), Len(h) = Len(g),
           NEW m, NEW mm, SameRefs(g, m, mm)
    PROVE  Continues(g, m, h, mm)
<1>1. Backward(g) /\ Backward(h) /\ Regular(g) /\ Len(g) \in Nat
  BY DEF Sane, Backward
<1>2. Cells(h, mm) = Cells(g, m)
  BY <1>1, CellsSame
<1>3. \A n \in 0 .. Len(g) : CellOf(h)[n] = CellOf(g)[n]
  BY <1>1, CellsBegin
<1>4. \A n \in 1 .. Len(g) : Tainted(g, n) => Tainted(h, n)
  BY TaintBegins
<1> QED BY <1>1, <1>2, <1>3, <1>4 DEF Continues

LEMMA ContinuesOn ==
    ASSUME NEW g, NEW h, NEW k, NEW m, NEW mm, NEW mmm,
           Continues(g, m, h, mm), Continues(h, mm, k, mmm)
    PROVE  Continues(g, m, k, mmm)
<1>1. /\ Sane(g) /\ Sane(k) /\ Len(g) \in Nat /\ Len(h) \in Nat /\ Len(k) \in Nat
      /\ Begins(g, h) /\ Begins(h, k)
  BY DEF Continues
<1>2. Len(g) =< Len(h) /\ 1 .. Len(g) \subseteq 1 .. Len(h)
  BY <1>1 DEF Begins
<1>3. Begins(g, k)
  BY <1>1, <1>2 DEF Begins
<1>4. \A n \in 1 .. Len(g) :
         /\ CellOf(k)[n] = CellOf(g)[n]
         /\ Cells(k, mmm)[CellOf(k)[n]] = Cells(g, m)[CellOf(g)[n]]
         /\ Tainted(g, n) => Tainted(k, n)
  BY <1>2 DEF Continues
<1> QED BY <1>1, <1>3, <1>4 DEF Continues

LEMMA GivesLater ==
    ASSUME NEW g, NEW h, NEW m, NEW mm, Continues(g, m, h, mm),
           NEW p, NEW v, NEW sel, Gives(g, m, p, v, sel)
    PROVE  Gives(h, mm, p, v, sel)
<1>1. Len(g) \in Nat /\ Len(h) \in Nat /\ Len(g) =< Len(h)
  BY DEF Continues, Begins
<1>2. CASE p = NoProxy
  BY <1>2 DEF Gives, Refers
<1>3. CASE p # NoProxy
  <2>1. p \in Proxies /\ p.pass = pass /\ p.node \in 1 .. Len(g)
    BY <1>3 DEF Gives, Refers
  <2>2. /\ Cells(h, mm)[CellOf(h)[p.node]] = Cells(g, m)[CellOf(g)[p.node]]
        /\ Tainted(g, p.node) => Tainted(h, p.node)
    BY <2>1 DEF Continues
  <2>3. Refers(h, p)
    BY <1>1, <1>3, <2>1 DEF Refers
  <2> QED BY <1>3, <2>2, <2>3 DEF Gives
<1> QED BY <1>2, <1>3

\* Node n, recorded after g, is a new one with a cell of its own, and gives u.
Computed(g, n, m, u) ==
    LET h == Append(g, n) IN
    /\ Continues(g, m, h, m)
    /\ Len(h) = Len(g) + 1 /\ h[Len(h)] = n /\ \A i \in 1 .. Len(g) : h[i] = g[i]
    /\ Newest(h) = [pass |-> pass, node |-> Len(h)] /\ Newest(h) # NoProxy
    /\ CellOf(h)[Len(h)] = Len(h)
    /\ Gives(h, m, Newest(h), u, n.sel)

LEMMA Computes ==
    ASSUME NEW g, Sane(g), pass \in Nat \ {0}, NEW m,
           NEW n \in FXNodes, Refers(g, n.a), Refers(g, n.b), NEW u,
           n.op \notin {"copy_", "view"}, n.op = "ref" => n.st \in Stores,
           n.op = "put" => n.b # NoProxy,
           \/ n.op = "failed"
           \/ n.a # NoProxy /\ Tainted(g, n.a.node)
           \/ n.b # NoProxy /\ Tainted(g, n.b.node)
           \/ Only(Result(Append(g, n), Cells(g, m), n, m), n.sel) = u
    PROVE  Computed(g, n, m, u)
<1> DEFINE h == Append(g, n)
<1>1. /\ Sane(h) /\ Begins(g, h)
      /\ Len(g) \in Nat /\ Len(h) = Len(g) + 1 /\ h[Len(h)] = n
      /\ \A i \in 1 .. Len(g) : h[i] = g[i]
      /\ Newest(h) = [pass |-> pass, node |-> Len(h)]
      /\ Refers(h, Newest(h)) /\ Newest(h) # NoProxy
  BY AppendSane
<1> HIDE DEF h
<1>2. CellOf(h)[Len(h)] = Len(h) /\ Len(h) \in 1 .. Len(h)
  BY <1>1, NewCell
<1>3. SameRefs(g, m, m)
  BY DEF SameRefs
<1>4. Cells(h, m)[Len(h)] = Result(h, Cells(g, m), n, m)
  BY <1>1, <1>3, CellsAppended DEF Sane
<1>5. n.op = "failed" => Tainted(h, Len(h))
  BY <1>1, <1>2, FailedTaints
<1>6. \A p \in {n.a, n.b} : p # NoProxy /\ Tainted(g, p.node) => Tainted(h, Len(h))
  <2> SUFFICES ASSUME NEW p \in {n.a, n.b}, p # NoProxy, Tainted(g, p.node)
               PROVE  Tainted(h, Len(h))
    OBVIOUS
  <2>1. p.node \in 1 .. Len(g)
    BY DEF Refers
  <2>2. p.node \in Arguments(h[Len(h)])
    BY <1>1 DEF Arguments
  <2> QED BY <1>1, <1>2, <2>1, <2>2, TaintBegins
<1>7. Continues(g, m, h, m)
  <2>1. \A i \in 1 .. Len(g) :
           /\ CellOf(h)[i] = CellOf(g)[i]
           /\ Cells(h, m)[CellOf(h)[i]] = Cells(g, m)[CellOf(g)[i]]
           /\ Tainted(g, i) => Tainted(h, i)
    BY <1>1, <1>3, PureKeeps
  <2> QED BY <1>1, <2>1 DEF Continues
<1>8. \/ Tainted(h, Len(h)) \/ Only(Cells(h, m)[Len(h)], n.sel) = u
  BY <1>4, <1>5, <1>6 DEF h
<1>9. Gives(h, m, Newest(h), u, n.sel)
  <2>1. Newest(h).node = Len(h)
    BY <1>1
  <2> QED BY <1>1, <1>2, <1>8, <2>1 DEF Gives
<1> QED BY <1>1, <1>2, <1>7, <1>9 DEF Computed, h

\* What the next node reads through a proxy.
LEMMA ReadsGiven ==
    ASSUME NEW g, NEW h, Sane(g), Sane(h), Begins(g, h), NEW m,
           NEW p, NEW v, NEW sel, Gives(g, m, p, v, sel), p # NoProxy
    PROVE  Tainted(g, p.node) \/ Only(Reads(h, Cells(g, m), p), sel) = v
<1>1. Backward(g) /\ Backward(h) /\ Len(g) \in Nat
  BY DEF Sane, Backward
<1>2. p.pass = pass /\ p.node \in 1 .. Len(g)
  BY DEF Gives, Refers
<1>3. p.node \in 0 .. Len(g)
  BY <1>1, <1>2
<1>4. CellOf(h)[p.node] = CellOf(g)[p.node]
  BY <1>1, <1>3, CellsBegin
<1>5. Reads(h, Cells(g, m), p) = Cells(g, m)[CellOf(g)[p.node]]
  BY <1>2, <1>4 DEF Reads
<1>6. Tainted(g, p.node) \/ Only(Cells(g, m)[CellOf(g)[p.node]], sel) = v
  BY DEF Gives
<1> QED BY <1>5, <1>6

LEMMA CallComputes ==
    ASSUME NEW g, Sane(g), pass \in Nat \ {0}, NEW m,
           NEW sel \in {Lead, Whole}, NEW p, NEW v, Gives(g, m, p, v, sel), p # NoProxy,
           NEW q, NEW w, Gives(g, m, q, w, sel), NEW st \in Stores \cup {NoStore}
    PROVE  Computed(g, FX("call", p, q, sel, Empty, st), m, Xor(v, w))
<1> DEFINE n == FX("call", p, q, sel, Empty, st)
           h == Append(g, n)
           c == Cells(g, m)
           arg == IF q = NoProxy THEN Ones ELSE Reads(h, c, q)
<1>1. Refers(g, p) /\ Refers(g, q)
  BY DEF Gives
<1>2. n \in FXNodes
  BY <1>1, FXType, ContentsType DEF Refers
<1>3. n.op = "call" /\ n.a = p /\ n.b = q /\ n.sel = sel
  BY DEF FX
<1> HIDE DEF n
<1>4. Sane(h) /\ Begins(g, h)
  BY <1>1, <1>2, <1>3, AppendSane
<1> HIDE DEF h
<1>5. Tainted(g, p.node) \/ Only(Reads(h, c, p), sel) = v
  BY <1>4, ReadsGiven
<1>6. (q # NoProxy /\ Tainted(g, q.node)) \/ Only(arg, sel) = w
  <2>1. CASE q = NoProxy
    BY <2>1 DEF Gives
  <2>2. CASE q # NoProxy
    BY <1>4, <2>2, ReadsGiven
  <2> QED BY <2>1, <2>2
<1>7. Only(Result(h, c, n, m), sel) = Xor(Only(Reads(h, c, p), sel), Only(arg, sel))
  <2>1. Result(h, c, n, m) = Only(Xor(Reads(h, c, p), arg), sel)
    BY <1>3 DEF Result
  <2> HIDE DEF arg
  <2> QED BY <2>1, Computing
<1> HIDE DEF arg
<1>8. \/ n.a # NoProxy /\ Tainted(g, n.a.node)
      \/ n.b # NoProxy /\ Tainted(g, n.b.node)
      \/ Only(Result(h, c, n, m), n.sel) = Xor(v, w)
  BY <1>3, <1>5, <1>6, <1>7
<1> QED BY <1>1, <1>2, <1>3, <1>8, Computes DEF h, n

\* w over the parts key of v.
LEMMA PutComputes ==
    ASSUME NEW g, Sane(g), pass \in Nat \ {0}, NEW m, NEW sel \in {Lead, Whole},
           NEW key, key \subseteq sel,
           NEW p, NEW v, Gives(g, m, p, v, sel), p # NoProxy,
           NEW q, NEW w, Gives(g, m, q, w, key), q # NoProxy, g[q.node].sel = key
    PROVE  Computed(g, FX("put", p, q, sel, Empty, NoStore), m, Over(v, w, key))
<1> DEFINE n == FX("put", p, q, sel, Empty, NoStore)
           h == Append(g, n)
           c == Cells(g, m)
<1>1. Refers(g, p) /\ Refers(g, q)
  BY DEF Gives
<1>2. n \in FXNodes
  BY <1>1, FXType, ContentsType DEF Refers
<1>3. n.op = "put" /\ n.a = p /\ n.b = q /\ n.sel = sel
  BY DEF FX
<1> HIDE DEF n
<1>4. Sane(h) /\ Begins(g, h) /\ \A i \in 1 .. Len(g) : h[i] = g[i]
  BY <1>1, <1>2, <1>3, AppendSane
<1> HIDE DEF h
<1>5. Tainted(g, p.node) \/ Only(Reads(h, c, p), sel) = v
  BY <1>4, ReadsGiven
<1>6. Tainted(g, q.node) \/ Only(Reads(h, c, q), key) = w
  BY <1>4, ReadsGiven
<1>7. h[q.node].sel = key
  BY <1>1, <1>4 DEF Refers
<1>8. Only(Result(h, c, n, m), sel)
         = Over(Only(Reads(h, c, p), sel), Only(Reads(h, c, q), key), key)
  <2>1. Result(h, c, n, m) = Only(Over(Reads(h, c, p), Reads(h, c, q), key), sel)
    BY <1>3, <1>7 DEF Result
  <2> QED BY <2>1, Computing
<1>9. \/ n.a # NoProxy /\ Tainted(g, n.a.node)
      \/ n.b # NoProxy /\ Tainted(g, n.b.node)
      \/ Only(Result(h, c, n, m), n.sel) = Over(v, w, key)
  BY <1>3, <1>5, <1>6, <1>8
<1> QED BY <1>1, <1>2, <1>3, <1>9, Computes DEF h, n

LEMMA CloneComputes ==
    ASSUME NEW g, Sane(g), pass \in Nat \ {0}, NEW m, NEW sel \in {Lead, Whole},
           NEW p, NEW v, Gives(g, m, p, v, sel), p # NoProxy,
           NEW st \in Stores \cup {NoStore}
    PROVE  Computed(g, FX("clone", p, NoProxy, sel, Empty, st), m, v)
<1> DEFINE n == FX("clone", p, NoProxy, sel, Empty, st)
           h == Append(g, n)
           c == Cells(g, m)
<1>1. Refers(g, p) /\ Refers(g, NoProxy)
  BY NoProxyType DEF Gives, Refers
<1>2. n \in FXNodes
  BY <1>1, FXType, ContentsType DEF Refers
<1>3. n.op = "clone" /\ n.a = p /\ n.b = NoProxy /\ n.sel = sel
  BY DEF FX
<1> HIDE DEF n
<1>4. Sane(h) /\ Begins(g, h)
  BY <1>1, <1>2, <1>3, AppendSane
<1> HIDE DEF h
<1>5. Tainted(g, p.node) \/ Only(Reads(h, c, p), sel) = v
  BY <1>4, ReadsGiven
<1>6. Only(Result(h, c, n, m), sel) = Only(Reads(h, c, p), sel)
  <2>1. Result(h, c, n, m) = Only(Reads(h, c, p), sel)
    BY <1>3 DEF Result
  <2> QED BY <2>1, Computing
<1>7. (n.a # NoProxy /\ Tainted(g, n.a.node)) \/ Only(Result(h, c, n, m), n.sel) = v
  BY <1>3, <1>5, <1>6
<1> QED BY <1>1, <1>2, <1>3, <1>7, Computes DEF h, n

\* A node without arguments: v is a constant, a placeholder's value or nothing.
LEMMA RootComputes ==
    ASSUME NEW g, Sane(g), pass \in Nat \ {0}, NEW m, NEW sel \in {Lead, Whole},
           NEW op \in {"placeholder", "const", "empty_strided"}, NEW val \in Contents,
           NEW st \in Stores \cup {NoStore}
    PROVE  Computed(g, FX(op, NoProxy, NoProxy, sel, val, st), m,
                    IF op = "empty_strided" THEN Empty ELSE Only(val, sel))
<1> DEFINE n == FX(op, NoProxy, NoProxy, sel, val, st)
           u == IF op = "empty_strided" THEN Empty ELSE Only(val, sel)
<1>1. Refers(g, NoProxy)
  BY NoProxyType DEF Refers
<1>2. n \in FXNodes
  BY NoProxyType, FXType
<1>3. n.op = op /\ n.a = NoProxy /\ n.b = NoProxy /\ n.sel = sel /\ n.val = val
  BY DEF FX
<1> HIDE DEF n
<1>4. \A h, c : Only(Result(h, c, n, m), sel) = u
  <2> SUFFICES ASSUME NEW h, NEW c PROVE Only(Result(h, c, n, m), sel) = u
    OBVIOUS
  <2>1. CASE op = "empty_strided"
    <3>1. Result(h, c, n, m) = Empty
      BY <1>3, <2>1 DEF Result
    <3>2. Only(Empty, sel) = Empty
      BY DEF Only, Empty
    <3> QED BY <2>1, <3>1, <3>2
  <2>2. CASE op # "empty_strided"
    <3>1. Result(h, c, n, m) = Only(val, sel)
      BY <1>3, <2>2 DEF Result
    <3> QED BY <2>2, <3>1, Computing
  <2> QED BY <2>1, <2>2
<1> HIDE DEF u
<1>5. Computed(g, n, m, u)
  BY <1>1, <1>2, <1>3, <1>4, Computes
<1> QED BY <1>5 DEF n, u

\* Data that is the same on every run.
Unvarying(v) == \A i \in Whole : \A t \in v[i] : ~Varies(t)

LEMMA Baked ==
    /\ \A v \in Contents : Unvarying(v) => Bake(v) = v
    /\ \A v, sel : Unvarying(Only(v, sel)) => Only(Bake(v), sel) = Only(v, sel)
<1>1. ASSUME NEW S, \A t \in S : ~Varies(t)
      PROVE  {IF Varies(t) THEN <<"baked", t[2]>> ELSE t : t \in S} = S
  BY <1>1
<1>2. ASSUME NEW v \in Contents, Unvarying(v) PROVE Bake(v) = v
  <2>1. Bake(v) = [i \in Whole |-> v[i]]
    BY <1>1, <1>2 DEF Bake, Unvarying
  <2> QED BY <2>1 DEF Contents
<1>3. ASSUME NEW v, NEW sel, Unvarying(Only(v, sel))
      PROVE  Only(Bake(v), sel) = Only(v, sel)
  <2>1. \A i \in Whole : i \in sel => \A t \in v[i] : ~Varies(t)
    BY <1>3 DEF Unvarying, Only
  <2>2. \A i \in Whole : i \in sel => Bake(v)[i] = v[i]
    BY <1>1, <2>1 DEF Bake
  <2> QED BY <2>2 DEF Only
<1> QED BY <1>2, <1>3

LEMMA RefComputes ==
    ASSUME NEW g, Sane(g), pass \in Nat \ {0}, NEW m, NEW sel \in {Lead, Whole},
           NEW st \in Stores, Unvarying(Only(m[st], sel))
    PROVE  Computed(g, FX("ref", NoProxy, NoProxy, sel, Empty, st), m, Only(m[st], sel))
<1> DEFINE n == FX("ref", NoProxy, NoProxy, sel, Empty, st)
           u == Only(m[st], sel)
<1>1. Refers(g, NoProxy)
  BY NoProxyType DEF Refers
<1>2. n \in FXNodes
  BY NoProxyType, ContentsType, FXType
<1>3. n.op = "ref" /\ n.a = NoProxy /\ n.b = NoProxy /\ n.sel = sel /\ n.st = st
  BY DEF FX
<1> HIDE DEF n
<1>4. \A h, c : Only(Result(h, c, n, m), sel) = u
  <2> SUFFICES ASSUME NEW h, NEW c PROVE Only(Result(h, c, n, m), sel) = u
    OBVIOUS
  <2>1. Result(h, c, n, m) = Only(Bake(m[st]), sel)
    BY <1>3 DEF Result
  <2>2. Only(Bake(m[st]), sel) = u
    BY Baked
  <2> QED BY <2>1, <2>2, Computing
<1> HIDE DEF u
<1>5. Computed(g, n, m, u)
  BY <1>1, <1>2, <1>3, <1>4, Computes
<1> QED BY <1>5 DEF n, u

LEMMA FailedComputes ==
    ASSUME NEW g, Sane(g), pass \in Nat \ {0}, NEW m, NEW sel \in {Lead, Whole},
           NEW p, Refers(g, p), NEW v
    PROVE  Computed(g, FX("failed", p, NoProxy, sel, Empty, NoStore), m, v)
<1> DEFINE n == FX("failed", p, NoProxy, sel, Empty, NoStore)
<1>1. Refers(g, NoProxy)
  BY NoProxyType DEF Refers
<1>2. n \in FXNodes
  BY NoProxyType, ContentsType, FXType DEF Refers
<1>3. n.op = "failed" /\ n.a = p /\ n.b = NoProxy
  BY DEF FX
<1> HIDE DEF n
<1>4. Computed(g, n, m, v)
  BY <1>1, <1>2, <1>3, Computes
<1> QED BY <1>4 DEF n

-----------------------------------------------------------------------------
(* The graph and the memory, storage by storage                            *)

\* H says which node holds the value of which parts of which storage: nodes
\* with one cell are those of one storage, and hold what it does.
Mirrors(g, H, m) ==
    /\ \A x \in H :
          /\ x.node \in 1 .. Len(g) /\ x.st \in Stores /\ x.sel \in {Lead, Whole}
    /\ \A x, y \in H : x.st = y.st <=> CellOf(g)[x.node] = CellOf(g)[y.node]
    /\ \A x \in H : \/ Tainted(g, x.node)
                    \/ Only(Cells(g, m)[CellOf(g)[x.node]], x.sel) = Only(m[x.st], x.sel)

LEMMA MirrorsPart ==
    ASSUME NEW g, NEW H, NEW m, Mirrors(g, H, m), NEW J, J \subseteq H
    PROVE  Mirrors(g, J, m)
BY DEF Mirrors

\* A graph that goes on with pure nodes still mirrors the memory.
LEMMA MirrorsLater ==
    ASSUME NEW g, NEW h, NEW m, NEW mm, Continues(g, m, h, mm),
           NEW H, Mirrors(g, H, m), \A x \in H : mm[x.st] = m[x.st]
    PROVE  Mirrors(h, H, mm)
<1>1. /\ Len(g) \in Nat /\ Len(h) \in Nat /\ Len(g) =< Len(h)
      /\ \A i \in 1 .. Len(g) : h[i].op = g[i].op
  BY DEF Continues, Begins
<1>2. \A x \in H :
          /\ x.node \in 1 .. Len(g) /\ x.st \in Stores /\ x.sel \in {Lead, Whole}
  BY DEF Mirrors
<1>3. \A x \in H :
         /\ CellOf(h)[x.node] = CellOf(g)[x.node]
         /\ Cells(h, mm)[CellOf(h)[x.node]] = Cells(g, m)[CellOf(g)[x.node]]
         /\ Tainted(g, x.node) => Tainted(h, x.node)
  BY <1>2 DEF Continues
<1>4. \A x \in H :
          /\ x.node \in 1 .. Len(h) /\ x.st \in Stores /\ x.sel \in {Lead, Whole}
  <2> SUFFICES ASSUME NEW x \in H
               PROVE  /\ x.node \in 1 .. Len(h) /\ x.st \in Stores /\ x.sel \in {Lead, Whole}
    OBVIOUS
  <2>1. x.node \in 1 .. Len(g) /\ x.st \in Stores /\ x.sel \in {Lead, Whole}
    BY <1>2
  <2>2. x.node \in 1 .. Len(h) /\ h[x.node].op = g[x.node].op
    BY <1>1, <2>1
  <2> QED BY <1>2, <2>1, <2>2
<1>5. \A x, y \in H : x.st = y.st <=> CellOf(h)[x.node] = CellOf(h)[y.node]
  BY <1>3 DEF Mirrors
<1>6. \A x \in H : \/ Tainted(h, x.node)
                   \/ Only(Cells(h, mm)[CellOf(h)[x.node]], x.sel) = Only(mm[x.st], x.sel)
  BY <1>3 DEF Mirrors
<1> QED BY <1>4, <1>5, <1>6 DEF Mirrors

\* The handle of what is held gives its value.
LEMMA MirrorsGives ==
    ASSUME NEW g, NEW H, NEW m, Mirrors(g, H, m), NEW x \in H,
           pass \in Nat \ {0}, NEW p, p = [pass |-> pass, node |-> x.node]
    PROVE  p # NoProxy /\ Gives(g, m, p, Only(m[x.st], x.sel), x.sel)
<1>1. p.pass = pass /\ p.node = x.node /\ x.node \in 1 .. Len(g)
  BY DEF Mirrors
<1>2. p # NoProxy
  BY DEF NoProxy
<1>3. Refers(g, p)
  BY <1>1 DEF Refers, Proxies
<1> QED BY <1>1, <1>2, <1>3 DEF Mirrors, Gives

Holds(i, st, sel) == [node |-> i, st |-> st, sel |-> sel]

\* A new node holds a storage no other held.
LEMMA MirrorsNew ==
    ASSUME NEW g, NEW H, NEW m, Mirrors(g, H, m), NEW n,
           NEW st \in Stores, n.sel \in {Lead, Whole}, \A x \in H : x.st # st,
           Computed(g, n, m, Only(m[st], n.sel))
    PROVE  Mirrors(Append(g, n), H \cup {Holds(Len(g) + 1, st, n.sel)}, m)
<1> DEFINE h == Append(g, n)
           z == Holds(Len(g) + 1, st, n.sel)
<1>1. /\ Continues(g, m, h, m) /\ Len(h) = Len(g) + 1 /\ h[Len(h)] = n
      /\ Newest(h).node = Len(h)
      /\ CellOf(h)[Len(h)] = Len(h) /\ Gives(h, m, Newest(h), Only(m[st], n.sel), n.sel)
      /\ Newest(h) # NoProxy
  BY DEF Computed
<1>2. z.node = Len(h) /\ z.st = st /\ z.sel = n.sel
  BY <1>1 DEF Holds
<1> HIDE DEF h, z
<1>3. Mirrors(h, H, m)
  BY <1>1, MirrorsLater
<1>4. Len(g) \in Nat /\ Len(h) \in 1 .. Len(h)
  BY <1>1 DEF Continues
<1>5. \A x \in H : CellOf(h)[x.node] # CellOf(h)[z.node]
  <2> SUFFICES ASSUME NEW x \in H PROVE CellOf(h)[x.node] # CellOf(h)[z.node]
    OBVIOUS
  <2>1. x.node \in 1 .. Len(g)
    BY DEF Mirrors
  <2>2. CellOf(h)[x.node] = CellOf(g)[x.node] /\ CellOf(g)[x.node] \in 1 .. x.node
    BY <1>1, <2>1, CellRange DEF Continues
  <2> QED BY <1>1, <1>2, <1>4, <2>1, <2>2
<1>6. Tainted(h, z.node) \/ Only(Cells(h, m)[CellOf(h)[z.node]], z.sel) = Only(m[z.st], z.sel)
  BY <1>1, <1>2 DEF Gives
<1>7. /\ z.node \in 1 .. Len(h) /\ z.st \in Stores /\ z.sel \in {Lead, Whole}
      /\ \A x \in H : x.st # z.st
  BY <1>1, <1>2, <1>4
<1>8. Mirrors(h, H \cup {z}, m)
  BY <1>3, <1>5, <1>6, <1>7 DEF Mirrors
<1> QED BY <1>8 DEF h, z

\* A view holds no more of a storage than what it is a view of.
LEMMA MirrorsView ==
    ASSUME NEW g, NEW H, NEW m, Mirrors(g, H, m), Sane(g), NEW x \in H,
           pass \in Nat \ {0}, NEW sel \in {Lead, Whole}, sel \subseteq x.sel,
           NEW p, p = [pass |-> pass, node |-> x.node]
    PROVE  LET h == Append(g, FX("view", p, NoProxy, sel, Empty, NoStore))
           IN  /\ Sane(h) /\ Newest(h).node = Len(g) + 1
               /\ Mirrors(h, H \cup {Holds(Len(g) + 1, x.st, sel)}, m)
<1> DEFINE n == FX("view", p, NoProxy, sel, Empty, NoStore)
           h == Append(g, n)
           z == Holds(Len(g) + 1, x.st, sel)
<1>1. p # NoProxy /\ Refers(g, p) /\ Refers(g, NoProxy)
  BY MirrorsGives, NoProxyType DEF Gives, Refers
<1>2. n \in FXNodes
  BY <1>1, FXType, ContentsType DEF Refers
<1>3. n.op = "view" /\ n.a = p /\ n.b = NoProxy /\ n.sel = sel
  BY DEF FX
<1> HIDE DEF n
<1>4. /\ Sane(h) /\ Begins(g, h)
      /\ Len(g) \in Nat /\ Len(h) = Len(g) + 1 /\ h[Len(h)] = n
      /\ Newest(h) = [pass |-> pass, node |-> Len(h)]
  BY <1>1, <1>2, <1>3, AppendSane
<1>5. z.node = Len(h) /\ z.st = x.st /\ z.sel = sel
  BY <1>4 DEF Holds
<1> HIDE DEF h, z
<1>6. SameRefs(g, m, m)
  BY DEF SameRefs
<1>7. Continues(g, m, h, m)
  <2>1. \A i \in 1 .. Len(g) :
           /\ CellOf(h)[i] = CellOf(g)[i]
           /\ Cells(h, m)[CellOf(h)[i]] = Cells(g, m)[CellOf(g)[i]]
           /\ Tainted(g, i) => Tainted(h, i)
    BY <1>3, <1>4, <1>6, PureKeeps
  <2> QED BY <1>4, <2>1 DEF Continues
<1>8. Mirrors(h, H, m)
  BY <1>7, MirrorsLater
<1>9. x.node \in 1 .. Len(g) /\ p.node = x.node
  BY DEF Mirrors
<1>10. CellOf(h)[z.node] = CellOf(h)[x.node]
  <2>1. Backward(h) /\ Len(h) \in 0 .. Len(h) /\ Len(h) > 0
    BY <1>4 DEF Sane
  <2>2. CellOf(h)[Len(h)] = CellOf(h)[h[Len(h)].a.node]
    BY <1>3, <1>4, <2>1, CellDef
  <2> QED BY <1>3, <1>4, <1>5, <1>9, <2>2
<1>11. Tainted(h, x.node) => Tainted(h, z.node)
  <2>1. x.node \in 1 .. Len(h) /\ Len(h) \in 1 .. Len(h)
    BY <1>4, <1>9
  <2>2. x.node \in Arguments(h[Len(h)])
    BY <1>1, <1>3, <1>4, <1>9 DEF Arguments
  <2>3. Begins(h, h)
    BY <1>4 DEF Begins
  <2> QED BY <1>4, <1>5, <2>1, <2>2, <2>3, TaintBegins
<1>12. \/ Tainted(h, z.node)
       \/ Only(Cells(h, m)[CellOf(h)[z.node]], z.sel) = Only(m[z.st], z.sel)
  <2>1. \/ Tainted(h, x.node)
        \/ Only(Cells(h, m)[CellOf(h)[x.node]], x.sel) = Only(m[x.st], x.sel)
    BY <1>8 DEF Mirrors
  <2>2. \A v, w : Only(v, x.sel) = Only(w, x.sel) => Only(v, sel) = Only(w, sel)
    <3> SUFFICES ASSUME NEW v, NEW w, Only(v, x.sel) = Only(w, x.sel)
                 PROVE  Only(v, sel) = Only(w, sel)
      OBVIOUS
    <3>1. \A i \in Whole : Only(v, x.sel)[i] = Only(w, x.sel)[i]
      OBVIOUS
    <3>2. \A i \in Whole : i \in sel => v[i] = w[i]
      BY <3>1 DEF Only
    <3> QED BY <3>2 DEF Only
  <2> QED BY <1>5, <1>10, <1>11, <2>1, <2>2
<1>13. /\ z.node \in 1 .. Len(h) /\ z.st \in Stores /\ z.sel \in {Lead, Whole}
  <2>1. x.st \in Stores
    BY DEF Mirrors
  <2>2. Len(h) \in 1 .. Len(h) /\ h[z.node].op = "view"
    BY <1>3, <1>4, <1>5
  <2> QED BY <1>5, <2>1, <2>2
<1>14. Mirrors(h, H \cup {z}, m)
  <2>1. \A y \in H : y.st = z.st <=> CellOf(h)[y.node] = CellOf(h)[z.node]
    BY <1>5, <1>8, <1>10 DEF Mirrors
  <2> QED BY <1>8, <1>12, <1>13, <2>1 DEF Mirrors
<1> QED BY <1>4, <1>14 DEF h, z, n

\* No constant of g refers to storage s.
Unreferred(g, s) == \A i \in 1 .. Len(g) : g[i].op = "ref" => g[i].st # s

LEMMA UnreferredSame ==
    ASSUME NEW g, Sane(g), NEW s, Unreferred(g, s), NEW m, NEW mm,
           \A t \in Stores : t # s => mm[t] = m[t]
    PROVE  SameRefs(g, m, mm)
BY DEF Unreferred, SameRefs, Sane, Regular

\* Memory mm is m with u in the parts sel of storage st.
Overwrites(m, mm, st, sel, u) ==
    /\ \A t \in Stores : t # st => mm[t] = m[t]
    /\ Only(mm[st], sel) = u
    /\ \A i \in Whole : i \notin sel => mm[st][i] = m[st][i]

\* A write to the node that holds some parts of a storage, in graph and memory.
LEMMA MirrorsWrite ==
    ASSUME NEW g, NEW H, NEW m, Mirrors(g, H, m), Sane(g), NEW x \in H,
           pass \in Nat \ {0}, NEW p, p = [pass |-> pass, node |-> x.node],
           NEW q, q # NoProxy, NEW u, Gives(g, m, q, u, x.sel),
           NEW mm, Unreferred(g, x.st), Overwrites(m, mm, x.st, x.sel, u)
    PROVE  LET h == Append(g, FX("copy_", p, q, x.sel, Empty, NoStore))
           IN  Sane(h) /\ Mirrors(h, H, mm)
<1> DEFINE n == FX("copy_", p, q, x.sel, Empty, NoStore)
           h == Append(g, n)
           c == Cells(g, m)
           r == Reads(h, c, q)
<1>0. /\ \A t \in Stores : t # x.st => mm[t] = m[t]
      /\ Only(mm[x.st], x.sel) = u
      /\ \A i \in Whole : i \notin x.sel => mm[x.st][i] = m[x.st][i]
  BY DEF Overwrites
<1>1. p # NoProxy /\ Refers(g, p) /\ Refers(g, q)
  BY MirrorsGives DEF Gives
<1>2. x.sel \in {Lead, Whole} /\ x.st \in Stores /\ x.node \in 1 .. Len(g)
  BY DEF Mirrors
<1>3. n \in FXNodes
  BY <1>1, <1>2, FXType, ContentsType DEF Refers
<1>4. n.op = "copy_" /\ n.a = p /\ n.b = q /\ n.sel = x.sel
  BY DEF FX
<1> HIDE DEF n
<1>5. /\ Sane(h) /\ Begins(g, h)
      /\ Len(g) \in Nat /\ Len(h) = Len(g) + 1 /\ h[Len(h)] = n
      /\ \A i \in 1 .. Len(g) : h[i] = g[i]
  BY <1>1, <1>3, <1>4, AppendSane
<1> HIDE DEF h
<1>6. SameRefs(g, m, mm)
  BY <1>0, UnreferredSame
<1>7. \A i \in 1 .. Len(g) : CellOf(h)[i] = CellOf(g)[i] /\ CellOf(g)[i] \in 1 .. Len(g)
  <2> SUFFICES ASSUME NEW i \in 1 .. Len(g)
               PROVE  CellOf(h)[i] = CellOf(g)[i] /\ CellOf(g)[i] \in 1 .. Len(g)
    OBVIOUS
  <2>1. CellOf(g)[i] \in 1 .. i
    BY CellRange
  <2>2. i \in 0 .. Len(g) /\ Backward(g) /\ Backward(h)
    BY <1>5 DEF Sane
  <2> QED BY <1>5, <2>1, <2>2, CellsBegin
<1>8. \A i \in 1 .. Len(g) :
         Cells(h, mm)[i] = IF i = CellOf(g)[x.node] THEN Over(c[i], r, x.sel) ELSE c[i]
  <2>1. \A i \in 1 .. Len(g) :
           Cells(h, mm)[i] = IF n.op = "copy_" /\ i = CellOf(h)[n.a.node]
                             THEN Over(c[i], Reads(h, c, n.b), n.sel) ELSE c[i]
    <3> HIDE DEF r
    <3>1. Backward(g) /\ Backward(h) /\ Regular(g) /\ Begins(g, h) /\ Len(h) = Len(g) + 1
      BY <1>5 DEF Sane
    <3>2. \A i \in 1 .. Len(g) :
             Cells(h, mm)[i] = IF h[Len(h)].op = "copy_" /\ i = CellOf(h)[h[Len(h)].a.node]
                               THEN Over(c[i], Reads(h, c, h[Len(h)].b), h[Len(h)].sel)
                               ELSE c[i]
      BY <1>6, <3>1, CellsAppended
    <3> QED BY <1>5, <3>2
  <2>2. CellOf(h)[n.a.node] = CellOf(g)[x.node]
    BY <1>2, <1>4, <1>7
  <2> QED BY <1>4, <2>1, <2>2
<1>9. Tainted(g, q.node) \/ Only(r, x.sel) = u
  BY <1>5, ReadsGiven
<1> HIDE DEF r, c
<1>10. ASSUME NEW y \in H, Tainted(g, y.node) \/ Tainted(g, q.node)
       PROVE  Tainted(h, y.node)
  <2>0. y.node \in 1 .. Len(g)
    BY DEF Mirrors
  <2>1. y.node \in 1 .. Len(g) /\ y.node \in 1 .. Len(h)
    BY <1>5, <2>0
  <2>2. CASE Tainted(g, y.node)
    BY <1>5, <2>1, <2>2, TaintBegins
  <2>3. CASE Tainted(g, q.node)
    <3>1. q.node \in 1 .. Len(g)
      BY <1>1 DEF Refers
    <3>2. Len(h) \in Mutations(h) /\ q.node \in Arguments(h[Len(h)])
      BY <1>4, <1>5 DEF Mutations, Arguments
    <3> QED BY <1>5, <2>1, <2>3, <3>1, <3>2, TaintBegins
  <2> QED BY <1>10, <2>2, <2>3
<1>11. \A v, w : Only(v, x.sel) = Only(w, x.sel) =>
          \A i \in Whole : i \in x.sel => v[i] = w[i]
  <2> SUFFICES ASSUME NEW v, NEW w, Only(v, x.sel) = Only(w, x.sel)
               PROVE  \A i \in Whole : i \in x.sel => v[i] = w[i]
    OBVIOUS
  <2>1. \A i \in Whole : Only(v, x.sel)[i] = Only(w, x.sel)[i]
    OBVIOUS
  <2> QED BY <2>1 DEF Only
<1>12. ASSUME NEW y \in H
       PROVE  \/ Tainted(h, y.node)
              \/ Only(Cells(h, mm)[CellOf(h)[y.node]], y.sel) = Only(mm[y.st], y.sel)
  <2>1. /\ y.node \in 1 .. Len(g) /\ y.st \in Stores
        /\ y.st = x.st <=> CellOf(g)[y.node] = CellOf(g)[x.node]
        /\ Tainted(g, y.node) \/ Only(c[CellOf(g)[y.node]], y.sel) = Only(m[y.st], y.sel)
    BY DEF Mirrors, c
  <2> SUFFICES ASSUME ~Tainted(g, y.node), ~Tainted(g, q.node)
               PROVE  Only(Cells(h, mm)[CellOf(h)[y.node]], y.sel) = Only(mm[y.st], y.sel)
    BY <1>10
  <2>2. CASE y.st # x.st
    BY <1>0, <1>7, <1>8, <2>1, <2>2
  <2>3. CASE y.st = x.st
    <3> DEFINE v == c[CellOf(g)[x.node]]
    <3>1. Cells(h, mm)[CellOf(h)[y.node]] = Over(v, r, x.sel)
      BY <1>7, <1>8, <2>1, <2>3
    <3>2. \A i \in Whole : Only(v, y.sel)[i] = Only(m[x.st], y.sel)[i]
      BY <2>1, <2>3
    <3> HIDE DEF v
    <3>3. \A i \in Whole : i \in y.sel => v[i] = m[x.st][i]
      BY <3>2 DEF Only
    <3>4. \A i \in Whole : i \in x.sel => r[i] = mm[x.st][i]
      BY <1>0, <1>9, <1>11
    <3>5. Only(Over(v, r, x.sel), y.sel) = Only(mm[x.st], y.sel)
      BY <1>0, <3>3, <3>4 DEF Only, Over
    <3> QED BY <2>3, <3>1, <3>5
  <2> QED BY <2>2, <2>3
<1>13. \A y \in H : /\ y.node \in 1 .. Len(h) /\ y.st \in Stores /\ y.sel \in {Lead, Whole}
  <2> SUFFICES ASSUME NEW y \in H
               PROVE  /\ y.node \in 1 .. Len(h) /\ y.st \in Stores /\ y.sel \in {Lead, Whole}
    OBVIOUS
  <2>1. /\ y.node \in 1 .. Len(g) /\ y.st \in Stores /\ y.sel \in {Lead, Whole}
    BY DEF Mirrors
  <2>2. y.node \in 1 .. Len(h) /\ h[y.node] = g[y.node]
    BY <1>5, <2>1
  <2> QED BY <2>1, <2>2
<1>14. \A y, z \in H : y.st = z.st <=> CellOf(h)[y.node] = CellOf(h)[z.node]
  <2>1. \A y \in H : CellOf(h)[y.node] = CellOf(g)[y.node]
    BY <1>7 DEF Mirrors
  <2> QED BY <2>1 DEF Mirrors
<1>15. Mirrors(h, H, mm)
  BY <1>12, <1>13, <1>14 DEF Mirrors
<1> QED BY <1>5, <1>15 DEF h, n

\* Forgetting a dead layout changes nothing a run computes.
LEMMA ForgetContinues ==
    ASSUME CarrierInv, Sane(graph), NEW s \in Stores, Unreferred(graph, s),
           NEW mm, \A t \in Stores : t # s => mm[t] = mem[t]
    PROVE  /\ Continues(graph, mem, Forget(s), mm)
           /\ Len(Forget(s)) = Len(graph)
           /\ \A i \in 1 .. Len(graph) : /\ Forget(s)[i].op = graph[i].op
                                         /\ Forget(s)[i].sel = graph[i].sel
                                         /\ Forget(s)[i].st \in {graph[i].st, NoStore} \ {s}
<1> DEFINE h == Forget(s)
<1>1. /\ graph \in Seq(FXNodes) /\ Backward(graph) /\ Regular(graph)
      /\ Len(graph) \in Nat /\ DOMAIN graph = 1 .. Len(graph)
  BY DEF Sane, Backward
<1>2. h \in Seq(FXNodes)
  BY ForgetGrown DEF Grown, Sound
<1>3. /\ DOMAIN h = DOMAIN graph
      /\ \A i \in DOMAIN graph :
            h[i] = IF graph[i].st = s THEN [graph[i] EXCEPT !.st = NoStore] ELSE graph[i]
  BY DEF Forget
<1> HIDE DEF h
<1>4. Len(h) = Len(graph)
  BY <1>1, <1>2, <1>3
<1>5. ASSUME NEW i \in 1 .. Len(graph)
      PROVE  /\ h[i].op = graph[i].op /\ h[i].a = graph[i].a /\ h[i].b = graph[i].b
             /\ h[i].sel = graph[i].sel /\ h[i].val = graph[i].val
             /\ h[i].st \in {graph[i].st, NoStore} \ {s}
             /\ graph[i].op = "ref" => h[i].st = graph[i].st
  <2>1. graph[i] \in FXNodes /\ s # NoStore
    BY <1>1, CarrierAssumption
  <2>2. graph[i].op = "ref" => graph[i].st # s
    BY DEF Unreferred
  <2>3. CASE graph[i].st = s
    <3>1. h[i] = [graph[i] EXCEPT !.st = NoStore]
      BY <1>1, <1>3, <2>3
    <3> QED BY <2>1, <2>2, <2>3, <3>1 DEF FXNodes
  <2>4. CASE graph[i].st # s
    BY <1>1, <1>3, <2>4
  <2> QED BY <2>3, <2>4
<1>6. Begins(graph, h)
  BY <1>1, <1>4, <1>5 DEF Begins
<1>7. Sane(h)
  <2>1. Backward(h)
    BY <1>1, <1>3, <1>4, <1>5 DEF Backward
  <2>2. Regular(h)
    BY <1>1, <1>4, <1>5 DEF Regular, Arguments
  <2> QED BY <1>2, <2>1, <2>2 DEF Sane
<1>8. SameRefs(graph, mem, mm)
  BY UnreferredSame
<1>9. Continues(graph, mem, h, mm)
  BY <1>4, <1>6, <1>7, <1>8, ContinuesSame
<1> QED BY <1>4, <1>5, <1>9 DEF h

-----------------------------------------------------------------------------
(* The invariant                                                           *)

\* What the carriers of O hold, and the nodes that stand for an allocation a plain
\* tensor may be promoted onto: no input is declared for it.
HeldBy(O)   == {Holds(Handle(o).node, obj[o].st, obj[o].sel) : o \in {c \in O : Fresh(c)}}
Standing(g) == {Holds(i, g[i].st, Whole) :
                   i \in {j \in 1 .. Len(g) : /\ g[j].op # "ref" /\ g[j].st # NoStore
                                             /\ index[<<g[j].st, Whole>>] = Nobody}}
Held        == HeldBy(Objects) \cup Standing(graph)

\* The inductive invariant: while the node is traced its graph mirrors the
\* eager memory.  TraceFaithful speaks of the carriers alone; a write reaches
\* them through cells they share, so which nodes share a cell must be known,
\* and a plain tensor may be promoted onto any node that stands for its
\* allocation, so those nodes must mirror it as well; once an input is declared
\* for the allocation it is promoted onto that, and the others are left behind.
FaithInv == Tracing => Sane(graph) /\ Mirrors(graph, Held, mem)

LEMMA RunKept == ASSUME pass' = pass, NEW g, NEW K, NEW m PROVE Run(g, K, m)' = Run(g, K, m)
<1>1. \A c, p : Reads(g, c, p)' = Reads(g, c, p)
  BY DEF Reads
<1>2. \A c, n : Result(g, c, n, m)' = Result(g, c, n, m)
  BY <1>1 DEF Result
<1>3. \A c, k : Advance(g, K, m, c, k)' = Advance(g, K, m, c, k)
  BY <1>1, <1>2 DEF Advance
<1>4. \A f, n : RunRule(g, K, m, f, n)' <=> RunRule(g, K, m, f, n)
  BY <1>3 DEF RunRule
<1>5. (CHOOSE f : RunRule(g, K, m, f, Len(g)))' = (CHOOSE f : RunRule(g, K, m, f, Len(g)))
  BY <1>4
<1>6. Trail(g, K, m)' = Trail(g, K, m)
  BY <1>5 DEF Trail
<1>7. Run(g, K, m) = Trail(g, K, m)[Len(g)]
  BY DEF Run, Trail, RunRule
<1>8. Run(g, K, m)' = Trail(g, K, m)'[Len(g)]
  BY DEF Run, Trail, RunRule
<1> QED BY <1>6, <1>7, <1>8

LEMMA MirrorsKept ==
    ASSUME pass' = pass, NEW g, NEW H, NEW m
    PROVE  Mirrors(g, H, m)' <=> Mirrors(g, H, m)
BY RunKept DEF Mirrors, Cells

\* In a step that changes variable t, the other carriers of the pass hold what
\* they held: none of them was declared for the layout of t.
LEMMA FaithStep ==
    ASSUME CarrierInv, Tracing, UNCHANGED <<pass, index, phase>>, NEW t \in Objects,
           \A x \in Objects \ {t} :
              obj'[x] = obj[x] \/ (obj'[x].kind = "plain" /\ ~Fresh(x)),
           obj'[t].kind = "plain" \/ obj'[t].proxy.pass = pass,
           StaysDeclared(t, obj'[t]),
           t \in Named /\ Declared(obj[t], Layout(t), pass) => obj'[t].proxy = obj[t].proxy,
           NEW J, HeldBy(Objects \ {t}) \subseteq J, Standing(graph') \subseteq J,
           obj'[t].kind # "plain" =>
              Holds(obj'[t].proxy.node, obj'[t].st, obj'[t].sel) \in J,
           Sane(graph'), Mirrors(graph', J, mem')
    PROVE  FaithInv'
<1>1. ASSUME NEW l \in Layouts, index[l] # Nobody
      PROVE  /\ index[l] \in Objects /\ Declared(obj[index[l]], l, pass)
             /\ Layout(index[l]) = l
             /\ <<obj'[index[l]].st, obj'[index[l]].sel>> = l
             /\ obj[index[l]].port = NoPort /\ obj'[index[l]].port = NoPort
             /\ obj'[index[l]].proxy = obj[index[l]].proxy
  <2> DEFINE c == index[l]
  <2>1. c \in Named /\ c \in Objects /\ Declared(obj[c], l, pass)
    BY <1>1 DEF CarrierInv, IndexInv, Objects
  <2>2. Layout(c) = l /\ obj[c].kind # "plain" /\ obj[c].proxy.pass = pass
    BY <2>1 DEF Declared, Layout
  <2>3. Fresh(c)
    BY <2>1, <2>2, ObjectFacts, HandleFacts
  <2>4. CASE c = t
    <3>1. Declared(obj'[t], l, pass) /\ obj'[t].proxy = obj[t].proxy
      BY <2>1, <2>2, <2>4 DEF StaysDeclared
    <3> QED BY <2>1, <2>2, <2>4, <3>1 DEF Declared, Layout
  <2>5. CASE c # t
    <3>1. obj'[c] = obj[c] \/ (obj'[c].kind = "plain" /\ ~Fresh(c))
      BY <2>1, <2>5
    <3>2. obj'[c] = obj[c]
      BY <2>3, <3>1
    <3> QED BY <2>1, <2>2, <3>2 DEF Declared, Layout
  <2> QED BY <2>4, <2>5
<1>2. ASSUME NEW x \in Objects \ {t}, Fresh(x)'
      PROVE  Fresh(x) /\ obj'[x] = obj[x] /\ Handle(x)' = Handle(x)
  <2>1. obj'[x] = obj[x]
    BY <1>2 DEF Fresh, Carrier
  <2>2. Carrier(x) /\ Layout(x) \in Layouts
    BY <1>2, <2>1, ObjectFacts DEF Fresh, Carrier
  <2>3. Layout(x)' = Layout(x)
    BY <2>1 DEF Layout
  <2>4. DeclaredAlias(x)' = DeclaredAlias(x)
    <3> DEFINE c == index[Layout(x)]
    <3>1. CASE c = Nobody \/ c = x
      BY <2>3, <3>1 DEF DeclaredAlias
    <3>2. CASE c # Nobody /\ c # x
      <4>1. /\ Layout(c) = Layout(x) /\ <<obj'[c].st, obj'[c].sel>> = Layout(x)
            /\ obj[c].port = NoPort /\ obj'[c].port = NoPort
        BY <1>1, <2>2, <3>2
      <4>2. DeclaredAlias(x) = c
        BY <3>2, <4>1 DEF DeclaredAlias
      <4>3. DeclaredAlias(x)' = c
        <5>1. Tracing' /\ index'[Layout(x)'] = c
          BY <2>3 DEF Tracing
        <5> HIDE DEF c
        <5> QED BY <2>3, <3>2, <4>1, <5>1 DEF DeclaredAlias, Layout
      <4> QED BY <4>2, <4>3
    <3> QED BY <3>1, <3>2
  <2>5. DeclaredAlias(x) # Nobody =>
           obj'[DeclaredAlias(x)].proxy = obj[DeclaredAlias(x)].proxy
    <3>1. DeclaredAlias(x) # Nobody => DeclaredAlias(x) = index[Layout(x)]
      BY DEF DeclaredAlias
    <3> QED BY <1>1, <2>2, <3>1
  <2>6. Handle(x)' = Handle(x)
    BY <2>1, <2>4, <2>5 DEF Handle
  <2>7. Fresh(x)
    BY <1>2, <2>2, <2>6 DEF Fresh, Stale
  <2> QED BY <2>1, <2>6, <2>7
<1>3. ASSUME Fresh(t)' PROVE obj'[t].kind # "plain" /\ Handle(t)' = obj'[t].proxy
  <2>1. obj'[t].kind # "plain"
    BY <1>3 DEF Fresh, Carrier
  <2>2. obj'[t].proxy.pass = pass'
    BY <2>1
  <2> QED BY <2>1, <2>2 DEF Handle
<1>4. HeldBy(Objects)' \subseteq J
  <2> SUFFICES ASSUME NEW x \in Objects, Fresh(x)'
               PROVE  Holds(Handle(x).node, obj[x].st, obj[x].sel)' \in J
    BY DEF HeldBy
  <2>1. Holds(Handle(x).node, obj[x].st, obj[x].sel)'
           = Holds(Handle(x)'.node, obj'[x].st, obj'[x].sel)
    OBVIOUS
  <2>2. CASE x = t
    BY <1>3, <2>1, <2>2
  <2>3. CASE x # t
    <3>1. Fresh(x) /\ obj'[x] = obj[x] /\ Handle(x)' = Handle(x)
      BY <1>2, <2>3
    <3>2. Holds(Handle(x).node, obj[x].st, obj[x].sel) \in HeldBy(Objects \ {t})
      BY <2>3, <3>1 DEF HeldBy
    <3> QED BY <2>1, <3>1, <3>2
  <2> QED BY <2>2, <2>3
<1>5. Held' \subseteq J
  <2>1. Standing(graph)' = Standing(graph')
    BY DEF Standing
  <2> QED BY <1>4, <2>1 DEF Held
<1>7. Mirrors(graph', Held', mem')
  BY <1>5, MirrorsPart
<1>8. Mirrors(graph, Held, mem)'
  BY <1>7, MirrorsKept
<1>9. Sane(graph)'
  BY DEF Sane, Backward, Regular, Arguments
<1> QED BY <1>8, <1>9 DEF FaithInv

\* A carrier of the pass has a handle, and the handle gives its value.
LEMMA FreshHolds ==
    ASSUME CarrierInv, FaithInv, Tracing, NEW o \in Objects, Fresh(o)
    PROVE  /\ Handle(o) = [pass |-> pass, node |-> Handle(o).node] /\ Handle(o) # NoProxy
           /\ Holds(Handle(o).node, obj[o].st, obj[o].sel) \in Held
           /\ Gives(graph, mem, Handle(o), Value(o), obj[o].sel)
           /\ Handle(o).node \in 1 .. Len(graph)
           /\ graph[Handle(o).node].sel = obj[o].sel
<1> DEFINE x == Holds(Handle(o).node, obj[o].st, obj[o].sel)
<1>1. /\ Handle(o) \in Proxies /\ Known(graph, Handle(o), obj[o].sel, pass)
  BY HandleFacts DEF Fresh
<1>2. Handle(o) = [pass |-> pass, node |-> Handle(o).node]
  BY <1>1 DEF Known, Proxies
<1>3. x \in Held
  BY DEF Held, HeldBy
<1>4. x.node = Handle(o).node /\ x.st = obj[o].st /\ x.sel = obj[o].sel
  BY DEF Holds
<1> HIDE DEF x
<1>5. Mirrors(graph, Held, mem) /\ pass \in Nat \ {0}
  BY PassType DEF FaithInv
<1>6. Handle(o) # NoProxy /\ Gives(graph, mem, Handle(o), Only(mem[x.st], x.sel), x.sel)
  BY <1>2, <1>3, <1>4, <1>5, MirrorsGives
<1>7. Handle(o).node \in 1 .. Len(graph)
  BY <1>3, <1>4, <1>5 DEF Mirrors
<1> QED BY <1>1, <1>2, <1>3, <1>4, <1>6, <1>7 DEF x, Known, Value

LEMMA AppendAny ==
    ASSUME NEW g, Sane(g), NEW n
    PROVE  /\ Len(g) \in Nat /\ Len(Append(g, n)) = Len(g) + 1
           /\ Append(g, n)[Len(g) + 1] = n
           /\ \A i \in 1 .. Len(g) : Append(g, n)[i] = g[i]
<1> DEFINE S == FXNodes \cup {n}
<1>1. g \in Seq(S) /\ n \in S
  BY DEF Sane
<1> HIDE DEF S
<1> QED BY <1>1, AppendFacts

\* A recorded node stands for its allocation, if it has one.
LEMMA StandingAppend ==
    ASSUME NEW g, Sane(g), NEW n
    PROVE  /\ Standing(Append(g, n)) \subseteq Standing(g) \cup {Holds(Len(g) + 1, n.st, Whole)}
           /\ n.op = "ref" \/ n.st = NoStore => Standing(Append(g, n)) \subseteq Standing(g)
           /\ \A s : Unreferred(g, s) /\ (n.op = "ref" => n.st # s) => Unreferred(Append(g, n), s)
<1> DEFINE h == Append(g, n)
<1>1. /\ Len(g) \in Nat /\ Len(h) = Len(g) + 1 /\ h[Len(g) + 1] = n
      /\ \A i \in 1 .. Len(g) : h[i] = g[i]
  BY AppendAny
<1> HIDE DEF h
<1>2. \A i \in 1 .. Len(h) : i \in 1 .. Len(g) \/ i = Len(g) + 1
  BY <1>1
<1>3. ASSUME NEW i \in 1 .. Len(h), h[i].op # "ref", h[i].st # NoStore,
             index[<<h[i].st, Whole>>] = Nobody
      PROVE  \/ Holds(i, h[i].st, Whole) \in Standing(g)
             \/ n.op # "ref" /\ n.st # NoStore
                /\ Holds(i, h[i].st, Whole) = Holds(Len(g) + 1, n.st, Whole)
  <2>1. CASE i \in 1 .. Len(g)
    BY <1>1, <1>3, <2>1 DEF Standing
  <2>2. CASE i = Len(g) + 1
    BY <1>1, <1>3, <2>2
  <2> QED BY <1>2, <2>1, <2>2
<1>4. \A z \in Standing(h) : \/ z \in Standing(g)
                             \/ n.op # "ref" /\ n.st # NoStore
                                /\ z = Holds(Len(g) + 1, n.st, Whole)
  <2> SUFFICES ASSUME NEW i \in 1 .. Len(h), h[i].op # "ref", h[i].st # NoStore,
                      index[<<h[i].st, Whole>>] = Nobody
               PROVE  \/ Holds(i, h[i].st, Whole) \in Standing(g)
                      \/ n.op # "ref" /\ n.st # NoStore
                         /\ Holds(i, h[i].st, Whole) = Holds(Len(g) + 1, n.st, Whole)
    BY DEF Standing
  <2> QED BY <1>3
<1>5. \A s : Unreferred(g, s) /\ (n.op = "ref" => n.st # s) => Unreferred(h, s)
  BY <1>1, <1>2 DEF Unreferred
<1> QED BY <1>4, <1>5 DEF h

LEMMA StoreFacts ==
    ASSUME CarrierInv, NEW s \in Stores, NEW v, NEW sel
    PROVE  /\ Store(s, v, sel)[s] = Over(mem[s], v, sel)
           /\ \A t \in Stores : t # s => Store(s, v, sel)[t] = mem[t]
           /\ Only(Store(s, v, sel)[s], sel) = Only(v, sel)
           /\ \A i \in Whole : i \notin sel => Store(s, v, sel)[s][i] = mem[s][i]
           /\ \A t \in Stores : Only(v, sel) = Only(mem[s], sel) =>
                 Store(s, v, sel)[t] = mem[t]
<1>1. mem \in [Stores -> Contents]
  BY DEF CarrierInv
<1>2. /\ Store(s, v, sel)[s] = Over(mem[s], v, sel)
      /\ \A t \in Stores : t # s => Store(s, v, sel)[t] = mem[t]
  BY <1>1 DEF Store
<1>3. Only(Over(mem[s], v, sel), sel) = Only(v, sel)
  BY DEF Only, Over
<1>4. \A i \in Whole : i \notin sel => Over(mem[s], v, sel)[i] = mem[s][i]
  BY DEF Over
<1>5. ASSUME Only(v, sel) = Only(mem[s], sel) PROVE Over(mem[s], v, sel) = mem[s]
  <2>1. \A i \in Whole : Only(v, sel)[i] = Only(mem[s], sel)[i]
    BY <1>5
  <2>2. \A i \in Whole : Over(mem[s], v, sel)[i] = mem[s][i]
    BY <2>1 DEF Only, Over
  <2>3. mem[s] = [i \in Whole |-> mem[s][i]]
    BY <1>1 DEF Contents
  <2> QED BY <2>2, <2>3 DEF Over
<1> QED BY <1>2, <1>3, <1>4, <1>5

\* The values of operands cover no more than they are read for.
LEMMA Exact ==
    /\ \A o : Only(Value(o), obj[o].sel) = Value(o)
    /\ \A b, sel : b = Scalar \/ obj[b].sel = sel => Only(Operand(b, sel), sel) = Operand(b, sel)
    /\ \A v, w, sel : Only(v, sel) = v /\ Only(w, sel) = w => Only(Xor(v, w), sel) = Xor(v, w)
<1>1. \A o : Only(Value(o), obj[o].sel) = Value(o)
  BY Computing DEF Value
<1>2. ASSUME NEW b, NEW sel, b = Scalar \/ obj[b].sel = sel
      PROVE  Only(Operand(b, sel), sel) = Operand(b, sel)
  BY <1>1, <1>2, Computing DEF Operand
<1> QED BY <1>1, <1>2, Computing

\* An allocation starts free: nothing in the graph stands for it or reads it.
LEMMA Freed ==
    ASSUME CarrierInv, FaithInv, Tracing, NEW t \in Objects, NEW s \in Allocated(t),
           NEW mm, \A u \in Stores : u # s => mm[u] = mem[u]
    PROVE  LET J == HeldBy(Objects \ {t}) \cup Standing(Forget(s))
           IN  /\ s \in Stores /\ Continues(graph, mem, Forget(s), mm)
               /\ Mirrors(Forget(s), J, mm)
               /\ \A x \in J : x.st # s
               /\ \A o \in Objects \ {t} : obj[o].st # s
<1> DEFINE f == Forget(s)
           J == HeldBy(Objects \ {t}) \cup Standing(f)
<1>1. s \in Stores /\ \A o \in Objects \ {t} : obj[o].st # s
  BY AllocatedFacts
<1>2. Sane(graph) /\ Mirrors(graph, Held, mem) /\ Len(graph) \in Nat
      /\ DOMAIN graph = 1 .. Len(graph)
  BY DEF FaithInv, Sane, Backward
<1>3. Unreferred(graph, s)
  <2>1. s \in Unused(t)
    BY DEF Allocated
  <2> QED BY <1>2, <2>1 DEF Unused, Unreferred
<1>4. /\ Continues(graph, mem, f, mm) /\ Len(f) = Len(graph)
      /\ \A i \in 1 .. Len(graph) : /\ f[i].op = graph[i].op
                                    /\ f[i].st \in {graph[i].st, NoStore} \ {s}
  BY <1>1, <1>2, <1>3, ForgetContinues
<1> HIDE DEF f
<1>5. Standing(f) \subseteq Standing(graph) /\ \A x \in Standing(f) : x.st # s
  <2> SUFFICES ASSUME NEW i \in 1 .. Len(f), f[i].op # "ref", f[i].st # NoStore,
                      index[<<f[i].st, Whole>>] = Nobody
               PROVE  /\ Holds(i, f[i].st, Whole) \in Standing(graph)
                      /\ Holds(i, f[i].st, Whole).st # s
    BY DEF Standing
  <2>1. f[i].st = graph[i].st /\ f[i].st # s /\ i \in 1 .. Len(graph)
        /\ f[i].op = graph[i].op
    BY <1>4
  <2> QED BY <2>1 DEF Standing, Holds
<1>6. HeldBy(Objects \ {t}) \subseteq Held /\ \A x \in HeldBy(Objects \ {t}) : x.st # s
  BY <1>1 DEF Held, HeldBy, Holds
<1>7. J \subseteq Held /\ \A x \in J : x.st # s
  BY <1>5, <1>6 DEF Held
<1> HIDE DEF J
<1>8. Mirrors(graph, J, mem)
  BY <1>2, <1>7, MirrorsPart
<1>9. \A x \in J : mm[x.st] = mem[x.st]
  BY <1>7, <1>8 DEF Mirrors
<1>10. Mirrors(f, J, mm)
  BY <1>4, <1>8, <1>9, MirrorsLater
<1> QED BY <1>1, <1>4, <1>7, <1>10 DEF f, J

LEMMA ContinuesSelf ==
    ASSUME NEW g, Sane(g), NEW m PROVE Continues(g, m, g, m)
<1>1. Len(g) \in Nat /\ SameRefs(g, m, m)
  BY DEF Sane, Backward, SameRefs
<1>2. Begins(g, g)
  BY <1>1 DEF Begins
<1> QED BY <1>1, <1>2, ContinuesSame

\* What a recorded call is given for an operand gives its value.
LEMMA GivenGives ==
    ASSUME CarrierInv, FaithInv, Tracing, NEW g, NEW mm, Continues(graph, mem, g, mm),
           NEW b \in Readable, NEW sel \in {Lead, Whole}, b = Scalar \/ obj[b].sel = sel,
           b # Scalar => mm[obj[b].st] = mem[obj[b].st]
    PROVE  LET h == Given(g, b)
           IN  /\ Continues(g, mm, h[1], mm)
               /\ Gives(h[1], mm, h[2], Operand(b, sel), sel)
               /\ b # Scalar => h[2] # NoProxy
               /\ Standing(h[1]) \subseteq Standing(g)
               /\ \A s : /\ Unreferred(g, s)
                         /\ b # Scalar /\ ~Fresh(b) => obj[b].st # s
                         => Unreferred(h[1], s)
<1> DEFINE h == Given(g, b)
<1>1. Sane(g) /\ pass \in Nat \ {0}
  BY PassType DEF Continues
<1>2. Continues(g, mm, g, mm)
  BY <1>1, ContinuesSelf
<1>3. CASE b = Scalar
  <2>1. h[1] = g /\ h[2] = NoProxy /\ Operand(b, sel) = Only(Ones, sel)
    BY <1>3 DEF Given, Operand
  <2>2. Gives(g, mm, NoProxy, Only(Ones, sel), sel)
    BY NoProxyType DEF Gives, Refers
  <2> HIDE DEF h
  <2> QED BY <1>2, <1>3, <2>1, <2>2 DEF h
<1>4. CASE b # Scalar /\ Fresh(b)
  <2>1. h[1] = g /\ h[2] = Handle(b) /\ Operand(b, sel) = Value(b) /\ b \in Objects
    BY <1>4 DEF Given, Operand, Readable
  <2>2. Handle(b) # NoProxy /\ Gives(graph, mem, Handle(b), Value(b), sel)
    BY <1>4, <2>1, FreshHolds
  <2>3. Gives(g, mm, Handle(b), Value(b), sel)
    BY <2>2, GivesLater
  <2> HIDE DEF h
  <2> QED BY <1>2, <1>4, <2>1, <2>2, <2>3 DEF h
<1>5. CASE b # Scalar /\ ~Fresh(b)
  <2> DEFINE st == obj[b].st
             n == FX("ref", NoProxy, NoProxy, sel, Empty, st)
  <2>1. b \in Objects /\ obj[b] # Nothing /\ Steady(b)
    BY <1>5 DEF Readable
  <2>2. st \in Stores /\ mm[st] = mem[st] /\ obj[b].sel = sel
    BY <1>5, <2>1, ObjectFacts
  <2>3. Operand(b, sel) = Only(mm[st], sel)
    BY <1>5, <2>2 DEF Operand, Value
  <2>4. Unvarying(Only(mm[st], sel))
    BY <2>1, <2>2 DEF Steady, Value, Unvarying
  <2>5. Computed(g, n, mm, Only(mm[st], sel))
    BY <1>1, <2>2, <2>4, RefComputes
  <2>6. h[1] = Append(g, n) /\ h[2] = Newest(Append(g, n))
    BY <1>5, <2>2 DEF Given
  <2>7. n.sel = sel /\ n.op = "ref" /\ n.st = st
    BY DEF FX
  <2> HIDE DEF n, h
  <2>8. /\ Continues(g, mm, h[1], mm) /\ h[2] # NoProxy
        /\ Gives(h[1], mm, h[2], Operand(b, sel), sel)
    BY <2>3, <2>5, <2>6, <2>7 DEF Computed
  <2>9. /\ Standing(h[1]) \subseteq Standing(g)
        /\ \A s : Unreferred(g, s) /\ st # s => Unreferred(h[1], s)
    BY <1>1, <2>6, <2>7, StandingAppend
  <2> QED BY <1>5, <2>8, <2>9 DEF h
<1> HIDE DEF h
<1> QED BY <1>3, <1>4, <1>5 DEF h

\* What an assignment writes: the handle of a carrier of this pass or a constant.
LEMMA SourceGives ==
    ASSUME CarrierInv, FaithInv, Tracing, NEW g, NEW mm, Continues(graph, mem, g, mm),
           NEW b \in Readable, b # Scalar => ~Stale(b),
           NEW key \in {Lead, Whole}, b = Scalar \/ obj[b].sel = key,
           b # Scalar => mm[obj[b].st] = mem[obj[b].st]
    PROVE  LET h == Source(g, b, key)
           IN  /\ Continues(g, mm, h[1], mm)
               /\ Gives(h[1], mm, h[2], Operand(b, key), key)
               /\ h[2] # NoProxy /\ h[1][h[2].node].sel = key
               /\ Standing(h[1]) \subseteq Standing(g)
               /\ \A s : Unreferred(g, s) => Unreferred(h[1], s)
<1> DEFINE h == Source(g, b, key)
<1>1. Sane(g) /\ pass \in Nat \ {0} /\ Begins(graph, g)
  BY PassType DEF Continues
<1>2. Continues(g, mm, g, mm)
  BY <1>1, ContinuesSelf
<1>3. CASE b # Scalar /\ Carrier(b)
  <2>1. h[1] = g /\ h[2] = Handle(b) /\ Operand(b, key) = Value(b) /\ b \in Objects
        /\ Fresh(b) /\ obj[b].sel = key
    BY <1>3 DEF Source, Operand, Readable, Fresh
  <2>2. /\ Handle(b) # NoProxy /\ Gives(graph, mem, Handle(b), Value(b), key)
        /\ Handle(b).node \in 1 .. Len(graph) /\ graph[Handle(b).node].sel = key
    BY <2>1, FreshHolds
  <2>3. Gives(g, mm, Handle(b), Value(b), key) /\ g[Handle(b).node].sel = key
    BY <1>1, <2>2, GivesLater DEF Begins
  <2> HIDE DEF h
  <2> QED BY <1>2, <1>3, <2>1, <2>2, <2>3 DEF h
<1>4. CASE ~(b # Scalar /\ Carrier(b))
  <2> DEFINE v == Operand(b, key)
             n == FX("const", NoProxy, NoProxy, key, Bake(v), NoStore)
  <2>1. Something(b)
    BY DEF Readable, Something
  <2>2. v \in Contents /\ Only(v, key) = v /\ Bake(v) \in Contents
    BY <2>1, OperandType, Exact, ContentsType
  <2>3. Unvarying(v)
    <3>1. CASE b = Scalar
      <4>1. v = Only(Ones, key) /\ ~Varies(One)
        BY <3>1 DEF Operand, Varies, One
      <4> QED BY <4>1 DEF Unvarying, Only, Ones
    <3>2. CASE b # Scalar
      <4>1. Steady(b) /\ v = Value(b)
        BY <1>4, <3>2 DEF Readable, Fresh, Operand
      <4> QED BY <4>1 DEF Steady, Unvarying
    <3> QED BY <3>1, <3>2
  <2>4. Only(Bake(v), key) = v
    BY <2>2, <2>3, Baked
  <2> HIDE DEF v
  <2>5. Computed(g, n, mm, v)
    <3>1. Computed(g, n, mm, Only(Bake(v), key))
      BY <1>1, <2>2, RootComputes
    <3> QED BY <2>4, <3>1
  <2>6. h[1] = Append(g, n) /\ h[2] = Newest(Append(g, n))
    BY <1>4 DEF Source, Registered, v
  <2>7. n.sel = key /\ n.op = "const" /\ n.st = NoStore
    BY DEF FX
  <2> HIDE DEF n, h
  <2>8. /\ Continues(g, mm, h[1], mm) /\ h[2] # NoProxy
        /\ Gives(h[1], mm, h[2], v, key) /\ h[1][h[2].node].sel = key
    BY <2>5, <2>6, <2>7 DEF Computed
  <2>9. /\ Standing(h[1]) \subseteq Standing(g)
        /\ \A s : Unreferred(g, s) => Unreferred(h[1], s)
    BY <1>1, <2>6, <2>7, StandingAppend
  <2> QED BY <2>8, <2>9 DEF h, v
<1> HIDE DEF h
<1> QED BY <1>3, <1>4 DEF h

\* The next node of g computes what memory mm has in the parts that x, the node
\* of proxy p, holds of its storage.
Due(g, H, m, x, p, n, u, mm) ==
    /\ Mirrors(g, H, m) /\ x \in H /\ p = [pass |-> pass, node |-> x.node]
    /\ Computed(g, n, m, u) /\ n.sel = x.sel /\ n.op # "ref" /\ n.st = NoStore
    /\ Unreferred(g, x.st) /\ Overwrites(m, mm, x.st, x.sel, u)

\* A computed value written back to the node that holds some parts of a storage.
LEMMA WriteBack ==
    ASSUME NEW g, NEW H, NEW m, NEW x, NEW p, NEW n, NEW u, NEW mm,
           Due(g, H, m, x, p, n, u, mm), pass \in Nat \ {0}
    PROVE  LET k == Append(g, n)
               w == Write(k, p, Newest(k), x.sel)
           IN  Sane(w) /\ Mirrors(w, H, mm) /\ Standing(w) \subseteq Standing(g)
<1> DEFINE k == Append(g, n)
           c == FX("copy_", p, Newest(k), x.sel, Empty, NoStore)
           w == Write(k, p, Newest(k), x.sel)
<1>0. /\ Mirrors(g, H, m) /\ x \in H /\ p = [pass |-> pass, node |-> x.node]
      /\ Computed(g, n, m, u) /\ n.sel = x.sel /\ n.op # "ref" /\ n.st = NoStore
      /\ Unreferred(g, x.st) /\ Overwrites(m, mm, x.st, x.sel, u)
  BY DEF Due
<1>1. /\ Continues(g, m, k, m) /\ Len(k) = Len(g) + 1
      /\ Newest(k).node = Len(k) /\ Newest(k) # NoProxy
      /\ Gives(k, m, Newest(k), u, x.sel)
  BY <1>0 DEF Computed
<1>2. Sane(g) /\ Sane(k) /\ Len(g) \in Nat
  BY <1>1 DEF Continues
<1>3. Unreferred(k, x.st) /\ Standing(k) \subseteq Standing(g)
  BY <1>0, <1>2, StandingAppend
<1> HIDE DEF k
<1>4. Mirrors(k, H, m)
  BY <1>0, <1>1, MirrorsLater
<1>5. w = Append(k, c)
  <2>1. x.node \in 1 .. Len(g) /\ p.node = x.node
    BY <1>0 DEF Mirrors
  <2>2. p.node # Newest(k).node
    BY <1>1, <1>2, <2>1
  <2> QED BY <2>2 DEF Write
<1>6. c.op = "copy_" /\ c.st = NoStore
  BY DEF FX
<1>7. Sane(Append(k, c)) /\ Mirrors(Append(k, c), H, mm)
  <2> DEFINE q == Newest(k)
  <2>1. q # NoProxy /\ Gives(k, m, q, u, x.sel)
    BY <1>1
  <2> HIDE DEF q
  <2>2. Sane(k) /\ Unreferred(k, x.st)
    BY <1>2, <1>3
  <2>3. LET h == Append(k, FX("copy_", p, q, x.sel, Empty, NoStore))
        IN  Sane(h) /\ Mirrors(h, H, mm)
    BY <1>0, <1>4, <2>1, <2>2, MirrorsWrite
  <2> QED BY <2>3 DEF q
<1> HIDE DEF c
<1>8. Standing(Append(k, c)) \subseteq Standing(k)
  BY <1>2, <1>6, StandingAppend
<1> QED BY <1>3, <1>5, <1>7, <1>8 DEF k

\* What g takes up of the node's graph: what variable o refers to is held by
\* the node of proxy p, and by no constant.
Target(g, H, o, x, p) ==
    /\ Continues(graph, mem, g, mem) /\ Mirrors(g, H, mem)
    /\ x \in H /\ x.st = obj[o].st /\ x.sel = obj[o].sel
    /\ p = [pass |-> pass, node |-> x.node]
    /\ Unreferred(g, x.st)

\* x.add_(b): the call, and its result written back.
LEMMA LoweredFaithful ==
    ASSUME CarrierInv, FaithInv, Tracing, NEW g, NEW H, NEW o, NEW x, NEW p,
           Target(g, H, o, x, p), NEW b \in Readable, b = Scalar \/ obj[b].sel = obj[o].sel,
           b # Scalar /\ ~Fresh(b) => obj[b].st # obj[o].st
    PROVE  LET w == Lowered(g, o, b, p)
           IN  /\ Sane(w) /\ Standing(w) \subseteq Standing(g)
               /\ Mirrors(w, H, Store(obj[o].st, Xor(Value(o), Operand(b, obj[o].sel)), obj[o].sel))
<1> DEFINE st == obj[o].st
           sel == obj[o].sel
           u == Xor(Value(o), Operand(b, sel))
           mm == Store(st, u, sel)
           h == Given(g, b)
           n == FX("call", p, h[2], sel, Empty, NoStore)
           k == Append(h[1], n)
           w == Write(k, p, Newest(k), sel)
<1>1. /\ Continues(graph, mem, g, mem) /\ Mirrors(g, H, mem)
      /\ x \in H /\ x.st = st /\ x.sel = sel
      /\ p = [pass |-> pass, node |-> x.node] /\ Unreferred(g, x.st)
      /\ pass \in Nat \ {0} /\ st \in Stores /\ sel \in {Lead, Whole}
  BY PassType DEF Target, Mirrors
<1>2. p # NoProxy /\ Gives(g, mem, p, Value(o), sel)
  BY <1>1, MirrorsGives DEF Value
<1>3. /\ Continues(g, mem, h[1], mem) /\ Gives(h[1], mem, h[2], Operand(b, sel), sel)
      /\ Standing(h[1]) \subseteq Standing(g) /\ Unreferred(h[1], st)
  <2>1. b # Scalar => mem[obj[b].st] = mem[obj[b].st]
    OBVIOUS
  <2> QED BY <1>1, <2>1, GivenGives
<1>4. Lowered(g, o, b, p) = w
  BY DEF Lowered
<1> HIDE DEF h
<1>5. Gives(h[1], mem, p, Value(o), sel) /\ Sane(h[1])
  <2>1. Gives(h[1], mem, p, Value(o), sel)
    BY <1>2, <1>3, GivesLater
  <2>2. Sane(h[1])
    BY <1>3 DEF Continues
  <2> QED BY <2>1, <2>2
<1>6. Computed(h[1], n, mem, u)
  BY <1>1, <1>2, <1>3, <1>5, CallComputes
<1>7. n.op = "call" /\ n.sel = sel /\ n.st = NoStore
  BY DEF FX
<1>8. Mirrors(h[1], H, mem)
  BY <1>1, <1>3, MirrorsLater
<1>9. Only(u, sel) = u
  BY Exact
<1> HIDE DEF n, u
<1>10. /\ \A t \in Stores : t # st => mm[t] = mem[t]
       /\ Only(mm[st], sel) = u
       /\ \A i \in Whole : i \notin sel => mm[st][i] = mem[st][i]
  <2>1. st \in Stores
    BY <1>1
  <2> HIDE DEF st, sel
  <2>2. /\ \A t \in Stores : t # st => mm[t] = mem[t]
        /\ Only(mm[st], sel) = Only(u, sel)
        /\ \A i \in Whole : i \notin sel => mm[st][i] = mem[st][i]
    BY <2>1, StoreFacts
  <2> QED BY <1>9, <2>2
<1> HIDE DEF mm
<1>11. Overwrites(mem, mm, x.st, x.sel, u) /\ n.sel = x.sel /\ Unreferred(h[1], x.st)
  BY <1>1, <1>3, <1>7, <1>10 DEF Overwrites
<1>12. Due(h[1], H, mem, x, p, n, u, mm)
  BY <1>1, <1>6, <1>7, <1>8, <1>11 DEF Due
<1>13. Sane(w) /\ Mirrors(w, H, mm) /\ Standing(w) \subseteq Standing(h[1])
  BY <1>1, <1>12, WriteBack
<1> QED BY <1>3, <1>4, <1>13 DEF mm, u

\* x[key] = b: one index_put, written back.
LEMMA AssignedFaithful ==
    ASSUME CarrierInv, FaithInv, Tracing, NEW g, NEW H, NEW o, NEW x, NEW p,
           Target(g, H, o, x, p), NEW b \in Readable, b # Scalar => ~Stale(b),
           NEW key \in {Lead, Whole}, key \subseteq obj[o].sel, b = Scalar \/ obj[b].sel = key,
           HeldBy(Objects) \subseteq H
    PROVE  LET w == Assigned(g, o, b, key, p)
           IN  /\ Sane(w) /\ Standing(w) \subseteq Standing(g)
               /\ Mirrors(w, H, Store(obj[o].st, Operand(b, key), key))
<1> DEFINE st == obj[o].st
           sel == obj[o].sel
           v == Operand(b, key)
           u == Over(Value(o), v, key)
           mm == Store(st, v, key)
           h == Source(g, b, key)
           n == FX("put", p, h[2], sel, Empty, NoStore)
           k == Append(h[1], n)
           w == Write(k, p, Newest(k), sel)
<1>1. /\ Continues(graph, mem, g, mem) /\ Mirrors(g, H, mem)
      /\ x \in H /\ x.st = st /\ x.sel = sel
      /\ p = [pass |-> pass, node |-> x.node] /\ Unreferred(g, x.st)
      /\ pass \in Nat \ {0} /\ st \in Stores /\ sel \in {Lead, Whole}
  BY PassType DEF Target, Mirrors
<1>2. p # NoProxy /\ Gives(g, mem, p, Value(o), sel)
  BY <1>1, MirrorsGives DEF Value
<1>3. /\ Continues(g, mem, h[1], mem) /\ Gives(h[1], mem, h[2], v, key)
      /\ h[2] # NoProxy /\ h[1][h[2].node].sel = key
      /\ Standing(h[1]) \subseteq Standing(g) /\ Unreferred(h[1], st)
  <2>1. b # Scalar => mem[obj[b].st] = mem[obj[b].st]
    OBVIOUS
  <2> QED BY <1>1, <2>1, SourceGives
<1>4. Assigned(g, o, b, key, p) = IF key = sel /\ h[2] = p THEN h[1] ELSE w
  BY DEF Assigned
<1>5. key = sel /\ h[2] = p => b # Scalar /\ Fresh(b) /\ h[1] = g /\ h[2] = Handle(b)
  <2>1. CASE b # Scalar /\ Carrier(b)
    BY <2>1 DEF Source, Fresh
  <2>2. CASE ~(b # Scalar /\ Carrier(b))
    <3>1. /\ h[1] = Append(g, FX("const", NoProxy, NoProxy, key, Bake(v), NoStore))
          /\ h[2] = Newest(h[1])
      BY <2>2 DEF Source, Registered
    <3>2. h[2].node = Len(g) + 1 /\ Len(g) \in Nat
      <4>1. Sane(g)
        BY <1>1 DEF Continues
      <4>2. Len(h[1]) = Len(g) + 1 /\ Len(g) \in Nat
        BY <3>1, <4>1, AppendAny
      <4> QED BY <3>1, <4>2 DEF Newest
    <3>3. p.node \in 1 .. Len(g)
      BY <1>1 DEF Mirrors
    <3> HIDE DEF h
    <3> QED BY <3>2, <3>3
  <2> QED BY <2>1, <2>2
<1> HIDE DEF h
<1>6. Gives(h[1], mem, p, Value(o), sel) /\ Sane(h[1])
  <2>1. Gives(h[1], mem, p, Value(o), sel)
    BY <1>2, <1>3, GivesLater
  <2>2. Sane(h[1])
    BY <1>3 DEF Continues
  <2> QED BY <2>1, <2>2
<1>7. Mirrors(h[1], H, mem)
  BY <1>1, <1>3, MirrorsLater
<1>8. CASE key = sel /\ h[2] = p
  <2>1. b \in Objects /\ Fresh(b) /\ Handle(b) = p /\ obj[b].sel = sel /\ v = Value(b)
    BY <1>5, <1>8 DEF Readable, Operand
  <2> DEFINE y == Holds(Handle(b).node, obj[b].st, obj[b].sel)
  <2>2. y \in H
    BY <2>1 DEF HeldBy
  <2>3. y.node = x.node /\ y.st = obj[b].st
    BY <1>1, <2>1 DEF Holds
  <2> HIDE DEF y
  <2>4. obj[b].st = st
    BY <1>1, <2>2, <2>3 DEF Mirrors
  <2>5. Only(v, key) = Only(mem[st], key)
    BY <1>8, <2>1, <2>4, Computing DEF Value
  <2> HIDE DEF v
  <2>6. \A t \in Stores : mm[t] = mem[t]
    <3>1. st \in Stores
      BY <1>1
    <3> HIDE DEF st, sel
    <3> QED BY <2>5, <3>1, StoreFacts
  <2> HIDE DEF mm
  <2>7. \A y1 \in H : mm[y1.st] = mem[y1.st]
    BY <1>1, <2>6 DEF Mirrors
  <2>8. Continues(h[1], mem, h[1], mem) /\ SameRefs(h[1], mem, mm)
    BY <1>6, <2>6, ContinuesSelf DEF SameRefs, Sane, Regular
  <2>9. Begins(h[1], h[1])
    BY <2>8 DEF Continues
  <2>10. Continues(h[1], mem, h[1], mm)
    BY <1>6, <2>8, <2>9, ContinuesSame
  <2>11. Mirrors(h[1], H, mm)
    BY <1>7, <2>7, <2>10, MirrorsLater
  <2> QED BY <1>3, <1>4, <1>6, <1>8, <2>11 DEF mm, v
<1>9. CASE ~(key = sel /\ h[2] = p)
  <2>1. Computed(h[1], n, mem, u)
    BY <1>1, <1>2, <1>3, <1>6, PutComputes
  <2>2. n.op = "put" /\ n.sel = sel /\ n.st = NoStore
    BY DEF FX
  <2>3. Only(v, key) = v
    BY Exact
  <2> HIDE DEF v
  <2>4. mm[st] = Over(mem[st], v, key) /\ \A t \in Stores : t # st => mm[t] = mem[t]
    <3>1. st \in Stores
      BY <1>1
    <3> HIDE DEF st, sel
    <3>2. mm[st] = Over(mem[st], v, key)
      BY <3>1, StoreFacts
    <3>3. \A t \in Stores : t # st => mm[t] = mem[t]
      BY <3>1, StoreFacts
    <3> QED BY <3>2, <3>3
  <2>5. Only(mm[st], sel) = u
    BY <2>3, <2>4, Computing DEF Value
  <2>6. \A i \in Whole : i \notin sel => mm[st][i] = mem[st][i]
    BY <2>4 DEF Over
  <2> HIDE DEF n, u, mm
  <2>7. Overwrites(mem, mm, x.st, x.sel, u) /\ n.sel = x.sel /\ Unreferred(h[1], x.st)
    BY <1>1, <1>3, <2>2, <2>4, <2>5, <2>6 DEF Overwrites
  <2>8. Sane(w) /\ Mirrors(w, H, mm) /\ Standing(w) \subseteq Standing(h[1])
    <3>1. x.sel = sel /\ x \in H /\ p = [pass |-> pass, node |-> x.node] /\ pass \in Nat \ {0}
      BY <1>1
    <3>2. n.sel = x.sel /\ n.op # "ref" /\ n.st = NoStore
      BY <2>2, <2>7
    <3>3. Due(h[1], H, mem, x, p, n, u, mm)
      BY <1>7, <2>1, <2>7, <3>1, <3>2 DEF Due
    <3> QED BY <1>1, <3>1, <3>3, WriteBack
  <2> QED BY <1>3, <1>4, <1>9, <2>8 DEF mm, v
<1> QED BY <1>8, <1>9

-----------------------------------------------------------------------------
(* Recorded calls                                                          *)

LEMMA StoreElse ==
    ASSUME CarrierInv, NEW s \in Stores, NEW v, NEW sel, NEW mm, mm = Store(s, v, sel)
    PROVE  \A t \in Stores : t # s => mm[t] = mem[t]
BY DEF Store, CarrierInv

\* A call that allocates: its node holds the allocation.
LEMMA AllocatedFaithful ==
    ASSUME CarrierInv, FaithInv, Tracing, UNCHANGED <<pass, index, phase>>,
           NEW t \in Temps, NEW s \in Allocated(t), NEW v, Only(v, Whole) = v,
           mem' = Store(s, v, Whole),
           NEW g, Continues(Forget(s), mem', g, mem'),
           Standing(g) \subseteq Standing(Forget(s)),
           NEW n, Computed(g, n, mem', v), n.sel = Whole,
           n.st \in {s, NoStore}, graph' = Append(g, n),
           \A x \in Objects \ {t} :
              obj'[x] = obj[x] \/ (obj'[x].kind = "plain" /\ ~Fresh(x)),
           obj'[t].proxy = Newest(graph'), obj'[t].st = s, obj'[t].sel = Whole
    PROVE  FaithInv'
<1> DEFINE f == Forget(s)
           J == HeldBy(Objects \ {t}) \cup Standing(f)
           z == Holds(Len(g) + 1, s, Whole)
<1>1. s \in Stores /\ \A u \in Stores : u # s => mem'[u] = mem[u]
  <2>1. s \in Stores /\ t \in Objects
    BY AllocatedFacts DEF Objects
  <2> QED BY <2>1, StoreElse
<1>2. /\ Continues(graph, mem, f, mem') /\ Mirrors(f, J, mem')
      /\ \A x \in J : x.st # s
  <2>1. t \in Objects
    BY DEF Objects
  <2> QED BY <1>1, <2>1, Freed
<1>3. Mirrors(g, J, mem')
  BY <1>2, MirrorsLater
<1>4. Only(mem'[s], Whole) = v
  BY <1>1, StoreFacts
<1>5. Mirrors(graph', J \cup {z}, mem')
  <2>1. n.sel \in {Lead, Whole} /\ Computed(g, n, mem', Only(mem'[s], n.sel))
    BY <1>4
  <2> HIDE DEF J
  <2> QED BY <1>1, <1>2, <1>3, <2>1, MirrorsNew
<1>6. /\ Sane(graph') /\ Len(graph') = Len(g) + 1
      /\ Newest(graph') = [pass |-> pass, node |-> Len(graph')] /\ Sane(g)
  BY DEF Computed, Continues
<1>7. Standing(graph') \subseteq J \cup {z}
  <2>1. /\ Standing(graph') \subseteq Standing(g) \cup {Holds(Len(g) + 1, n.st, Whole)}
        /\ n.st = NoStore => Standing(graph') \subseteq Standing(g)
    BY <1>6, StandingAppend
  <2>2. Standing(g) \subseteq J
    OBVIOUS
  <2> HIDE DEF J
  <2> QED BY <2>1, <2>2
<1>8. Holds(obj'[t].proxy.node, obj'[t].st, obj'[t].sel) = z
  BY <1>6
<1>9. t \in Objects /\ obj'[t].proxy.pass = pass /\ StaysDeclared(t, obj'[t])
      /\ ~(t \in Named)
  BY <1>6, TempsStayDeclared, CarrierAssumption DEF Objects
<1>10. HeldBy(Objects \ {t}) \subseteq J \cup {z}
  OBVIOUS
<1> HIDE DEF J, z
<1> DEFINE K == J \cup {z}
<1>11. z \in K
  OBVIOUS
<1> HIDE DEF K
<1> QED BY <1>5, <1>6, <1>7, <1>8, <1>9, <1>10, <1>11, FaithStep DEF K

LEMMA ShedElse ==
    ASSUME CarrierInv, NEW args, NEW t, NEW r, obj' = [Shed(args) EXCEPT ![t] = r]
    PROVE  /\ t \in Objects => obj'[t] = r
           /\ \A x \in Objects \ {t} : obj'[x] = obj[x] \/ (obj'[x].kind = "plain" /\ ~Fresh(x))
<1>1. ASSUME NEW x \in Objects
      PROVE  Shed(args)[x] = obj[x] \/ (Shed(args)[x].kind = "plain" /\ ~Fresh(x))
  BY DEF Shed, Fresh, Plain
<1>2. /\ t \in Objects => obj'[t] = r
      /\ \A x \in Objects \ {t} : obj'[x] = Shed(args)[x]
  BY ShedFacts
<1> QED BY <1>1, <1>2

\* torch.add(o, b).
LEMMA CallFaithful ==
    ASSUME CarrierInv, FaithInv, Tracing, NEW o \in Objects, NEW b \in Operands,
           NEW t \in Temps, Call(o, b, t)
    PROVE  FaithInv'
<1> DEFINE v == Xor(Value(o), Operand(b, Whole))
<1>1. /\ Carrier(o) /\ obj[o].sel = Whole /\ b \in Fitting(Whole) /\ t \notin {o, b}
      /\ {o, b} \subseteq Readable /\ UNCHANGED <<pass, index, phase>> /\ t \in Objects
      /\ b # Scalar => b \in Objects /\ obj[b].sel = Whole
  BY DEF Call, Fitting, Objects
<1>2. PICK s \in Allocated(t) :
         LET g == Given(Forget(s), o)
             h == Given(g[1], b)
             k == Append(h[1], FX("call", g[2], h[2], Whole, Empty, s))
         IN  /\ mem' = Store(s, v, Whole)
             /\ \/ /\ graph' = k
                   /\ obj' = [Shed({o, b}) EXCEPT ![t] = Wrap("torch", s, Whole, Newest(k))]
                \/ /\ graph' = Forget(s)
                   /\ obj' = [Shed({o, b}) EXCEPT ![t] = Plain(s, Whole)]
  BY DEF Call
<1> DEFINE f == Forget(s)
           g == Given(f, o)
           h == Given(g[1], b)
           n == FX("call", g[2], h[2], Whole, Empty, s)
           k == Append(h[1], n)
           J == HeldBy(Objects \ {t}) \cup Standing(f)
<1>3. s \in Stores /\ mem' = Store(s, v, Whole)
  BY <1>2, AllocatedFacts
<1>31. \A u \in Stores : u # s => mem'[u] = mem[u]
  <2> HIDE DEF v
  <2> QED BY <1>3, StoreElse
<1>4. Only(v, Whole) = v
  <2>1. Only(Value(o), Whole) = Value(o) /\ Only(Operand(b, Whole), Whole) = Operand(b, Whole)
    BY <1>1, Exact
  <2> QED BY <2>1, Exact
<1>5. /\ Continues(graph, mem, f, mem') /\ Mirrors(f, J, mem')
      /\ \A x \in J : x.st # s
      /\ \A x \in Objects \ {t} : obj[x].st # s
  BY <1>1, <1>31, Freed
<1>6. CASE graph' = f /\ obj' = [Shed({o, b}) EXCEPT ![t] = Plain(s, Whole)]
  <2>1. obj'[t].kind = "plain" /\ \A x \in Objects \ {t} :
           obj'[x] = obj[x] \/ (obj'[x].kind = "plain" /\ ~Fresh(x))
    <3>1. obj' = [Shed({o, b}) EXCEPT ![t] = Plain(s, Whole)] /\ t \in Objects
      BY <1>1, <1>6
    <3>2. obj'[t] = Plain(s, Whole)
      BY <3>1, ShedElse
    <3>3. obj'[t].kind = "plain"
      BY <3>2 DEF Plain
    <3>4. \A x \in Objects \ {t} : obj'[x] = obj[x] \/ (obj'[x].kind = "plain" /\ ~Fresh(x))
      <4> HIDE DEF v, f, g, h, n, k, J
      <4> QED BY <3>1, ShedElse
    <3> QED BY <3>3, <3>4
  <2>2. Sane(graph') /\ Standing(graph') \subseteq J /\ HeldBy(Objects \ {t}) \subseteq J
    BY <1>5, <1>6 DEF Continues
  <2>3. StaysDeclared(t, obj'[t]) /\ ~(t \in Named) /\ Mirrors(graph', J, mem')
    BY <1>5, <1>6, TempsStayDeclared, CarrierAssumption
  <2> HIDE DEF J, v
  <2> QED BY <1>1, <2>1, <2>2, <2>3, FaithStep
<1>7. CASE /\ graph' = k
           /\ obj' = [Shed({o, b}) EXCEPT ![t] = Wrap("torch", s, Whole, Newest(k))]
  <2>1. ASSUME NEW c \in {o, b}, c # Scalar PROVE mem'[obj[c].st] = mem[obj[c].st]
    <3>1. c \in Objects \ {t} /\ obj[c] # Nothing
      BY <1>1, <2>1 DEF Readable
    <3> HIDE DEF v
    <3> QED BY <1>31, <1>5, <3>1, ObjectFacts
  <2>2. /\ Continues(f, mem', g[1], mem') /\ Gives(g[1], mem', g[2], Value(o), Whole)
        /\ g[2] # NoProxy /\ Standing(g[1]) \subseteq Standing(f)
    <3>1. o # Scalar /\ Operand(o, Whole) = Value(o)
      BY CarrierAssumption DEF Operand
    <3>2. /\ Continues(f, mem', g[1], mem') /\ Gives(g[1], mem', g[2], Operand(o, Whole), Whole)
          /\ g[2] # NoProxy /\ Standing(g[1]) \subseteq Standing(f)
      <4> HIDE DEF f, v
      <4> QED BY <1>1, <1>5, <2>1, <3>1, GivenGives
    <3> QED BY <3>1, <3>2
  <2>3. Continues(graph, mem, g[1], mem')
    <3> HIDE DEF f, g
    <3> QED BY <1>5, <2>2, ContinuesOn
  <2>4. /\ Continues(g[1], mem', h[1], mem')
        /\ Gives(h[1], mem', h[2], Operand(b, Whole), Whole)
        /\ Standing(h[1]) \subseteq Standing(g[1])
    <3> HIDE DEF f, g
    <3> QED BY <1>1, <2>1, <2>3, GivenGives
  <2> HIDE DEF f, g, h
  <2>5. Gives(h[1], mem', g[2], Value(o), Whole)
    BY <2>2, <2>4, GivesLater
  <2>6. Continues(f, mem', h[1], mem') /\ Standing(h[1]) \subseteq Standing(f)
    BY <2>2, <2>4, ContinuesOn
  <2>7. Sane(h[1]) /\ pass \in Nat \ {0}
    BY <2>6, PassType DEF Continues
  <2>8. Computed(h[1], n, mem', v)
    BY <1>3, <2>2, <2>4, <2>5, <2>7, CallComputes
  <2>9. n.sel = Whole /\ n.st \in {s, NoStore}
    BY DEF FX
  <2>10. obj'[t] = Wrap("torch", s, Whole, Newest(k)) /\ \A x \in Objects \ {t} :
           obj'[x] = obj[x] \/ (obj'[x].kind = "plain" /\ ~Fresh(x))
    BY <1>1, <1>7, ShedElse
  <2>11. obj'[t].proxy = Newest(graph') /\ obj'[t].st = s /\ obj'[t].sel = Whole
    BY <1>7, <2>10 DEF Wrap
  <2> HIDE DEF n, v
  <2> QED BY <1>1, <1>3, <1>4, <1>7, <2>6, <2>8, <2>9, <2>10, <2>11, AllocatedFaithful DEF f
<1> QED BY <1>2, <1>6, <1>7

-----------------------------------------------------------------------------
(* Views and conversions                                                   *)

\* A variable the program assigns is bound to a carrier the graph mirrors.
LEMMA BindFaithful ==
    ASSUME CarrierInv, Tracing, UNCHANGED <<pass, index, phase>>, NEW t \in Temps,
           NEW r, obj' = [obj EXCEPT ![t] = r], r.proxy.pass = pass,
           NEW J, Held \subseteq J, Standing(graph') \subseteq Held,
           Holds(r.proxy.node, r.st, r.sel) \in J,
           Sane(graph'), Mirrors(graph', J, mem')
    PROVE  FaithInv'
<1>1. t \in Objects /\ obj'[t] = r /\ \A x \in Objects \ {t} : obj'[x] = obj[x]
  BY DEF CarrierInv, Objects
<1>2. StaysDeclared(t, obj'[t]) /\ ~(t \in Named)
  BY TempsStayDeclared, CarrierAssumption
<1>3. HeldBy(Objects \ {t}) \subseteq J
  BY DEF Held, HeldBy
<1>4. Standing(graph') \subseteq J
  OBVIOUS
<1>5. Holds(obj'[t].proxy.node, obj'[t].st, obj'[t].sel) \in J
  BY <1>1
<1>6. obj'[t].proxy.pass = pass
  BY <1>1
<1>7. \A x \in Objects \ {t} : obj'[x] = obj[x] \/ (obj'[x].kind = "plain" /\ ~Fresh(x))
  BY <1>1
<1> QED BY <1>1, <1>2, <1>3, <1>4, <1>5, <1>6, <1>7, FaithStep

\* A view of a carrier recorded as a node over the same cell.
LEMMA ViewFaithful ==
    ASSUME CarrierInv, FaithInv, Tracing, UNCHANGED <<mem, pass, index, phase>>,
           NEW o \in Objects, Fresh(o), NEW t \in Temps,
           NEW sel \in {Lead, Whole}, sel \subseteq obj[o].sel, NEW kind,
           graph' = Append(graph, FX("view", Handle(o), NoProxy, sel, Empty, NoStore)),
           obj' = [obj EXCEPT ![t] = Wrap(kind, obj[o].st, sel, Newest(graph'))]
    PROVE  FaithInv'
<1> DEFINE x == Holds(Handle(o).node, obj[o].st, obj[o].sel)
           n == FX("view", Handle(o), NoProxy, sel, Empty, NoStore)
           h == Append(graph, n)
           z == Holds(Len(graph) + 1, x.st, sel)
           r == Wrap(kind, obj[o].st, sel, Newest(graph'))
<1>1. x \in Held /\ Handle(o) = [pass |-> pass, node |-> x.node]
  BY FreshHolds DEF Holds
<1>2. x.st = obj[o].st /\ x.sel = obj[o].sel
  BY DEF Holds
<1>3. Sane(graph) /\ Mirrors(graph, Held, mem) /\ pass \in Nat \ {0}
  BY PassType DEF FaithInv
<1> HIDE DEF x
<1>4. Sane(h) /\ Newest(h).node = Len(graph) + 1 /\ Mirrors(h, Held \cup {z}, mem)
  <2> DEFINE p == Handle(o)
             K == Held
  <2>1. x \in K /\ p = [pass |-> pass, node |-> x.node] /\ sel \subseteq x.sel
    BY <1>1, <1>2
  <2>2. Sane(graph) /\ Mirrors(graph, K, mem) /\ pass \in Nat \ {0}
    BY <1>3
  <2> HIDE DEF p, K
  <2> DEFINE e == Append(graph, FX("view", p, NoProxy, sel, Empty, NoStore))
  <2>3. Sane(e)
    BY <2>1, <2>2, MirrorsView
  <2>4. Newest(e).node = Len(graph) + 1
    <3>1. Len(e) = Len(graph) + 1
      BY <2>2, AppendAny
    <3> HIDE DEF e
    <3> QED BY <3>1 DEF Newest
  <2>5. Mirrors(e, K \cup {z}, mem)
    BY <2>1, <2>2, MirrorsView
  <2> QED BY <2>3, <2>4, <2>5 DEF p, K
<1>5. n.st = NoStore
  BY DEF FX
<1> HIDE DEF n
<1>6. Standing(h) \subseteq Standing(graph)
  BY <1>3, <1>5, StandingAppend
<1>7. Newest(h).pass = pass /\ graph' = h
  BY DEF Newest, n
<1> HIDE DEF h
<1>8. Standing(graph') \subseteq Held
  <2>1. Standing(graph) \subseteq Held
    BY DEF Held
  <2> QED BY <1>6, <1>7, <2>1
<1>9. r.proxy = Newest(graph') /\ r.st = obj[o].st /\ r.sel = sel
  BY DEF Wrap
<1>10. Holds(r.proxy.node, r.st, r.sel) = z
  BY <1>2, <1>4, <1>7, <1>9
<1>11. Sane(graph') /\ Mirrors(graph', Held \cup {z}, mem') /\ r.proxy.pass = pass
  BY <1>4, <1>7, <1>9
<1>12. obj' = [obj EXCEPT ![t] = r]
  OBVIOUS
<1> HIDE DEF r, z
<1> DEFINE J == Held \cup {z}
<1>13. Held \subseteq J /\ Holds(r.proxy.node, r.st, r.sel) \in J
  BY <1>10
<1> HIDE DEF J
<1> QED BY <1>8, <1>11, <1>12, <1>13, BindFaithful DEF J

\* A second carrier of the same parts, with the same handle.
LEMMA SameFaithful ==
    ASSUME CarrierInv, FaithInv, Tracing, UNCHANGED <<mem, graph, pass, index, phase>>,
           NEW o \in Objects, Fresh(o), NEW t \in Temps, NEW r,
           obj' = [obj EXCEPT ![t] = r],
           r.st = obj[o].st, r.sel = obj[o].sel, r.proxy = Handle(o)
    PROVE  FaithInv'
<1>1. Handle(o).pass = pass /\ Holds(Handle(o).node, obj[o].st, obj[o].sel) \in Held
  <2>1. Handle(o) = [pass |-> pass, node |-> Handle(o).node]
    BY FreshHolds
  <2>2. Handle(o).pass = pass
    BY <2>1
  <2> QED BY <2>2, FreshHolds
<1>2. Sane(graph') /\ Mirrors(graph', Held, mem')
  BY DEF FaithInv
<1>3. Standing(graph') \subseteq Held
  BY DEF Held
<1>4. Holds(r.proxy.node, r.st, r.sel) \in Held /\ r.proxy.pass = pass
  BY <1>1
<1> QED BY <1>2, <1>3, <1>4, BindFaithful

LEMMA AliasFaithful ==
    ASSUME CarrierInv, FaithInv, Tracing, NEW o \in Objects, NEW t \in Temps, Alias(o, t)
    PROVE  FaithInv'
<1>1. Fresh(o) /\ UNCHANGED <<mem, pass, index, phase>>
  BY DEF Alias
<1>2. obj[o].sel \in {Lead, Whole}
  BY <1>1, ObjectFacts DEF Fresh
<1>3. CASE obj[o].kind = "numpy"
  <2>1. /\ graph' = Append(graph, FX("view", Handle(o), NoProxy, obj[o].sel, Empty, NoStore))
        /\ obj' = [obj EXCEPT ![t] = Wrap("numpy", obj[o].st, obj[o].sel, Newest(graph'))]
    BY <1>3 DEF Alias, Newest
  <2>2. obj[o].sel \subseteq obj[o].sel
    OBVIOUS
  <2> QED BY <1>1, <1>2, <2>1, <2>2, ViewFaithful
<1>4. CASE obj[o].kind # "numpy"
  <2> DEFINE r == Wrap("torch", obj[o].st, obj[o].sel, Handle(o))
  <2>1. UNCHANGED graph /\ obj' = [obj EXCEPT ![t] = r]
    BY <1>4 DEF Alias
  <2>2. r.st = obj[o].st /\ r.sel = obj[o].sel /\ r.proxy = Handle(o)
    BY DEF Wrap
  <2> HIDE DEF r
  <2> QED BY <1>1, <2>1, <2>2, SameFaithful
<1> QED BY <1>3, <1>4

LEMMA NarrowFaithful ==
    ASSUME CarrierInv, FaithInv, Tracing, NEW o \in Objects, NEW t \in Temps, Narrow(o, t)
    PROVE  FaithInv'
<1>1. /\ Fresh(o) /\ UNCHANGED <<mem, pass, index, phase>> /\ obj[o].sel = Whole
      /\ graph' = Append(graph, FX("view", Handle(o), NoProxy, Lead, Empty, NoStore))
      /\ obj' = [obj EXCEPT ![t] = Wrap(obj[o].kind, obj[o].st, Lead, Newest(graph'))]
  BY DEF Narrow, Newest
<1>2. Lead \in {Lead, Whole} /\ Lead \subseteq obj[o].sel
  BY <1>1, Parts
<1> QED BY <1>1, <1>2, ViewFaithful

LEMMA ConvertFaithful ==
    ASSUME CarrierInv, FaithInv, Tracing, NEW o \in Objects, NEW t \in Temps, Convert(o, t)
    PROVE  FaithInv'
<1>1. /\ Fresh(o) /\ UNCHANGED <<mem, graph, pass, index, phase>>
  BY DEF Convert
<1>2. PICK kind : obj' = [obj EXCEPT ![t] = [Wrap(kind, obj[o].st, obj[o].sel, Handle(o))
                                             EXCEPT !.port = obj[o].port]]
  BY DEF Convert
<1> DEFINE r == [Wrap(kind, obj[o].st, obj[o].sel, Handle(o)) EXCEPT !.port = obj[o].port]
<1>3. r.st = obj[o].st /\ r.sel = obj[o].sel /\ r.proxy = Handle(o)
  BY DEF Wrap
<1>4. obj' = [obj EXCEPT ![t] = r]
  BY <1>2
<1> HIDE DEF r
<1> QED BY <1>1, <1>3, <1>4, SameFaithful

-----------------------------------------------------------------------------
(* Copies                                                                  *)

\* A node that allocates what variable t is bound to, from a carrier.
LEMMA ResultFaithful ==
    ASSUME CarrierInv, FaithInv, Tracing, UNCHANGED <<pass, index, phase>>,
           NEW t \in Temps, NEW s \in Allocated(t), NEW v, Only(v, Whole) = v,
           mem' = Store(s, v, Whole), NEW n, Computed(Forget(s), n, mem', v),
           n.sel = Whole, n.st \in {s, NoStore},
           graph' = Append(Forget(s), n), NEW kind,
           obj' = [obj EXCEPT ![t] = Wrap(kind, s, Whole, Newest(graph'))]
    PROVE  FaithInv'
<1>1. t \in Objects /\ obj'[t] = Wrap(kind, s, Whole, Newest(graph'))
      /\ \A x \in Objects \ {t} : obj'[x] = obj[x]
  BY DEF CarrierInv, Objects
<1>2. obj'[t].proxy = Newest(graph') /\ obj'[t].st = s /\ obj'[t].sel = Whole
  BY <1>1 DEF Wrap
<1>3. \A x \in Objects \ {t} : obj'[x] = obj[x] \/ (obj'[x].kind = "plain" /\ ~Fresh(x))
  BY <1>1
<1>4. Continues(Forget(s), mem', Forget(s), mem')
  <2>1. Sane(Forget(s))
    BY DEF Computed, Continues
  <2> QED BY <2>1, ContinuesSelf
<1>5. Standing(Forget(s)) \subseteq Standing(Forget(s))
  OBVIOUS
<1> QED BY <1>2, <1>3, <1>4, <1>5, AllocatedFaithful

LEMMA CloneFaithful ==
    ASSUME CarrierInv, FaithInv, Tracing, NEW o \in Objects, NEW t \in Temps, Clone(o, t)
    PROVE  FaithInv'
<1>1. /\ Fresh(o) /\ obj[o].sel = Whole /\ t # o /\ UNCHANGED <<pass, index, phase>>
      /\ t \in Objects
  BY DEF Clone, Objects
<1>2. PICK s \in Allocated(t) :
         LET g == Append(Forget(s), FX("clone", Handle(o), NoProxy, Whole, Empty,
                                       IF obj[o].kind = "torch" THEN s ELSE NoStore))
         IN  /\ mem' = Store(s, Value(o), Whole) /\ graph' = g
             /\ obj' = [obj EXCEPT ![t] = Wrap(obj[o].kind, s, Whole, Newest(g))]
  BY DEF Clone
<1> DEFINE f == Forget(s)
           v == Value(o)
           st == IF obj[o].kind = "torch" THEN s ELSE NoStore
           n == FX("clone", Handle(o), NoProxy, Whole, Empty, st)
<1>3. /\ mem' = Store(s, v, Whole) /\ graph' = Append(f, n)
      /\ obj' = [obj EXCEPT ![t] = Wrap(obj[o].kind, s, Whole, Newest(graph'))]
  BY <1>2 DEF Newest
<1>4. s \in Stores /\ st \in {s, NoStore}
  BY AllocatedFacts
<1>5. \A u \in Stores : u # s => mem'[u] = mem[u]
  BY <1>3, <1>4, StoreElse
<1>6. Continues(graph, mem, f, mem')
  BY <1>1, <1>5, Freed
<1>7. Gives(graph, mem, Handle(o), v, Whole) /\ Handle(o) # NoProxy
  BY <1>1, FreshHolds
<1> HIDE DEF f, v, st
<1>8. Gives(f, mem', Handle(o), v, Whole)
  BY <1>6, <1>7, GivesLater
<1>9. Sane(f) /\ pass \in Nat \ {0} /\ st \in Stores \cup {NoStore} /\ Whole \in {Lead, Whole}
  BY <1>4, <1>6, PassType DEF Continues
<1>10. Computed(f, n, mem', v)
  BY <1>7, <1>8, <1>9, CloneComputes
<1>11. n.sel = Whole /\ n.st \in {s, NoStore}
  BY <1>4 DEF FX
<1>12. Only(v, Whole) = v
  BY <1>1, Exact DEF v
<1> HIDE DEF n
<1> QED BY <1>1, <1>3, <1>10, <1>11, <1>12, ResultFaithful DEF f

LEMMA UncapturedFaithful ==
    ASSUME CarrierInv, FaithInv, Tracing, NEW o \in Objects, NEW t \in Temps, Uncaptured(o, t)
    PROVE  FaithInv'
<1>1. /\ Fresh(o) /\ obj[o].sel = Whole /\ UNCHANGED <<pass, index, phase>> /\ t \in Objects
  BY DEF Uncaptured, Objects
<1>2. PICK s \in Allocated(t) :
         LET g == Append(Forget(s), FX("failed", Handle(o), NoProxy, Whole, Empty, NoStore))
         IN  /\ mem' = Store(s, Xor(Value(o), Ones), Whole) /\ graph' = g
             /\ obj' = [obj EXCEPT ![t] = Wrap("numpy", s, Whole, Newest(g))]
  BY DEF Uncaptured
<1> DEFINE f == Forget(s)
           v == Xor(Value(o), Ones)
           n == FX("failed", Handle(o), NoProxy, Whole, Empty, NoStore)
<1>3. /\ mem' = Store(s, v, Whole) /\ graph' = Append(f, n)
      /\ obj' = [obj EXCEPT ![t] = Wrap("numpy", s, Whole, Newest(graph'))]
  BY <1>2 DEF Newest
<1>4. s \in Stores
  BY AllocatedFacts
<1>5. \A u \in Stores : u # s => mem'[u] = mem[u]
  BY <1>3, <1>4, StoreElse
<1>6. Continues(graph, mem, f, mem')
  BY <1>1, <1>5, Freed
<1>7. Gives(graph, mem, Handle(o), Value(o), Whole)
  BY <1>1, FreshHolds
<1>12. Only(v, Whole) = v
  <2>1. Only(Value(o), Whole) = Value(o)
    BY <1>1, Exact
  <2>2. Only(Ones, Whole) = Ones
    BY DEF Only, Ones
  <2> QED BY <2>1, <2>2, Exact
<1> HIDE DEF f, v
<1>8. Refers(f, Handle(o))
  BY <1>6, <1>7, GivesLater DEF Gives
<1>9. Sane(f) /\ pass \in Nat \ {0} /\ Whole \in {Lead, Whole}
  BY <1>6, PassType DEF Continues
<1>10. Computed(f, n, mem', v)
  BY <1>8, <1>9, FailedComputes
<1>11. n.sel = Whole /\ n.st \in {s, NoStore}
  BY DEF FX
<1> HIDE DEF n
<1> QED BY <1>1, <1>3, <1>10, <1>11, <1>12, ResultFaithful DEF f

-----------------------------------------------------------------------------
(* Writes                                                                  *)

\* A step that writes through variable o, and leaves it the handle it has if it
\* has one.
LEMMA ReboundFaithful ==
    ASSUME CarrierInv, Tracing, UNCHANGED <<pass, index, phase>>,
           NEW o \in Objects, NEW r, obj'[o] = r,
           \A x \in Objects \ {o} : obj'[x] = obj[x] \/ (obj'[x].kind = "plain" /\ ~Fresh(x)),
           r.proxy.pass = pass, Fresh(o) => r.proxy = Handle(o) /\ StaysDeclared(o, r),
           NEW J, Held \subseteq J, Standing(graph') \subseteq J,
           Holds(r.proxy.node, r.st, r.sel) \in J,
           Sane(graph'), Mirrors(graph', J, mem')
    PROVE  FaithInv'
<1>1. HeldBy(Objects \ {o}) \subseteq J
  <2>1. HeldBy(Objects \ {o}) \subseteq Held
    BY DEF Held, HeldBy
  <2> QED BY <2>1
<1>2. Declared(obj[o], Layout(o), pass) => Fresh(o) /\ Handle(o) = obj[o].proxy
  BY ObjectFacts, HandleFacts DEF Declared
<1>3. StaysDeclared(o, obj'[o])
  BY UndeclaredStays
<1>4. o \in Named /\ Declared(obj[o], Layout(o), pass) => obj'[o].proxy = obj[o].proxy
  BY <1>2
<1>5. Holds(obj'[o].proxy.node, obj'[o].st, obj'[o].sel) \in J /\ obj'[o].proxy.pass = pass
  OBVIOUS
<1> QED BY <1>1, <1>3, <1>4, <1>5, FaithStep

\* The node a fresh carrier is held by.
LEMMA FreshTarget ==
    ASSUME CarrierInv, FaithInv, Tracing, NEW o \in Objects, Fresh(o), ~Referred(obj[o].st)
    PROVE  Target(graph, Held, o, Holds(Handle(o).node, obj[o].st, obj[o].sel), Handle(o))
<1> DEFINE x == Holds(Handle(o).node, obj[o].st, obj[o].sel)
<1>1. x \in Held /\ Handle(o) = [pass |-> pass, node |-> Handle(o).node]
  BY FreshHolds
<1>2. x.node = Handle(o).node /\ x.st = obj[o].st /\ x.sel = obj[o].sel
  BY DEF Holds
<1>3. Sane(graph) /\ Mirrors(graph, Held, mem)
  BY DEF FaithInv
<1>4. Continues(graph, mem, graph, mem)
  BY <1>3, ContinuesSelf
<1>5. Unreferred(graph, x.st)
  <2>1. DOMAIN graph = 1 .. Len(graph)
    BY <1>3 DEF Sane
  <2> QED BY <1>2, <2>1 DEF Referred, Unreferred
<1> HIDE DEF x
<1>6. Handle(o) = [pass |-> pass, node |-> x.node]
  BY <1>1, <1>2
<1>7. Target(graph, Held, o, x, Handle(o))
  BY <1>1, <1>2, <1>3, <1>4, <1>5, <1>6 DEF Target
<1> QED BY <1>7 DEF x

\* The constant a steady value is promoted to.
LEMMA ConstantComputes ==
    ASSUME CarrierInv, FaithInv, NEW o \in Objects, obj[o] # Nothing, Tracing,
           Steady(o), NEW st \in Stores \cup {NoStore}
    PROVE  Computed(graph, FX("const", NoProxy, NoProxy, obj[o].sel, Bake(Value(o)), st),
                    mem, Value(o))
<1>1. Sane(graph) /\ pass \in Nat \ {0}
  BY PassType DEF FaithInv
<1>2. obj[o].sel \in {Lead, Whole} /\ Value(o) \in Contents /\ Bake(Value(o)) \in Contents
  BY ObjectFacts, ContentsType
<1>3. Only(Bake(Value(o)), obj[o].sel) = Value(o)
  <2>1. Unvarying(Value(o))
    BY DEF Steady, Unvarying
  <2>2. Only(Value(o), obj[o].sel) = Value(o)
    BY Exact
  <2> QED BY <1>2, <2>1, <2>2, Baked
<1>4. Computed(graph, FX("const", NoProxy, NoProxy, obj[o].sel, Bake(Value(o)), st),
               mem, Only(Bake(Value(o)), obj[o].sel))
  <2> DEFINE val == Bake(Value(o))
             sel == obj[o].sel
  <2>1. val \in Contents /\ sel \in {Lead, Whole}
    BY <1>2
  <2> HIDE DEF val, sel
  <2>2. Computed(graph, FX("const", NoProxy, NoProxy, sel, val, st), mem, Only(val, sel))
    BY <1>1, <2>1, RootComputes
  <2> QED BY <2>2 DEF val, sel
<1> QED BY <1>3, <1>4

\* A plain value nothing else holds is promoted: a new node stands for its
\* storage, in a memory that may differ there.
LEMMA Promoted ==
    ASSUME CarrierInv, FaithInv, Tracing, NEW o \in Objects, obj[o] # Nothing,
           ~Fresh(o), ~Shared(o), ~Referred(obj[o].st),
           NEW m, \A t \in Stores : t # obj[o].st => m[t] = mem[t],
           NEW n, n.sel = obj[o].sel, n.op # "ref",
           n.st = Covers(obj[o].st, obj[o].sel),
           Computed(graph, n, m, Only(m[obj[o].st], obj[o].sel))
    PROVE  LET g == Append(graph, n)
               z == Holds(Len(graph) + 1, obj[o].st, obj[o].sel)
           IN  /\ Continues(graph, mem, g, m) /\ Mirrors(g, Held \cup {z}, m)
               /\ Unreferred(g, obj[o].st) /\ Standing(g) \subseteq Held \cup {z}
               /\ Newest(g) = [pass |-> pass, node |-> z.node]
<1> DEFINE g == Append(graph, n)
           st == obj[o].st
           sel == obj[o].sel
           z == Holds(Len(graph) + 1, st, sel)
<1>1. Sane(graph) /\ Mirrors(graph, Held, mem) /\ DOMAIN graph = 1 .. Len(graph)
  BY DEF FaithInv, Sane
<1>2. st \in Stores /\ sel \in {Lead, Whole}
  BY ObjectFacts
<1>3. \A x \in Held : x.st # st
  <2>1. \A x \in HeldBy(Objects) : x.st # st
    <3>1. \A c \in Objects : Fresh(c) => obj[c].st # st
      BY DEF Shared
    <3> QED BY <3>1 DEF HeldBy, Holds
  <2>2. \A x \in Standing(graph) : x.st # st
    <3> SUFFICES ASSUME NEW i \in 1 .. Len(graph), graph[i].op # "ref"
                 PROVE  Holds(i, graph[i].st, Whole).st # st
      BY DEF Standing
    <3>1. graph[i].st # st
      BY <1>1 DEF Shared, Captured
    <3> QED BY <3>1 DEF Holds
  <2> QED BY <2>1, <2>2 DEF Held
<1>4. Unreferred(graph, st)
  BY <1>1 DEF Referred, Unreferred
<1>5. Continues(graph, mem, graph, m)
  <2>1. Len(graph) = Len(graph) /\ Begins(graph, graph)
    <3>1. Continues(graph, mem, graph, mem)
      BY <1>1, ContinuesSelf
    <3> QED BY <3>1 DEF Continues
  <2>2. SameRefs(graph, mem, m)
    <3> HIDE DEF st
    <3>1. \A t \in Stores : t # st => m[t] = mem[t]
      BY DEF st
    <3> QED BY <1>1, <1>4, <3>1, UnreferredSame
  <2> QED BY <1>1, <2>1, <2>2, ContinuesSame
<1>6. Mirrors(graph, Held, m)
  <2>1. \A x \in Held : m[x.st] = mem[x.st]
    BY <1>1, <1>3 DEF Mirrors
  <2> QED BY <1>1, <1>5, <2>1, MirrorsLater
<1>7. Mirrors(Append(graph, n), Held \cup {Holds(Len(graph) + 1, st, n.sel)}, m)
  <2>1. Computed(graph, n, m, Only(m[st], n.sel))
    OBVIOUS
  <2>2. n.sel \in {Lead, Whole}
    BY <1>2
  <2> HIDE DEF st, sel
  <2> QED BY <1>2, <1>3, <1>6, <2>1, <2>2, MirrorsNew
<1>8. Mirrors(g, Held \cup {z}, m)
  BY <1>7
<1>9. /\ Continues(graph, m, g, m) /\ Len(g) = Len(graph) + 1
      /\ Newest(g) = [pass |-> pass, node |-> Len(g)]
  BY DEF Computed
<1>10. Continues(graph, mem, g, m)
  <2> HIDE DEF g
  <2> QED BY <1>5, <1>9, ContinuesOn
<1>11. Unreferred(g, st)
  <2> HIDE DEF st
  <2> QED BY <1>1, <1>4, StandingAppend
<1>12. Standing(g) \subseteq Held \cup {z}
  <2>1. /\ Standing(g) \subseteq Standing(graph) \cup {Holds(Len(graph) + 1, n.st, Whole)}
        /\ n.st = NoStore => Standing(g) \subseteq Standing(graph)
    BY <1>1, StandingAppend
  <2>2. n.st # NoStore => n.st = st /\ sel = Whole
    BY <1>2, CoversType
  <2>3. Standing(graph) \subseteq Held
    BY DEF Held
  <2> HIDE DEF g
  <2>4. n.st # NoStore => Holds(Len(graph) + 1, n.st, Whole) = z
    BY <2>2
  <2> QED BY <2>1, <2>3, <2>4
<1>13. z.node = Len(graph) + 1
  BY DEF Holds
<1> HIDE DEF g, z
<1>14. Newest(g) = [pass |-> pass, node |-> z.node]
  BY <1>9, <1>13
<1> QED BY <1>8, <1>10, <1>11, <1>12, <1>14 DEF g, z

\* The same as a constant of its value.
LEMMA PromotedTarget ==
    ASSUME CarrierInv, FaithInv, Tracing, NEW o \in Objects, obj[o] # Nothing,
           ~Fresh(o), Steady(o), ~Referred(obj[o].st)
    PROVE  LET g == Registered(graph, Value(o), obj[o].sel, Covers(obj[o].st, obj[o].sel))
               z == Holds(Len(graph) + 1, obj[o].st, obj[o].sel)
           IN  /\ Target(g, Held \cup {z}, o, z, Newest(g))
               /\ Standing(g) \subseteq Held \cup {z} /\ Newest(g).node = z.node
<1> DEFINE n == FX("const", NoProxy, NoProxy, obj[o].sel, Bake(Value(o)),
                   Covers(obj[o].st, obj[o].sel))
           g == Append(graph, n)
           z == Holds(Len(graph) + 1, obj[o].st, obj[o].sel)
<1>1. Computed(graph, n, mem, Only(mem[obj[o].st], obj[o].sel))
  <2>1. obj[o].st \in Stores
    BY ObjectFacts
  <2>2. Covers(obj[o].st, obj[o].sel) \in Stores \cup {NoStore}
    BY <2>1, CoversType
  <2>3. Computed(graph, n, mem, Value(o))
    BY <2>2, ConstantComputes
  <2> QED BY <2>3 DEF Value
<1>2. /\ n.sel = obj[o].sel /\ n.op # "ref"
      /\ n.st = Covers(obj[o].st, obj[o].sel)
  BY DEF FX
<1>3. ~Shared(o) /\ \A t \in Stores : t # obj[o].st => mem[t] = mem[t]
  BY DEF Steady
<1>4. g = Registered(graph, Value(o), obj[o].sel, Covers(obj[o].st, obj[o].sel))
  BY DEF Registered
<1> HIDE DEF n
<1>5. /\ Continues(graph, mem, g, mem) /\ Mirrors(g, Held \cup {z}, mem)
      /\ Unreferred(g, obj[o].st) /\ Standing(g) \subseteq Held \cup {z}
      /\ Newest(g) = [pass |-> pass, node |-> z.node]
  BY <1>1, <1>2, <1>3, Promoted
<1>6. z.st = obj[o].st /\ z.sel = obj[o].sel
  BY DEF Holds
<1> HIDE DEF g, z
<1>7. Target(g, Held \cup {z}, o, z, Newest(g))
  BY <1>5, <1>6 DEF Target
<1>8. Newest(g).node = z.node
  BY <1>5
<1> QED BY <1>4, <1>5, <1>7, <1>8 DEF z

LEMMA InPlaceFaithful ==
    ASSUME CarrierInv, FaithInv, Tracing, {"bare", "slice", "split", "stale"} \cap Habits = {},
           NEW o \in Objects, NEW b \in Operands, InPlace(o, b)
    PROVE  FaithInv'
<1> DEFINE sel == obj[o].sel
           v == Xor(Value(o), Operand(b, sel))
           n == FX("const", NoProxy, NoProxy, sel, Bake(Value(o)), Covers(obj[o].st, sel))
           g == Append(graph, n)
           made == Wrap("torch", obj[o].st, sel, Newest(g))
<1>1. /\ obj[o] # Nothing /\ b \in Apart(o) /\ ~Referred(obj[o].st)
      /\ b \in Readable /\ UNCHANGED <<pass, index, phase>>
      /\ mem' = Store(obj[o].st, v, sel)
  BY DEF InPlace
<1>2. obj[o].st \in Stores /\ sel \in {Lead, Whole}
  BY <1>1, ObjectFacts
<1>3. b = Scalar \/ obj[b].sel = sel
  BY DEF InPlace, Fitting
<1>4. b # Scalar /\ ~Fresh(b) => b \in Objects /\ Steady(b)
  BY <1>1 DEF Readable
<1>5. CASE /\ Fresh(o) /\ graph' = Lowered(graph, o, b, Handle(o))
           /\ obj' = [Shed({b}) EXCEPT ![o].port = NoPort, ![o].proxy = Handle(o)]
  <2> DEFINE x == Holds(Handle(o).node, obj[o].st, sel)
             r == [obj[o] EXCEPT !.port = NoPort, !.proxy = Handle(o)]
  <2>1. Target(graph, Held, o, x, Handle(o))
    BY <1>1, <1>5, FreshTarget
  <2>2. b # Scalar /\ ~Fresh(b) => obj[b].st # obj[o].st
    BY <1>4, <1>5 DEF Steady, Shared
  <2>3. /\ Sane(graph') /\ Standing(graph') \subseteq Standing(graph)
        /\ Mirrors(graph', Held, mem')
    <3> HIDE DEF x
    <3> QED BY <1>1, <1>3, <1>5, <2>1, <2>2, LoweredFaithful
  <2>4. Standing(graph') \subseteq Held
    <3>1. Standing(graph) \subseteq Held
      BY DEF Held
    <3> QED BY <2>3, <3>1
  <2>5. x \in Held /\ Handle(o).pass = pass /\ Handle(o) \in Proxies
    <3>1. Handle(o) = [pass |-> pass, node |-> Handle(o).node]
      BY <1>5, FreshHolds
    <3>2. Handle(o).pass = pass
      BY <3>1
    <3> QED BY <1>5, <3>2, FreshHolds, HandleFacts DEF Fresh
  <2>6. Shed({b})[o] = obj[o]
    BY <1>5, ShedFacts DEF Shed, Fresh
  <2>7. obj' = [Shed({b}) EXCEPT ![o] = r]
    BY <1>5, <2>6, ShedFacts
  <2>8. /\ r \in Variables /\ r.kind = obj[o].kind /\ r.st = obj[o].st
        /\ r.sel = sel /\ r.proxy = Handle(o) /\ r.port = NoPort
    <3>1. obj[o] \in Variables /\ NoPort \in Contents \cup {NoPort}
      BY ObjectFacts
    <3> QED BY <2>5, <3>1 DEF Variables
  <2> HIDE DEF r
  <2>9. StaysDeclared(o, r)
    <3>1. Known(graph, Handle(o), sel, pass) /\ pass \in 1 .. pass
      BY <1>5, HandleFacts, PassType DEF Fresh
    <3> QED BY <1>5, <2>5, <2>8, <3>1, RebindOK
  <2>10. /\ obj'[o] = r
         /\ \A y \in Objects \ {o} : obj'[y] = obj[y] \/ (obj'[y].kind = "plain" /\ ~Fresh(y))
    <3>1. obj'[o] = r
      BY <2>7, ShedElse
    <3>2. \A y \in Objects \ {o} : obj'[y] = obj[y] \/ (obj'[y].kind = "plain" /\ ~Fresh(y))
      BY <2>7, ShedElse
    <3> QED BY <3>1, <3>2
  <2>11. Holds(r.proxy.node, r.st, r.sel) \in Held /\ r.proxy.pass = pass
    BY <2>5, <2>8
  <2> QED BY <1>1, <2>3, <2>4, <2>8, <2>9, <2>10, <2>11, ReboundFaithful
<1>6. CASE /\ ~Fresh(o) /\ Fresh(b) /\ o \in Readable
           /\ graph' = Lowered(g, o, b, Newest(g)) /\ obj' = [obj EXCEPT ![o] = made]
  <2> DEFINE z == Holds(Len(graph) + 1, obj[o].st, sel)
             J == Held \cup {z}
  <2>1. Steady(o) /\ ~Shared(o)
    <3>1. o # Scalar
      BY CarrierAssumption
    <3> QED BY <1>6, <3>1 DEF Readable, Steady
  <2>4. Target(g, J, o, z, Newest(g)) /\ Standing(g) \subseteq J /\ Newest(g).node = z.node
    <3>1. g = Registered(graph, Value(o), obj[o].sel, Covers(obj[o].st, obj[o].sel))
      BY DEF Registered
    <3> HIDE DEF g
    <3> QED BY <1>1, <1>6, <2>1, <3>1, PromotedTarget
  <2>5. /\ Sane(graph') /\ Standing(graph') \subseteq Standing(g)
        /\ Mirrors(graph', J, mem')
    <3> HIDE DEF g, z, J
    <3> QED BY <1>1, <1>3, <1>6, <2>4, LoweredFaithful
  <2>6. Standing(graph') \subseteq J /\ Held \subseteq J
    <3> HIDE DEF g, z
    <3> QED BY <2>4, <2>5
  <2>7. Newest(g).pass = pass
    BY DEF Newest
  <2>8. made.proxy = Newest(g) /\ made.st = obj[o].st /\ made.sel = sel
    BY DEF Wrap
  <2>9. Holds(made.proxy.node, made.st, made.sel) \in J /\ made.proxy.pass = pass
    <3> HIDE DEF g, made
    <3> QED BY <2>4, <2>7, <2>8 DEF Holds
  <2>10. obj'[o] = made /\ \A y \in Objects \ {o} : obj'[y] = obj[y]
    BY <1>6 DEF CarrierInv
  <2>11. \A y \in Objects \ {o} : obj'[y] = obj[y] \/ (obj'[y].kind = "plain" /\ ~Fresh(y))
    BY <2>10
  <2> HIDE DEF made, J
  <2> QED BY <1>1, <1>6, <2>5, <2>6, <2>9, <2>10, <2>11, ReboundFaithful
<1> QED BY <1>5, <1>6 DEF InPlace, Registered

LEMMA AssignFaithful ==
    ASSUME CarrierInv, FaithInv, Tracing, {"bare", "slice", "split", "stale"} \cap Habits = {},
           NEW o \in Objects, NEW b \in Operands, NEW key \in {Lead, Whole}, Assign(o, b, key)
    PROVE  FaithInv'
<1> DEFINE sel == obj[o].sel
           x == Holds(Handle(o).node, obj[o].st, sel)
           r == [obj[o] EXCEPT !.proxy = Handle(o), !.port = NoPort]
<1>1. /\ Fresh(o) /\ ~Referred(obj[o].st) /\ key \subseteq sel
      /\ UNCHANGED <<pass, index, phase>>
      /\ mem' = Store(obj[o].st, Operand(b, key), key)
      /\ graph' = Assigned(graph, o, b, key, Handle(o))
      /\ obj' = [obj EXCEPT ![o] = r]
  BY DEF Assign
<1>2. /\ b = Scalar \/ obj[b].sel = key
      /\ b \in Readable /\ (b # Scalar => ~Stale(b))
  <2>1. b \in Fitting(key) /\ b \in Assignable
    BY DEF Assign
  <2>2. b # Scalar => b \in Objects
    BY DEF Operands
  <2>3. b \in Readable \ {a \in Objects : Stale(a)}
    BY <2>1 DEF Assignable
  <2> QED BY <2>1, <2>2, <2>3 DEF Fitting
<1>3. Target(graph, Held, o, x, Handle(o))
  BY <1>1, FreshTarget
<1>4. HeldBy(Objects) \subseteq Held /\ Standing(graph) \subseteq Held
  BY DEF Held
<1>5. /\ Sane(graph') /\ Standing(graph') \subseteq Standing(graph)
      /\ Mirrors(graph', Held, mem')
  <2> HIDE DEF x, r
  <2> QED BY <1>1, <1>2, <1>3, <1>4, AssignedFaithful
<1>6. Standing(graph') \subseteq Held
  BY <1>4, <1>5
<1>7. x \in Held /\ Handle(o).pass = pass /\ Handle(o) \in Proxies
  <2>1. Handle(o) = [pass |-> pass, node |-> Handle(o).node]
    BY <1>1, FreshHolds
  <2>2. Handle(o).pass = pass
    BY <2>1
  <2> QED BY <1>1, <2>2, FreshHolds, HandleFacts DEF Fresh
<1>8. /\ r \in Variables /\ r.kind = obj[o].kind /\ r.st = obj[o].st
      /\ r.sel = sel /\ r.proxy = Handle(o) /\ r.port = NoPort
  <2>1. obj[o] \in Variables /\ NoPort \in Contents \cup {NoPort}
    BY ObjectFacts
  <2> QED BY <1>7, <2>1 DEF Variables
<1>9. obj'[o] = r /\ \A y \in Objects \ {o} : obj'[y] = obj[y]
  BY <1>1 DEF CarrierInv
<1> HIDE DEF r
<1>10. StaysDeclared(o, r)
  <2>1. Known(graph, Handle(o), sel, pass) /\ pass \in 1 .. pass
    BY <1>1, HandleFacts, PassType DEF Fresh
  <2> QED BY <1>1, <1>7, <1>8, <2>1, RebindOK
<1>11. \A y \in Objects \ {o} : obj'[y] = obj[y] \/ (obj'[y].kind = "plain" /\ ~Fresh(y))
  BY <1>9
<1>12. Holds(r.proxy.node, r.st, r.sel) \in Held /\ r.proxy.pass = pass
  BY <1>7, <1>8
<1>13. Held \subseteq Held
  OBVIOUS
<1> QED BY <1>1, <1>5, <1>6, <1>8, <1>9, <1>10, <1>11, <1>12, <1>13, ReboundFaithful

-----------------------------------------------------------------------------
(* Assignments that promote their destination                              *)

\* A whole assignment is one write, from any memory that differs only in the
\* parts it covers.
LEMMA FullWrite ==
    ASSUME CarrierInv, FaithInv, Tracing, NEW g, NEW H, NEW m,
           Continues(graph, mem, g, m), Mirrors(g, H, m),
           NEW o \in Objects, NEW x \in H, x.st = obj[o].st, x.sel = obj[o].sel,
           NEW p, p = [pass |-> pass, node |-> x.node], Unreferred(g, x.st),
           NEW b \in Objects, Fresh(b), obj[b].sel = obj[o].sel,
           \A t \in Stores : t # obj[o].st => m[t] = mem[t],
           \A i \in Whole : i \notin obj[o].sel => m[obj[o].st][i] = mem[obj[o].st][i]
    PROVE  LET w == Append(g, FX("copy_", p, Handle(b), obj[o].sel, Empty, NoStore))
           IN  /\ Sane(w) /\ Standing(w) \subseteq Standing(g)
               /\ Mirrors(w, H, Store(obj[o].st, Value(b), obj[o].sel))
<1> DEFINE st == obj[o].st
           sel == obj[o].sel
           u == Value(b)
           q == Handle(b)
           mm == Store(st, u, sel)
           n == FX("copy_", p, q, sel, Empty, NoStore)
           w == Append(g, n)
<1>1. st \in Stores /\ Sane(g) /\ pass \in Nat \ {0}
  BY PassType DEF Mirrors, Continues
<1>2. q # NoProxy /\ Gives(graph, mem, q, u, sel)
  BY FreshHolds
<1>3. Only(u, sel) = u
  BY Exact
<1> HIDE DEF q, u
<1>4. Gives(g, m, q, u, sel)
  BY <1>2, GivesLater
<1>5. mm[st] = Over(mem[st], u, sel) /\ \A t \in Stores : t # st => mm[t] = mem[t]
  <2> HIDE DEF st, sel
  <2>1. mm[st] = Over(mem[st], u, sel)
    BY <1>1, StoreFacts
  <2>2. \A t \in Stores : t # st => mm[t] = mem[t]
    BY <1>1, StoreElse
  <2> QED BY <2>1, <2>2
<1> HIDE DEF mm
<1>6. \A t \in Stores : t # st => mm[t] = m[t]
  BY <1>5
<1>7. Only(mm[st], sel) = u
  <2>1. Only(Over(mem[st], u, sel), sel) = Only(u, sel)
    BY DEF Only, Over
  <2> QED BY <1>3, <1>5, <2>1
<1>8. \A i \in Whole : i \notin sel => mm[st][i] = m[st][i]
  BY <1>5 DEF Over
<1>9. Sane(w) /\ Mirrors(w, H, mm)
  <2>1. Mirrors(g, H, m)
    OBVIOUS
  <2>2. x.st = st /\ x.sel = sel
    OBVIOUS
  <2> HIDE DEF st, sel
  <2>3. Overwrites(m, mm, x.st, x.sel, u) /\ Gives(g, m, q, u, x.sel)
    BY <1>4, <1>6, <1>7, <1>8, <2>2 DEF Overwrites
  <2>4. Sane(g) /\ pass \in Nat \ {0} /\ q # NoProxy
    BY <1>1, <1>2
  <2>5. LET h == Append(g, FX("copy_", p, q, x.sel, Empty, NoStore))
        IN  Sane(h) /\ Mirrors(h, H, mm)
    BY <2>1, <2>3, <2>4, MirrorsWrite
  <2> QED BY <2>2, <2>5
<1>10. n.op = "copy_" /\ n.st = NoStore
  BY DEF FX
<1> HIDE DEF n
<1>11. Standing(w) \subseteq Standing(g)
  BY <1>1, <1>10, StandingAppend
<1> QED BY <1>9, <1>11 DEF mm, q, u, n

\* The carrier declared for a layout is one of this pass.
LEMMA IndexFacts ==
    ASSUME CarrierInv, Tracing, NEW l \in Layouts, index[l] # Nobody
    PROVE  /\ index[l] \in Named /\ index[l] \in Objects
           /\ Fresh(index[l]) /\ Handle(index[l]) = obj[index[l]].proxy
           /\ obj[index[l]].proxy.pass = pass /\ obj[index[l]].port = NoPort
           /\ <<obj[index[l]].st, obj[index[l]].sel>> = l /\ Layout(index[l]) = l
<1> DEFINE c == index[l]
<1>1. c \in Named /\ c \in Objects /\ Declared(obj[c], l, pass)
  BY DEF CarrierInv, IndexInv, Objects
<1> HIDE DEF c
<1>2. Carrier(c) /\ Layout(c) = l /\ obj[c].proxy.pass = pass
  BY <1>1, ObjectFacts DEF Declared, Layout
<1>3. Fresh(c) /\ Handle(c) = obj[c].proxy
  BY <1>1, <1>2, HandleFacts
<1> QED BY <1>1, <1>2, <1>3 DEF c, Declared

\* The captured value a plain destination is written under.
LEMMA KnownTarget ==
    ASSUME CarrierInv, FaithInv, Tracing, NEW o \in Objects, obj[o] # Nothing,
           ~Fresh(o), ~Referred(obj[o].st), NEW b \in Objects, Fresh(b),
           PlainDestination(o, b) \notin {Refused, NoProxy}
    PROVE  \E x : Target(graph, Held, o, x, PlainDestination(o, b))
<1> DEFINE d == PlainDestination(o, b)
           st == obj[o].st
           sel == obj[o].sel
<1>1. Sane(graph) /\ Mirrors(graph, Held, mem) /\ DOMAIN graph = 1 .. Len(graph)
      /\ Len(graph) \in Nat
  BY DEF FaithInv, Sane, Backward
<1>2. Continues(graph, mem, graph, mem) /\ Unreferred(graph, st)
  BY <1>1, ContinuesSelf DEF Referred, Unreferred
<1>3. st \in Stores /\ sel \in {Lead, Whole} /\ Layout(o) \in Layouts
  BY ObjectFacts
<1>4. ASSUME NEW k, Holds(k, st, sel) \in Held, d = [pass |-> pass, node |-> k]
      PROVE  Target(graph, Held, o, Holds(k, st, sel), d)
  <2> DEFINE x == Holds(k, st, sel)
  <2>1. x.st = st /\ x.sel = sel /\ x.node = k
    BY DEF Holds
  <2> HIDE DEF x, d
  <2>2. Target(graph, Held, o, x, d)
    BY <1>1, <1>2, <1>4, <2>1 DEF Target, x
  <2> QED BY <2>2 DEF x
<1>5. ASSUME NEW c \in Objects, Fresh(c), obj[c].st = st, obj[c].sel = sel, d = Handle(c)
      PROVE  \E k : Holds(k, st, sel) \in Held /\ d = [pass |-> pass, node |-> k]
  <2>1. Holds(Handle(c).node, st, sel) \in Held
    BY <1>5, FreshHolds
  <2>2. d = [pass |-> pass, node |-> Handle(c).node]
    BY <1>5, FreshHolds
  <2> HIDE DEF d
  <2> QED BY <2>1, <2>2
<1>6. CASE Layout(o) = Layout(b)
  <2>1. d = Handle(b) /\ obj[b].sel = sel /\ obj[b].st = st
    BY <1>6 DEF PlainDestination, Layout
  <2> QED BY <1>4, <1>5, <2>1
<1>7. CASE Layout(o) # Layout(b) /\ DeclaredAlias(o) # Nobody
  <2> DEFINE c == DeclaredAlias(o)
  <2>1. d = obj[c].proxy /\ c = index[Layout(o)] /\ c # Nobody
    BY <1>7 DEF PlainDestination, DeclaredAlias
  <2>2. c \in Named /\ Declared(obj[c], Layout(o), pass)
    BY <1>3, <2>1 DEF CarrierInv, IndexInv
  <2> HIDE DEF c
  <2>3. c \in Objects /\ obj[c].st = st /\ obj[c].sel = sel
    BY <2>2 DEF Objects, Declared, Layout
  <2>4. Fresh(c) /\ Handle(c) = obj[c].proxy
    BY <2>2, <2>3, ObjectFacts, HandleFacts DEF Declared
  <2> QED BY <1>4, <1>5, <2>1, <2>3, <2>4
<1>8. CASE Layout(o) # Layout(b) /\ DeclaredAlias(o) = Nobody
  <2>1. /\ Captured(o) # {} /\ sel = Whole
        /\ d = [pass |-> pass, node |-> Min(Captured(o))]
    BY <1>8 DEF PlainDestination
  <2>2. Min(Captured(o)) \in Captured(o)
    <3>1. Captured(o) \subseteq Nat
      BY <1>1 DEF Captured
    <3> QED BY <2>1, <3>1, LeastNode
  <2> DEFINE k == Min(Captured(o))
  <2>3. k \in 1 .. Len(graph) /\ graph[k].op # "ref" /\ graph[k].st = st
    BY <1>1, <2>2 DEF Captured
  <2> HIDE DEF k
  <2>4. Holds(k, graph[k].st, Whole) \in Standing(graph)
    <3>1. index[Layout(o)] = Nobody
      <4>1. index[Layout(o)] # Nobody => index[Layout(o)] # o
        BY <1>3, IndexFacts
      <4>2. index[Layout(o)] \notin {Nobody, o} => DeclaredAlias(o) = index[Layout(o)]
        BY <1>3, IndexFacts DEF DeclaredAlias
      <4> QED BY <1>8, <4>1, <4>2
    <3>2. Layout(o) = <<graph[k].st, Whole>>
      BY <2>1, <2>3 DEF Layout
    <3>3. graph[k].op # "ref" /\ graph[k].st # NoStore /\ index[<<graph[k].st, Whole>>] = Nobody
      BY <1>3, <2>3, <3>1, <3>2, CarrierAssumption
    <3> QED BY <2>3, <3>3 DEF Standing
  <2>5. Holds(k, st, sel) \in Held
    BY <2>1, <2>3, <2>4 DEF Held
  <2>6. d = [pass |-> pass, node |-> k]
    BY <2>1 DEF k
  <2> QED BY <1>4, <2>5, <2>6
<1> QED BY <1>6, <1>7, <1>8

\* An assignment to a destination the graph has captured records nothing if it
\* is the source itself, and one write otherwise.
LEMMA KnownWrite ==
    ASSUME CarrierInv, FaithInv, Tracing, NEW o \in Objects, NEW x, NEW p,
           Target(graph, Held, o, x, p), NEW b \in Objects, Fresh(b), obj[b].sel = obj[o].sel
    PROVE  LET w == Write(graph, p, Handle(b), obj[o].sel)
           IN  /\ Sane(w) /\ Standing(w) \subseteq Standing(graph)
               /\ Mirrors(w, Held, Store(obj[o].st, Value(b), obj[o].sel))
<1> DEFINE st == obj[o].st
           sel == obj[o].sel
           mm == Store(st, Value(b), sel)
           y == Holds(Handle(b).node, obj[b].st, obj[b].sel)
           c == Append(graph, FX("copy_", p, Handle(b), sel, Empty, NoStore))
           w == Write(graph, p, Handle(b), sel)
<1>1. /\ Mirrors(graph, Held, mem) /\ Continues(graph, mem, graph, mem)
      /\ x \in Held /\ x.st = st /\ x.sel = sel
      /\ p = [pass |-> pass, node |-> x.node] /\ Unreferred(graph, x.st)
      /\ Sane(graph) /\ st \in Stores
  BY DEF Target, Mirrors, Continues
<1>2. y \in Held /\ Handle(b) = [pass |-> pass, node |-> Handle(b).node]
  BY FreshHolds
<1>3. CASE p.node = Handle(b).node
  <2>1. w = graph
    BY <1>1, <1>2, <1>3 DEF Write
  <2>2. y.node = x.node /\ y.st = obj[b].st
    BY <1>1, <1>3 DEF Holds
  <2> HIDE DEF y
  <2>3. obj[b].st = st
    BY <1>1, <1>2, <2>2 DEF Mirrors
  <2>4. Only(Value(b), sel) = Only(mem[st], sel)
    BY <2>3, Computing DEF Value
  <2>5. \A t \in Stores : mm[t] = mem[t]
    <3> HIDE DEF st, sel
    <3> QED BY <1>1, <2>4, StoreFacts
  <2> HIDE DEF mm
  <2>6. (\A z \in Held : mm[z.st] = mem[z.st]) /\ SameRefs(graph, mem, mm)
    BY <1>1, <2>5 DEF Mirrors, SameRefs, Sane, Regular
  <2>7. Begins(graph, graph)
    BY <1>1 DEF Continues
  <2>8. Continues(graph, mem, graph, mm)
    BY <1>1, <2>6, <2>7, ContinuesSame
  <2>9. Mirrors(graph, Held, mm)
    BY <1>1, <2>6, <2>8, MirrorsLater
  <2> QED BY <1>1, <2>1, <2>9 DEF mm
<1>4. CASE p.node # Handle(b).node
  <2>1. w = c
    BY <1>4 DEF Write
  <2> HIDE DEF y
  <2>2. Sane(c) /\ Standing(c) \subseteq Standing(graph) /\ Mirrors(c, Held, mm)
    <3>1. /\ \A t \in Stores : t # obj[o].st => mem[t] = mem[t]
          /\ \A i \in Whole : i \notin obj[o].sel => mem[obj[o].st][i] = mem[obj[o].st][i]
      OBVIOUS
    <3> QED BY <1>1, <3>1, FullWrite
  <2> QED BY <2>1, <2>2
<1> QED BY <1>3, <1>4

\* A plain value nothing else holds is the whole of a new allocation of the graph.
LEMMA BlankWrite ==
    ASSUME CarrierInv, FaithInv, Tracing, NEW o \in Objects, obj[o] # Nothing,
           ~Fresh(o), ~Shared(o), ~Referred(obj[o].st),
           NEW b \in Objects, Fresh(b), obj[b].sel = obj[o].sel
    PROVE  LET g == Append(graph, FX("empty_strided", NoProxy, NoProxy, obj[o].sel, Empty,
                                     Covers(obj[o].st, obj[o].sel)))
               z == Holds(Len(graph) + 1, obj[o].st, obj[o].sel)
               w == Write(g, Newest(g), Handle(b), obj[o].sel)
           IN  /\ Sane(w) /\ Standing(w) \subseteq Held \cup {z}
               /\ Newest(g) = [pass |-> pass, node |-> z.node]
               /\ Mirrors(w, Held \cup {z}, Store(obj[o].st, Value(b), obj[o].sel))
<1> DEFINE st == obj[o].st
           sel == obj[o].sel
           m == Store(st, Empty, sel)
           n == FX("empty_strided", NoProxy, NoProxy, sel, Empty, Covers(st, sel))
           g == Append(graph, n)
           z == Holds(Len(graph) + 1, st, sel)
           J == Held \cup {z}
           p == Newest(g)
           c == Append(g, FX("copy_", p, Handle(b), sel, Empty, NoStore))
           w == Write(g, p, Handle(b), sel)
<1>1. st \in Stores /\ sel \in {Lead, Whole} /\ Sane(graph) /\ pass \in Nat \ {0}
      /\ Len(graph) \in Nat
  BY ObjectFacts, PassType DEF FaithInv, Sane, Backward
<1>2. m[st] = Over(mem[st], Empty, sel) /\ \A t \in Stores : t # st => m[t] = mem[t]
  <2> HIDE DEF st, sel
  <2>1. m[st] = Over(mem[st], Empty, sel)
    BY <1>1, StoreFacts
  <2>2. \A t \in Stores : t # st => m[t] = mem[t]
    BY <1>1, StoreElse
  <2> QED BY <2>1, <2>2
<1> HIDE DEF m
<1>3. \A i \in Whole : i \notin sel => m[st][i] = mem[st][i]
  BY <1>2 DEF Over
<1>4. Only(m[st], sel) = Empty
  BY <1>2 DEF Only, Over, Empty
<1>5. Computed(graph, n, m, Only(m[st], sel))
  <2>1. Covers(st, sel) \in Stores \cup {NoStore}
    BY <1>1, CoversType
  <2>2. Empty \in Contents
    BY ContentsType
  <2> DEFINE a == Covers(st, sel)
  <2> HIDE DEF st, sel, a
  <2>3. Computed(graph, FX("empty_strided", NoProxy, NoProxy, sel, Empty, a), m,
                 IF "empty_strided" = "empty_strided" THEN Empty ELSE Only(Empty, sel))
    BY <1>1, <2>1, <2>2, RootComputes DEF a
  <2> QED BY <1>4, <2>3 DEF a
<1>6. n.sel = sel /\ n.op # "ref" /\ n.st = Covers(st, sel)
  BY DEF FX
<1> HIDE DEF n
<1>7. /\ Continues(graph, mem, g, m) /\ Mirrors(g, J, m) /\ Unreferred(g, st)
      /\ Standing(g) \subseteq J /\ p = [pass |-> pass, node |-> z.node]
  BY <1>2, <1>5, <1>6, Promoted
<1>8. z \in J /\ z.st = st /\ z.sel = sel /\ z.node = Len(graph) + 1
  BY DEF Holds
<1>9. w = c
  <2>1. Handle(b).node \in 1 .. Len(graph)
    BY FreshHolds
  <2> HIDE DEF z, g
  <2>2. p.node = Len(graph) + 1
    BY <1>7, <1>8
  <2>3. p.node # Handle(b).node
    BY <1>1, <2>1, <2>2
  <2> HIDE DEF p
  <2> QED BY <2>3 DEF Write
<1> HIDE DEF z, g, J, p
<1>10. /\ Sane(c) /\ Standing(c) \subseteq Standing(g)
       /\ Mirrors(c, J, Store(st, Value(b), sel))
  <2>1. Unreferred(g, z.st)
    BY <1>7, <1>8
  <2> QED BY <1>2, <1>3, <1>7, <1>8, <2>1, FullWrite
<1>11. Standing(c) \subseteq J
  BY <1>7, <1>10
<1> QED BY <1>7, <1>9, <1>10, <1>11 DEF z, g, J, p, n

LEMMA HeldForm == \A x \in Held : x = Holds(x.node, x.st, x.sel)
<1>1. \A x \in HeldBy(Objects) : x = Holds(x.node, x.st, x.sel)
  BY DEF HeldBy, Holds
<1>2. \A x \in Standing(graph) : x = Holds(x.node, x.st, x.sel)
  <2> SUFFICES ASSUME NEW x \in Standing(graph) PROVE x = Holds(x.node, x.st, x.sel)
    OBVIOUS
  <2>1. PICK i \in 1 .. Len(graph) : x = Holds(i, graph[i].st, Whole)
    BY DEF Standing
  <2> QED BY <2>1 DEF Holds
<1> QED BY <1>1, <1>2 DEF Held

\* A promoted destination is bound to the node it is written under.
LEMMA PromotedFaithful ==
    ASSUME CarrierInv, Tracing, UNCHANGED <<pass, index, phase>>,
           NEW o \in Objects, ~Fresh(o), NEW p, NEW port,
           obj' = [obj EXCEPT ![o] = [Wrap("torch", @.st, obj[o].sel, p) EXCEPT !.port = port]],
           NEW J, Held \subseteq J, Standing(graph') \subseteq J, NEW x \in J,
           x = Holds(x.node, obj[o].st, obj[o].sel), p = [pass |-> pass, node |-> x.node],
           Sane(graph'), Mirrors(graph', J, mem')
    PROVE  FaithInv'
<1> DEFINE r == [Wrap("torch", obj[o].st, obj[o].sel, p) EXCEPT !.port = port]
<1>1. r.st = obj[o].st /\ r.sel = obj[o].sel /\ r.proxy = p
  BY DEF Wrap
<1>2. obj'[o] = r /\ \A y \in Objects \ {o} : obj'[y] = obj[y]
  BY DEF CarrierInv
<1>3. \A y \in Objects \ {o} : obj'[y] = obj[y] \/ (obj'[y].kind = "plain" /\ ~Fresh(y))
  BY <1>2
<1> HIDE DEF r
<1>4. Holds(r.proxy.node, r.st, r.sel) \in J /\ r.proxy.pass = pass
  BY <1>1
<1> QED BY <1>2, <1>3, <1>4, ReboundFaithful

LEMMA AssignPlainFaithful ==
    ASSUME CarrierInv, FaithInv, Tracing, {"bare", "slice", "split", "stale"} \cap Habits = {},
           NEW o \in Objects, NEW b \in Objects, NEW key \in {Lead, Whole},
           AssignPlain(o, b, key)
    PROVE  FaithInv'
<1> DEFINE st == obj[o].st
           sel == obj[o].sel
           known == PlainDestination(o, b)
           n == FX("empty_strided", NoProxy, NoProxy, sel, Empty, Covers(st, sel))
           blank == Append(graph, n)
           kept == Registered(graph, Value(o), sel, Covers(st, sel))
           g == IF known # NoProxy THEN graph ELSE IF key # sel THEN kept ELSE blank
           p == IF known # NoProxy THEN known ELSE Newest(g)
           port == IF key = sel THEN obj[b].port ELSE NoPort
           z == Holds(Len(graph) + 1, st, sel)
<1>1. /\ obj[o] # Nothing /\ ~Fresh(o) /\ ~Referred(st)
      /\ Fresh(b) /\ obj[b].sel = key /\ key \subseteq sel
      /\ known # Refused /\ (key = sel \/ known # NoProxy \/ o \in Readable)
      /\ known = NoProxy => ~Shared(o)
      /\ mem' = Store(st, Value(b), key)
      /\ UNCHANGED <<pass, index, phase>>
  BY DEF AssignPlain
<1>2. graph' = IF key = sel THEN Write(g, p, Handle(b), sel) ELSE Assigned(g, o, b, key, p)
  BY DEF AssignPlain
<1>3. obj' = [obj EXCEPT ![o] = [Wrap("torch", @.st, sel, p) EXCEPT !.port = port]]
  BY DEF AssignPlain
<1> HIDE DEF port
<1>4. b \in Readable /\ b # Scalar /\ ~Stale(b)
  BY <1>1, ObjectFacts, CarrierAssumption DEF Readable, Fresh
<1>5. mem' = Store(st, Operand(b, key), key)
  BY <1>1, <1>4 DEF Operand
<1>6. CASE known # NoProxy
  <2>1. PICK x : Target(graph, Held, o, x, known)
    BY <1>1, <1>6, KnownTarget
  <2>2. /\ x \in Held /\ x.st = st /\ x.sel = sel /\ known = [pass |-> pass, node |-> x.node]
    BY <2>1 DEF Target
  <2>3. x = Holds(x.node, st, sel)
    BY <2>2, HeldForm
  <2>4. Standing(graph) \subseteq Held /\ HeldBy(Objects) \subseteq Held /\ Held \subseteq Held
    BY DEF Held
  <2>5. p = known /\ g = graph
    BY <1>6
  <2> HIDE DEF p, g, known
  <2>6. /\ Sane(graph') /\ Standing(graph') \subseteq Standing(graph)
        /\ Mirrors(graph', Held, mem')
    <3>1. CASE key = sel
      <4>1. graph' = Write(graph, known, Handle(b), sel)
        BY <1>2, <2>5, <3>1
      <4> QED BY <1>1, <2>1, <3>1, <4>1, KnownWrite
    <3>2. CASE key # sel
      <4>1. graph' = Assigned(graph, o, b, key, known)
        BY <1>2, <2>5, <3>2
      <4> QED BY <1>1, <1>4, <1>5, <2>1, <2>4, <4>1, AssignedFaithful
    <3> QED BY <3>1, <3>2
  <2>7. Standing(graph') \subseteq Held
    BY <2>4, <2>6
  <2> QED BY <1>1, <1>3, <2>2, <2>3, <2>4, <2>5, <2>6, <2>7, PromotedFaithful
<1>7. CASE known = NoProxy /\ key # sel
  <2> DEFINE J == Held \cup {z}
  <2>1. Steady(o)
    <3>1. o # Scalar
      BY CarrierAssumption
    <3> QED BY <1>1, <1>7, <3>1 DEF Readable
  <2>2. Target(kept, J, o, z, Newest(kept)) /\ Standing(kept) \subseteq J
    BY <1>1, <2>1, PromotedTarget
  <2>3. p = Newest(kept) /\ g = kept
    BY <1>7
  <2> HIDE DEF p, g, kept, z, known
  <2>4. HeldBy(Objects) \subseteq J /\ Held \subseteq J /\ z \in J
    BY DEF Held
  <2>5. z = Holds(z.node, st, sel) /\ p = [pass |-> pass, node |-> z.node]
    BY <2>2, <2>3 DEF z, Holds, Target
  <2> HIDE DEF J
  <2>6. graph' = Assigned(kept, o, b, key, Newest(kept))
    BY <1>2, <1>7, <2>3
  <2>7. /\ Sane(graph') /\ Standing(graph') \subseteq Standing(kept)
        /\ Mirrors(graph', J, mem')
    BY <1>1, <1>4, <1>5, <2>2, <2>4, <2>6, AssignedFaithful
  <2>8. Standing(graph') \subseteq J
    BY <2>2, <2>7
  <2> QED BY <1>1, <1>3, <2>4, <2>5, <2>7, <2>8, PromotedFaithful
<1>8. CASE known = NoProxy /\ key = sel
  <2> DEFINE J == Held \cup {z}
  <2>1. p = Newest(blank) /\ g = blank /\ ~Shared(o)
    BY <1>1, <1>8
  <2>2. graph' = Write(blank, Newest(blank), Handle(b), sel)
    BY <1>2, <1>8, <2>1
  <2> HIDE DEF p, g, known
  <2>3. /\ Sane(graph') /\ Standing(graph') \subseteq J
        /\ Newest(blank) = [pass |-> pass, node |-> z.node]
        /\ Mirrors(graph', J, mem')
    BY <1>1, <1>8, <2>1, <2>2, BlankWrite
  <2> HIDE DEF blank
  <2>4. z = Holds(z.node, st, sel)
    BY DEF Holds
  <2> HIDE DEF z
  <2>5. p = [pass |-> pass, node |-> z.node] /\ Held \subseteq J /\ z \in J
    BY <2>1, <2>3
  <2> HIDE DEF J
  <2> QED BY <1>1, <1>3, <2>3, <2>4, <2>5, PromotedFaithful
<1> QED BY <1>6, <1>7, <1>8

-----------------------------------------------------------------------------
(* Declared inputs                                                         *)

\* A declaration rebinds o and the carriers with its handle to proxy p, and may
\* enter o into the index; anything else keeps its handle.  What is rebound held
\* the same parts of the same storage.
Rebinds(o, p) ==
    /\ UNCHANGED <<mem, pass, phase>>
    /\ p \in Proxies /\ p.pass = pass
    /\ obj' = [Rebound(o, p) EXCEPT ![o] = Wrap("torch", obj[o].st, obj[o].sel, p)]
    /\ \/ UNCHANGED index
       \/ /\ index[Layout(o)] = Nobody
          /\ index' = [index EXCEPT ![Layout(o)] = o]

Keeps(x, o) == Fresh(x) /\ Handle(x)' = Handle(x) /\ ~(Fresh(o) /\ Handle(x) = Handle(o))
Follows(x, o, p) == Handle(x)' = p /\ obj[x].st = obj[o].st /\ obj[x].sel = obj[o].sel

LEMMA RebindsObjects ==
    ASSUME CarrierInv, FaithInv, Tracing, NEW o \in Named, obj[o].st \in Stores,
           NEW p, Rebinds(o, p)
    PROVE  /\ obj'[o] = Wrap("torch", obj[o].st, obj[o].sel, p)
           /\ \A x \in Objects \ {o} :
                 /\ obj'[x].kind = obj[x].kind /\ obj'[x].st = obj[x].st
                 /\ obj'[x].sel = obj[x].sel /\ obj'[x].port = obj[x].port
                 /\ \/ /\ obj'[x] = obj[x]
                       /\ ~(Fresh(o) /\ obj[x].proxy = Handle(o))
                    \/ /\ Fresh(o) /\ obj[x].proxy = Handle(o) /\ obj'[x].proxy = p
                       /\ Carrier(x) => obj[x].st = obj[o].st /\ obj[x].sel = obj[o].sel
<1>1. /\ obj' = [Rebound(o, p) EXCEPT ![o] = Wrap("torch", obj[o].st, obj[o].sel, p)]
      /\ o \in Objects
  BY DEF Rebinds, Objects
<1>2. \A x \in Objects :
         Rebound(o, p)[x] = IF Fresh(o) /\ obj[x].proxy = Handle(o)
                            THEN [obj[x] EXCEPT !.proxy = p] ELSE obj[x]
  BY DEF Rebound
<1>3. /\ obj'[o] = Wrap("torch", obj[o].st, obj[o].sel, p)
      /\ \A x \in Objects \ {o} : obj'[x] = Rebound(o, p)[x]
  BY <1>1 DEF Rebound
<1> SUFFICES ASSUME NEW x \in Objects \ {o}
             PROVE  /\ obj'[x].kind = obj[x].kind /\ obj'[x].st = obj[x].st
                    /\ obj'[x].sel = obj[x].sel /\ obj'[x].port = obj[x].port
                    /\ \/ /\ obj'[x] = obj[x]
                          /\ ~(Fresh(o) /\ obj[x].proxy = Handle(o))
                       \/ /\ Fresh(o) /\ obj[x].proxy = Handle(o) /\ obj'[x].proxy = p
                          /\ Carrier(x) => obj[x].st = obj[o].st /\ obj[x].sel = obj[o].sel
  BY <1>3
<1>4. CASE ~(Fresh(o) /\ obj[x].proxy = Handle(o))
  BY <1>2, <1>3, <1>4
<1>5. CASE Fresh(o) /\ obj[x].proxy = Handle(o)
  <2>1. obj'[x] = [obj[x] EXCEPT !.proxy = p]
    BY <1>2, <1>3, <1>5
  <2>2. obj[x] \in Variables
    BY ObjectFacts
  <2>3. /\ obj'[x].kind = obj[x].kind /\ obj'[x].st = obj[x].st
        /\ obj'[x].sel = obj[x].sel /\ obj'[x].port = obj[x].port /\ obj'[x].proxy = p
    BY <2>1, <2>2 DEF Variables
  <2>4. ASSUME Carrier(x) PROVE obj[x].st = obj[o].st /\ obj[x].sel = obj[o].sel
    <3>1. obj[x].proxy.pass = pass
      BY <1>1, <1>5, FreshHolds
    <3>2. Fresh(x) /\ Handle(x) = Handle(o)
      BY <1>5, <2>4, <3>1, HandleFacts
    <3>3. obj[x].sel = obj[o].sel
      BY <1>1, <1>5, <3>2, FreshHolds
    <3> DEFINE y == Holds(Handle(x).node, obj[x].st, obj[x].sel)
               z == Holds(Handle(o).node, obj[o].st, obj[o].sel)
    <3>4. y \in Held /\ z \in Held
      BY <1>1, <1>5, <3>2, FreshHolds
    <3>5. y.node = z.node /\ y.st = obj[x].st /\ z.st = obj[o].st
      BY <3>2 DEF Holds
    <3> HIDE DEF y, z
    <3>6. y.st = z.st
      BY <3>4, <3>5 DEF FaithInv, Mirrors
    <3> QED BY <3>3, <3>5, <3>6
  <2> QED BY <1>5, <2>3, <2>4
<1> QED BY <1>4, <1>5

\* A carrier of this graph after a declaration kept its handle or follows o.
LEMMA RebindsHandles ==
    ASSUME CarrierInv, FaithInv, Tracing, NEW o \in Named, obj[o].st \in Stores,
           NEW p, Rebinds(o, p), NEW x \in Objects \ {o}, Fresh(x)'
    PROVE  Keeps(x, o) \/ Follows(x, o, p)
<1>1. /\ pass' = pass /\ Tracing' /\ p.pass = pass /\ o \in Objects
      /\ Layout(o) \in Layouts /\ o # Nobody
  <2>1. pass' = pass /\ Tracing' /\ p.pass = pass
    BY DEF Rebinds, Tracing
  <2>2. o \in Objects /\ o # Nobody
    BY CarrierAssumption DEF Objects
  <2> QED BY <2>1, <2>2, ObjectFacts
<1>2. /\ obj'[o].proxy = p /\ obj'[o].port = NoPort
      /\ obj'[o].st = obj[o].st /\ obj'[o].sel = obj[o].sel
  <2>1. obj'[o] = Wrap("torch", obj[o].st, obj[o].sel, p)
    BY RebindsObjects
  <2> QED BY <2>1 DEF Wrap
<1>3. /\ obj'[x].st = obj[x].st /\ obj'[x].sel = obj[x].sel /\ obj'[x].port = obj[x].port
      /\ obj'[x].kind = obj[x].kind /\ Carrier(x)
  BY RebindsObjects DEF Fresh, Carrier
<1>4. Layout(x)' = Layout(x) /\ Layout(x) \in Layouts
  BY <1>3, ObjectFacts DEF Layout
<1>5. Handle(x)'.pass = pass
  BY <1>1 DEF Fresh, Stale
<1>6. ASSUME NEW y \in Objects \ {o}, Carrier(y), obj[y].proxy.pass = pass
      PROVE  /\ obj'[y].proxy.pass = pass
             /\ \/ /\ Fresh(y) /\ obj'[y].proxy = Handle(y)
                   /\ ~(Fresh(o) /\ Handle(y) = Handle(o))
                \/ obj'[y].proxy = p /\ obj[y].st = obj[o].st /\ obj[y].sel = obj[o].sel
  <2>1. Fresh(y) /\ Handle(y) = obj[y].proxy
    BY <1>6, HandleFacts
  <2> QED BY <1>1, <1>6, <2>1, RebindsObjects
<1>7. CASE obj[x].proxy.pass = pass
  <2>1. Handle(x)' = obj'[x].proxy
    BY <1>1, <1>3, <1>6, <1>7 DEF Handle
  <2> QED BY <1>3, <1>6, <1>7, <2>1 DEF Keeps, Follows
<1>8. CASE obj[x].proxy.pass # pass
  <2>1. obj'[x] = obj[x]
    <3>1. Fresh(o) => Handle(o).pass = pass
      BY DEF Fresh, Stale
    <3> QED BY <1>8, <3>1, RebindsObjects
  <2> DEFINE c == index'[Layout(x)]
  <2>2. /\ c # Nobody /\ c # x /\ obj'[c].port = NoPort /\ Handle(x)' = obj'[c].proxy
        /\ obj[x].port = NoPort
    <3>1. /\ obj[x].port = NoPort /\ DeclaredAlias(x)' # Nobody
          /\ Handle(x)' = obj'[DeclaredAlias(x)'].proxy
      BY <1>1, <1>5, <1>8, <2>1 DEF Handle
    <3>2. DeclaredAlias(x)' = index'[Layout(x)] /\ c # x
      BY <1>4, <3>1 DEF DeclaredAlias
    <3>3. obj'[c].port = NoPort
      BY <1>4, <3>1, <3>2 DEF DeclaredAlias
    <3> QED BY <3>1, <3>2, <3>3
  <2>3. CASE c = o /\ Layout(x) = Layout(o)
    <3>1. obj[x].st = obj[o].st /\ obj[x].sel = obj[o].sel
      BY <2>3 DEF Layout
    <3> QED BY <1>2, <2>2, <2>3, <3>1 DEF Follows
  <2>4. CASE c = index[Layout(x)]
    <3> HIDE DEF c
    <3>1. /\ c \in Objects /\ Fresh(c) /\ Handle(c) = obj[c].proxy
          /\ obj[c].proxy.pass = pass /\ obj[c].port = NoPort
          /\ obj[c].st = obj[x].st /\ obj[c].sel = obj[x].sel /\ Layout(c) = Layout(x)
      BY <1>4, <2>2, <2>4, IndexFacts DEF Layout
    <3>2. Handle(x) = Handle(c) /\ Fresh(x)
      <4>1. DeclaredAlias(x) = c
        BY <2>2, <2>4, <3>1 DEF DeclaredAlias
      <4>2. Handle(x) = obj[c].proxy
        BY <1>8, <2>2, <4>1, CarrierAssumption DEF Handle
      <4> QED BY <1>3, <3>1, <4>2 DEF Fresh, Stale
    <3>3. CASE c = o
      BY <1>2, <2>2, <3>1, <3>3 DEF Follows
    <3>4. CASE c # o
      <4>1. \/ obj'[c].proxy = Handle(c) /\ ~(Fresh(o) /\ Handle(c) = Handle(o))
            \/ obj'[c].proxy = p /\ obj[c].st = obj[o].st /\ obj[c].sel = obj[o].sel
        BY <1>6, <3>1, <3>4 DEF Fresh
      <4> QED BY <2>2, <3>1, <3>2, <4>1 DEF Keeps, Follows
    <3> QED BY <3>3, <3>4
  <2>5. (c = o /\ Layout(x) = Layout(o)) \/ c = index[Layout(x)]
    <3>1. index \in [Layouts -> Named \cup {Nobody}]
      BY DEF CarrierInv, IndexInv
    <3> QED BY <1>1, <1>4, <3>1 DEF Rebinds
  <2> QED BY <2>3, <2>4, <2>5
<1> QED BY <1>7, <1>8

\* So what the carriers hold is what kept its handle, and what p stands for.
LEMMA RebindsHeld ==
    ASSUME CarrierInv, FaithInv, Tracing, NEW o \in Named, obj[o].st \in Stores,
           NEW p, Rebinds(o, p), NEW J, Holds(p.node, obj[o].st, obj[o].sel) \in J,
           \A x \in Objects : Fresh(x) /\ ~(Fresh(o) /\ Handle(x) = Handle(o)) =>
              Holds(Handle(x).node, obj[x].st, obj[x].sel) \in J
    PROVE  HeldBy(Objects)' \subseteq J
<1> SUFFICES ASSUME NEW x \in Objects, Fresh(x)'
             PROVE  Holds(Handle(x).node, obj[x].st, obj[x].sel)' \in J
  BY DEF HeldBy, Objects
<1>1. Holds(Handle(x).node, obj[x].st, obj[x].sel)'
         = Holds(Handle(x)'.node, obj'[x].st, obj'[x].sel)
  OBVIOUS
<1>2. CASE x = o
  <2>1. obj'[o].proxy = p /\ obj'[o].st = obj[o].st /\ obj'[o].sel = obj[o].sel
    <3>1. obj'[o] = Wrap("torch", obj[o].st, obj[o].sel, p)
      BY RebindsObjects
    <3> QED BY <3>1 DEF Wrap
  <2>2. p.pass = pass'
    BY DEF Rebinds
  <2>3. Handle(o)' = p
    BY <2>1, <2>2 DEF Handle
  <2> QED BY <1>1, <1>2, <2>1, <2>3
<1>3. CASE x # o
  <2>1. obj'[x].st = obj[x].st /\ obj'[x].sel = obj[x].sel
    BY <1>3, RebindsObjects
  <2>2. Keeps(x, o) \/ Follows(x, o, p)
    BY <1>3, RebindsHandles
  <2>3. CASE Keeps(x, o)
    BY <1>1, <2>1, <2>3 DEF Keeps
  <2>4. CASE Follows(x, o, p)
    BY <1>1, <2>1, <2>4 DEF Follows
  <2> QED BY <2>2, <2>3, <2>4
<1> QED BY <1>2, <1>3

\* Declaring bytes the graph knows adds a name for their placeholder.
LEMMA DeclareKnown ==
    ASSUME CarrierInv, FaithInv, Tracing, NEW o \in Named, obj[o].st \in Stores,
           NEW c \in Objects, Fresh(c), obj[c].st = obj[o].st, obj[c].sel = obj[o].sel,
           Rebinds(o, Handle(c)), UNCHANGED <<graph, index>>
    PROVE  FaithInv'
<1>1. Holds(Handle(c).node, obj[o].st, obj[o].sel) \in Held
  BY FreshHolds
<1>2. \A x \in Objects : Fresh(x) => Holds(Handle(x).node, obj[x].st, obj[x].sel) \in Held
  BY FreshHolds
<1>3. HeldBy(Objects)' \subseteq Held
  <2> DEFINE J == Held
             p == Handle(c)
  <2>1. Holds(p.node, obj[o].st, obj[o].sel) \in J /\ Rebinds(o, p)
    BY <1>1
  <2>2. \A x \in Objects : Fresh(x) => Holds(Handle(x).node, obj[x].st, obj[x].sel) \in J
    BY <1>2
  <2> HIDE DEF J, p
  <2>3. HeldBy(Objects)' \subseteq J
    BY <2>1, <2>2, RebindsHeld
  <2> QED BY <2>3 DEF J
<1>4. Standing(graph)' = Standing(graph)
  BY DEF Standing
<1>5. Held' \subseteq Held
  <2>1. Held' = HeldBy(Objects)' \cup Standing(graph)'
    BY DEF Held
  <2>2. Standing(graph) \subseteq Held
    BY DEF Held
  <2> QED BY <1>3, <1>4, <2>1, <2>2
<1>6. mem' = mem /\ graph' = graph /\ pass' = pass
  BY DEF Rebinds
<1>7. Mirrors(graph', Held', mem')
  BY <1>5, <1>6, MirrorsPart DEF FaithInv
<1>8. Mirrors(graph, Held, mem)'
  BY <1>6, <1>7, MirrorsKept
<1>9. Sane(graph)'
  BY <1>6 DEF FaithInv, Sane, Backward, Regular, Arguments
<1> QED BY <1>8, <1>9 DEF FaithInv

\* A declared input is a node for a storage nothing else holds from then on.
LEMMA DeclareNew ==
    ASSUME CarrierInv, FaithInv, Tracing, NEW o \in Named, obj[o].st \in Stores,
           obj[o].sel = Whole, index'[Layout(o)] # Nobody,
           \A c \in Objects : Fresh(c) /\ obj[c].st = obj[o].st =>
              Fresh(o) /\ Handle(c) = Handle(o),
           graph' = Append(graph, FX("placeholder", NoProxy, NoProxy, obj[o].sel, Value(o),
                                     Covers(obj[o].st, obj[o].sel))),
           Rebinds(o, Newest(graph'))
    PROVE  FaithInv'
<1> DEFINE st == obj[o].st
           sel == obj[o].sel
           n == FX("placeholder", NoProxy, NoProxy, sel, Value(o), Covers(st, sel))
           g == Append(graph, n)
           z == Holds(Len(graph) + 1, st, sel)
           K == {x \in Held : x.st # st}
           J == K \cup {z}
<1>1. /\ o \in Objects /\ Sane(graph) /\ Mirrors(graph, Held, mem)
      /\ pass \in Nat \ {0} /\ sel \in {Lead, Whole} /\ Layout(o) = <<st, sel>>
      /\ mem' = mem /\ pass' = pass
  BY PassType DEF FaithInv, Objects, Layout, Rebinds
<1>3. Computed(graph, n, mem, Only(mem[st], sel))
  <2>1. Covers(st, sel) \in Stores \cup {NoStore} /\ Value(o) \in Contents
    BY <1>1, CoversType, ObjectFacts
  <2> DEFINE a == Covers(st, sel)
             v == Value(o)
  <2>2. a \in Stores \cup {NoStore} /\ v \in Contents
    BY <2>1
  <2>3. Only(v, sel) = Only(mem[st], sel)
    BY Exact DEF Value
  <2> HIDE DEF st, sel, a, v
  <2>4. Computed(graph, FX("placeholder", NoProxy, NoProxy, sel, v, a), mem,
                 IF "placeholder" = "empty_strided" THEN Empty ELSE Only(v, sel))
    BY <1>1, <2>2, RootComputes
  <2> QED BY <2>3, <2>4 DEF a, v
<1>4. n.sel = sel /\ n.op = "placeholder" /\ n.st = Covers(st, sel)
  BY DEF FX
<1> HIDE DEF n
<1>5. Mirrors(g, J, mem)
  <2>1. Mirrors(graph, K, mem)
    BY <1>1, MirrorsPart
  <2>2. n.sel \in {Lead, Whole} /\ Computed(graph, n, mem, Only(mem[st], n.sel))
    BY <1>1, <1>3, <1>4
  <2>3. \A x \in K : x.st # st
    OBVIOUS
  <2> HIDE DEF K, st, sel
  <2>4. Mirrors(Append(graph, n), K \cup {Holds(Len(graph) + 1, st, n.sel)}, mem)
    BY <2>1, <2>2, <2>3, MirrorsNew DEF st
  <2> QED BY <1>4, <2>4
<1>6. graph' = g /\ Sane(g) /\ Newest(g).node = Len(graph) + 1 /\ Newest(g).pass = pass
  <2>1. graph' = g
    BY DEF n
  <2>2. Sane(g) /\ Len(g) = Len(graph) + 1
    BY <1>3 DEF Computed, Continues
  <2> HIDE DEF g
  <2> QED BY <2>1, <2>2 DEF Newest
<1>7. Standing(graph)' \subseteq K
  <2>0. Standing(graph)' = {Holds(i, g[i].st, Whole) :
                               i \in {j \in 1 .. Len(g) : /\ g[j].op # "ref" /\ g[j].st # NoStore
                                                          /\ index'[<<g[j].st, Whole>>] = Nobody}}
    BY <1>6 DEF Standing
  <2>1. /\ Len(graph) \in Nat /\ Len(g) = Len(graph) + 1 /\ g[Len(graph) + 1] = n
        /\ \A i \in 1 .. Len(graph) : g[i] = graph[i]
    BY <1>1, AppendAny
  <2>2. n.st = st /\ Layout(o) = <<st, Whole>>
    BY <1>1, <1>4, CoversType
  <2> HIDE DEF g
  <2> SUFFICES ASSUME NEW i \in 1 .. Len(g), g[i].op # "ref", g[i].st # NoStore,
                      index'[<<g[i].st, Whole>>] = Nobody
               PROVE  Holds(i, g[i].st, Whole) \in K
    BY <2>0
  <2>3. g[i].st # st
    BY <2>2
  <2>4. i \in 1 .. Len(graph) /\ g[i] = graph[i]
    BY <2>1, <2>2, <2>3
  <2>5. index[<<graph[i].st, Whole>>] = Nobody
    <3>0. graph[i] \in FXNodes
      <4>1. graph \in Seq(FXNodes)
        BY <1>1 DEF Sane
      <4> QED BY <2>4, <4>1
    <3>1. graph[i].st \in Stores
      BY <2>4, <3>0 DEF FXNodes
    <3>2. <<graph[i].st, Whole>> \in Layouts /\ o # Nobody
      BY <1>1, <3>1, CarrierAssumption DEF Layouts
    <3>3. index \in [Layouts -> Named \cup {Nobody}]
      BY DEF CarrierInv, IndexInv
    <3>4. index' = index \/ index' = [index EXCEPT ![Layout(o)] = o]
      BY DEF Rebinds
    <3>5. index'[<<graph[i].st, Whole>>] = Nobody
      BY <2>4
    <3> QED BY <3>2, <3>3, <3>4, <3>5
  <2>6. Holds(i, graph[i].st, Whole) \in Held
    BY <2>4, <2>5 DEF Held, Standing
  <2> QED BY <2>3, <2>4, <2>6 DEF Holds
<1> HIDE DEF g
<1>8. HeldBy(Objects)' \subseteq J
  <2> DEFINE p == Newest(graph')
  <2>1. Holds(p.node, st, sel) \in J
    BY <1>6
  <2>2. ASSUME NEW x \in Objects, Fresh(x), ~(Fresh(o) /\ Handle(x) = Handle(o))
        PROVE  Holds(Handle(x).node, obj[x].st, obj[x].sel) \in J
    <3>1. Holds(Handle(x).node, obj[x].st, obj[x].sel) \in Held
      BY <2>2, FreshHolds
    <3>2. obj[x].st # st
      BY <2>2
    <3> QED BY <3>1, <3>2 DEF Holds
  <2>3. Rebinds(o, p)
    OBVIOUS
  <2> HIDE DEF p, J
  <2> QED BY <2>1, <2>2, <2>3, RebindsHeld
<1>9. Held' \subseteq J
  <2>1. Held' = HeldBy(Objects)' \cup Standing(graph)'
    BY DEF Held
  <2>2. K \subseteq J
    OBVIOUS
  <2> HIDE DEF J, K
  <2> QED BY <1>7, <1>8, <2>1, <2>2
<1> HIDE DEF J
<1>10. Mirrors(graph', Held', mem')
  BY <1>1, <1>5, <1>6, <1>9, MirrorsPart
<1>11. Mirrors(graph, Held, mem)'
  BY <1>1, <1>10, MirrorsKept
<1>12. Sane(graph)'
  BY <1>1, <1>6 DEF Sane, Backward, Regular, Arguments
<1> QED BY <1>11, <1>12 DEF FaithInv

LEMMA DeclareFaithful ==
    ASSUME CarrierInv, FaithInv, {"bare", "slice", "split", "stale"} \cap Habits = {},
           NEW o \in Named, Declare(o)
    PROVE  FaithInv'
<1> DEFINE d == IF obj[o].port = NoPort THEN DeclaredAlias(o) ELSE Nobody
           n == FX("placeholder", NoProxy, NoProxy, obj[o].sel, Value(o),
                   Covers(obj[o].st, obj[o].sel))
           g == Append(graph, n)
           p == IF d = Nobody THEN Newest(g) ELSE obj[d].proxy
<1>1. /\ Tracing /\ obj[o].st \in Stores /\ UNCHANGED <<mem, pass, phase>> /\ o \in Objects
      /\ Layout(o) \in Layouts /\ ~Split(o)
      /\ obj' = [Rebound(o, p) EXCEPT ![o] = Wrap("torch", obj[o].st, obj[o].sel, p)]
      /\ IF d # Nobody THEN UNCHANGED <<graph, index>>
         ELSE /\ graph' = g
              /\ index' = [index EXCEPT ![Layout(o)] = IF @ = Nobody THEN o ELSE @]
  <2>1. obj[o].st \in Stores /\ o \in Objects
    BY CarrierAssumption DEF Declare, Objects
  <2> QED BY <2>1, ObjectFacts DEF Declare
<1>2. obj[o].sel = Whole
  <2>1. obj[o].sel # Lead
    BY DEF Declare
  <2> QED BY <1>1, <2>1, ObjectFacts, CarrierAssumption DEF Nothing, Plain
<1>3. ASSUME obj[o].port = NoPort, index[Layout(o)] \notin {Nobody, o}
      PROVE  d = index[Layout(o)]
  BY <1>1, <1>3, IndexFacts DEF DeclaredAlias
<1>4. CASE d # Nobody
  <2>1. d = index[Layout(o)] /\ p = obj[d].proxy
    BY <1>4 DEF DeclaredAlias
  <2>2. /\ d \in Objects /\ Fresh(d) /\ Handle(d) = p /\ p.pass = pass
        /\ obj[d].st = obj[o].st /\ obj[d].sel = obj[o].sel
    BY <1>1, <1>4, <2>1, IndexFacts DEF Layout
  <2>3. p \in Proxies
    BY <2>2, HandleFacts DEF Fresh
  <2>4. UNCHANGED <<graph, index>>
    BY <1>1, <1>4
  <2>5. obj' = [Rebound(o, p) EXCEPT ![o] = Wrap("torch", obj[o].st, obj[o].sel, p)]
    BY <1>1
  <2> HIDE DEF d, p
  <2>6. Rebinds(o, p)
    BY <1>1, <2>2, <2>3, <2>4, <2>5 DEF Rebinds
  <2> QED BY <1>1, <2>2, <2>4, <2>6, DeclareKnown
<1>5. CASE d = Nobody
  <2>1. /\ graph' = g /\ p = Newest(graph')
        /\ index' = [index EXCEPT ![Layout(o)] = IF @ = Nobody THEN o ELSE @]
    BY <1>1, <1>5
  <2>2. index \in [Layouts -> Named \cup {Nobody}] /\ o # Nobody
    BY <1>1, CarrierAssumption DEF CarrierInv, IndexInv
  <2>3. /\ index'[Layout(o)] # Nobody
        /\ \/ UNCHANGED index
           \/ index[Layout(o)] = Nobody /\ index' = [index EXCEPT ![Layout(o)] = o]
    <3>1. CASE index[Layout(o)] = Nobody
      BY <1>1, <2>1, <2>2, <3>1
    <3>2. CASE index[Layout(o)] # Nobody
      BY <1>1, <2>1, <2>2, <3>2
    <3> QED BY <3>1, <3>2
  <2>4. Newest(g) \in Proxies /\ Newest(g).pass = pass
    <3>1. Sane(graph) /\ pass \in Nat
      BY <1>1, PassType DEF FaithInv
    <3>2. Len(g) \in Nat
      BY <3>1, AppendAny
    <3> HIDE DEF g
    <3> QED BY <3>1, <3>2 DEF Newest, Proxies
  <2>5. Rebinds(o, Newest(graph'))
    <3>1. obj' = [Rebound(o, Newest(graph')) EXCEPT
                    ![o] = Wrap("torch", obj[o].st, obj[o].sel, Newest(graph'))]
      BY <1>1, <2>1
    <3>2. Newest(graph') = Newest(g)
      BY <2>1
    <3> HIDE DEF g
    <3> QED BY <1>1, <2>3, <2>4, <3>1, <3>2 DEF Rebinds
  <2>6. \A c \in Objects : Fresh(c) /\ obj[c].st = obj[o].st =>
           Fresh(o) /\ Handle(c) = Handle(o)
    <3>1. obj[o].port # NoPort \/ index[Layout(o)] \in {Nobody, o}
      <4> HIDE DEF d
      <4> QED BY <1>3, <1>5 DEF d
    <3> QED BY <1>1, <3>1 DEF Split
  <2> QED BY <1>1, <1>2, <2>1, <2>3, <2>5, <2>6, DeclareNew DEF g, n
<1> QED BY <1>4, <1>5

LEMMA EmptyMirrors == Sane(<<>>) /\ \A m : Mirrors(<<>>, {}, m)
BY DEF Sane, Backward, Regular, Mirrors

\* Without a graph and without a carrier of the pass nothing is held.
LEMMA ReplaceFaithful == ASSUME CarrierInv, ReplaceGraph PROVE FaithInv'
<1>1. /\ graph' = <<>> /\ pass' = pass + 1 /\ index' = [l \in Layouts |-> Nobody]
      /\ obj' = [o \in Objects |-> IF obj[o].kind = "numpy" THEN Nothing ELSE obj[o]]
      /\ pass \in Nat
  BY PassType DEF ReplaceGraph, Forgotten
<1>2. ASSUME NEW o \in Objects PROVE ~(Fresh(o)')
  <2> SUFFICES ASSUME Carrier(o)' PROVE Handle(o)'.pass # pass'
    BY DEF Fresh, Stale
  <2>1. obj'[o] = obj[o] /\ obj[o].kind # "plain" /\ Carrier(o)
    BY <1>1 DEF Carrier, Nothing, Plain
  <2>2. Layout(o) \in Layouts /\ Layout(o)' = Layout(o)
    BY <2>1, ObjectFacts DEF Layout
  <2>3. DeclaredAlias(o)' = Nobody
    BY <1>1, <2>2 DEF DeclaredAlias
  <2>4. obj[o].proxy.pass \in 1 .. pass
    BY <2>1, ObjectFacts DEF Variable
  <2>5. Handle(o)' = obj[o].proxy
    BY <2>1, <2>3 DEF Handle
  <2> QED BY <1>1, <2>4, <2>5
<1>3. HeldBy(Objects)' = {}
  BY <1>2 DEF HeldBy
<1>4. Standing(graph)' = {}
  BY <1>1 DEF Standing
<1>5. Held' = {}
  BY <1>3, <1>4 DEF Held, HeldBy, Objects
<1>6. Mirrors(graph, Held, mem)'
  BY <1>1, <1>5 DEF Mirrors
<1>7. Sane(graph)'
  BY <1>1, EmptyMirrors DEF Sane, Backward, Regular, Arguments
<1> QED BY <1>6, <1>7 DEF FaithInv

LEMMA InitFaithful == Init => FaithInv
<1> SUFFICES ASSUME Init PROVE FaithInv
  OBVIOUS
<1>1. graph = <<>> /\ \A o \in Objects : obj[o].kind = "plain"
  BY DEF Init, Nothing, Plain
<1>2. HeldBy(Objects) = {}
  BY <1>1 DEF HeldBy, Fresh, Carrier
<1>3. Standing(graph) = {}
  BY <1>1 DEF Standing
<1>4. Held = {}
  BY <1>2, <1>3 DEF Held
<1> QED BY <1>1, <1>4, EmptyMirrors DEF FaithInv

LEMMA StutterFaithful == ASSUME FaithInv, UNCHANGED vars PROVE FaithInv'
<1>1. /\ mem' = mem /\ obj' = obj /\ graph' = graph /\ pass' = pass /\ index' = index
      /\ phase' = phase
  BY DEF vars
<1>2. Tracing' = Tracing
  BY <1>1 DEF Tracing
<1>3. \A o : Handle(o)' = Handle(o) /\ Fresh(o)' = Fresh(o)
  <2>1. \A o : Layout(o)' = Layout(o) /\ Carrier(o)' = Carrier(o)
    BY <1>1 DEF Layout, Carrier
  <2>2. \A o : DeclaredAlias(o)' = DeclaredAlias(o)
    BY <1>1, <1>2, <2>1 DEF DeclaredAlias, Layout, Tracing
  <2>3. \A o : Handle(o)' = Handle(o)
    BY <1>1, <2>2 DEF Handle
  <2> QED BY <1>1, <2>1, <2>3 DEF Fresh, Stale
<1>4. HeldBy(Objects)' = HeldBy(Objects)
  BY <1>1, <1>3 DEF HeldBy
<1>5. Standing(graph)' = Standing(graph)
  BY <1>1 DEF Standing
<1>6. Held' = Held
  BY <1>4, <1>5 DEF Held, HeldBy, Objects
<1>8. ASSUME Tracing PROVE Mirrors(graph, Held, mem)' /\ Sane(graph)'
  <2>1. Mirrors(graph', Held', mem')
    BY <1>1, <1>2, <1>6, <1>8 DEF FaithInv
  <2>2. Mirrors(graph, Held, mem)'
    BY <1>1, <2>1, MirrorsKept
  <2>3. Sane(graph)'
    BY <1>1, <1>8 DEF FaithInv, Sane, Backward, Regular, Arguments
  <2> QED BY <2>2, <2>3
<1> QED BY <1>2, <1>8 DEF FaithInv

-----------------------------------------------------------------------------
(* A pruned graph computes what the whole one does                         *)

\* A node is kept with the node whose cell it shares.
LEMMA CellKept ==
    ASSUME NEW g, Sane(g), NEW K, ArgClosed(g, K), NEW n \in K \cap (1 .. Len(g))
    PROVE  CellOf(g)[n] \in K
<1> DEFINE S == {k \in 0 .. Len(g) : \A i \in 1 .. k : i \in K => CellOf(g)[i] \in K}
<1>0. Len(g) \in Nat /\ Backward(g) /\ Regular(g)
  BY DEF Sane, Backward
<1>1. 0 \in S
  BY <1>0
<1>2. ASSUME NEW k \in 1 .. Len(g), k - 1 \in S PROVE k \in S
  <2>1. CellOf(g)[k] = IF g[k].op = "view" THEN CellOf(g)[g[k].a.node] ELSE k
    BY <1>0, CellDef
  <2>2. \A i \in 1 .. k - 1 : i \in K => CellOf(g)[i] \in K
    BY <1>2
  <2>3. ASSUME g[k].op = "view", k \in K
        PROVE  g[k].a.node \in 1 .. k - 1 /\ g[k].a.node \in K
    <3>1. g[k].a.node \in Arguments(g[k]) /\ 0 \notin Arguments(g[k])
      BY <1>0, <2>3 DEF Regular, Arguments
    <3>2. g[k].a.node \in 0 .. k - 1
      BY <1>0 DEF Backward
    <3>3. g[k].a.node \in K
      BY <2>3, <3>1 DEF ArgClosed
    <3> QED BY <3>1, <3>2, <3>3
  <2>4. k \in K => CellOf(g)[k] \in K
    BY <2>1, <2>2, <2>3
  <2> QED BY <1>0, <2>2, <2>4
<1> HIDE DEF S
<1>3. 0 .. Len(g) \subseteq S
  BY <1>0, <1>1, <1>2, UpTo
<1>4. Len(g) \in S
  BY <1>0, <1>3
<1> QED BY <1>0, <1>4 DEF S

\* Runs agree on the cells of the kept nodes.
Agree(K, c, d, k) == \A i \in K : i \in 1 .. k => c[i] = d[i]

\* An argument of a kept node reads the same in both runs.
LEMMA ReadsKept ==
    ASSUME NEW g, Sane(g), pass \in Nat \ {0}, NEW K, ArgClosed(g, K),
           NEW k \in K \cap (1 .. Len(g)), NEW c, NEW d, Agree(K, c, d, k - 1),
           NEW p \in {g[k].a, g[k].b}
    PROVE  Reads(g, c, p) = Reads(g, d, p)
<1>0. Len(g) \in Nat /\ Backward(g) /\ Regular(g)
  BY DEF Sane, Backward
<1>1. CASE p = NoProxy
  <2>1. p.pass # pass
    BY <1>1 DEF NoProxy
  <2> QED BY <2>1 DEF Reads
<1>2. CASE p # NoProxy
  <2>1. p.node \in Arguments(g[k])
    BY <1>2 DEF Arguments
  <2>2. p.node \in K /\ p.node \in 1 .. k - 1
    <3>1. p.node \in 0 .. k - 1 /\ p.node # 0
      BY <1>0, <2>1 DEF Backward, Regular
    <3> QED BY <1>0, <2>1, <3>1 DEF ArgClosed
  <2>3. p.node \in 1 .. Len(g)
    BY <1>0, <2>2
  <2>4. CellOf(g)[p.node] \in K
    BY <2>2, <2>3, CellKept
  <2>5. CellOf(g)[p.node] \in 1 .. p.node
    BY <2>3, CellRange
  <2>6. CellOf(g)[p.node] \in 1 .. k - 1
    BY <1>0, <2>2, <2>5
  <2>7. c[CellOf(g)[p.node]] = d[CellOf(g)[p.node]]
    BY <2>4, <2>6 DEF Agree
  <2> QED BY <2>7 DEF Reads
<1> QED BY <1>1, <1>2

\* One node later they still do: every write is kept.
LEMMA AdvanceKept ==
    ASSUME NEW g, Sane(g), pass \in Nat \ {0}, NEW K, ArgClosed(g, K), K \subseteq 1 .. Len(g),
           Mutations(g) \subseteq K, NEW m, NEW k \in 1 .. Len(g), NEW c, NEW d,
           Agree(K, c, d, k - 1)
    PROVE  Agree(K, Advance(g, K, m, c, k), Advance(g, DOMAIN g, m, d, k), k)
<1> DEFINE n == g[k]
<1>0. Len(g) \in Nat /\ DOMAIN g = 1 .. Len(g)
  BY DEF Sane, Backward
<1>1. ASSUME k \in K
      PROVE  /\ Reads(g, c, n.a) = Reads(g, d, n.a)
             /\ Reads(g, c, n.b) = Reads(g, d, n.b)
  BY <1>1, ReadsKept
<1>2. k \in K => Result(g, c, n, m) = Result(g, d, n, m)
  BY <1>1 DEF Result
<1>3. n.op = "copy_" => k \in K
  BY DEF Mutations
<1> SUFFICES ASSUME NEW i \in K, i \in 1 .. k
             PROVE  Advance(g, K, m, c, k)[i] = Advance(g, DOMAIN g, m, d, k)[i]
  BY DEF Agree
<1>4. i < k => c[i] = d[i]
  BY <1>0 DEF Agree
<1>5. Advance(g, K, m, c, k)[i] =
        IF k \in K /\ n.op = "copy_" /\ i = CellOf(g)[n.a.node]
        THEN Over(c[i], Reads(g, c, n.b), n.sel)
        ELSE IF i < k THEN c[i] ELSE IF k \in K THEN Result(g, c, n, m) ELSE Empty
  BY DEF Advance
<1>6. Advance(g, DOMAIN g, m, d, k)[i] =
        IF n.op = "copy_" /\ i = CellOf(g)[n.a.node]
        THEN Over(d[i], Reads(g, d, n.b), n.sel)
        ELSE IF i < k THEN d[i] ELSE Result(g, d, n, m)
  BY <1>0 DEF Advance
<1>7. n.op = "copy_" /\ i = CellOf(g)[n.a.node] => i < k
  <2> SUFFICES ASSUME n.op = "copy_", i = CellOf(g)[n.a.node] PROVE i < k
    OBVIOUS
  <2>1. n.a.node \in 0 .. k - 1 /\ Backward(g)
    BY DEF Sane, Backward
  <2>2. CellOf(g)[n.a.node] \in 0 .. n.a.node
    BY <1>0, <2>1, CellBounds
  <2> QED BY <1>0, <2>1, <2>2
<1>8. CASE i < k
  <2>1. c[i] = d[i]
    BY <1>4, <1>8
  <2> HIDE DEF n
  <2> QED BY <1>1, <1>3, <1>5, <1>6, <1>8, <2>1
<1>9. CASE i = k
  <2> HIDE DEF n
  <2> QED BY <1>0, <1>2, <1>5, <1>6, <1>7, <1>9
<1> QED BY <1>0, <1>8, <1>9

\* What is left after pruning computes what the whole graph does.
LEMMA KeptRun ==
    ASSUME NEW g, Sane(g), pass \in Nat \ {0}, NEW K, ArgClosed(g, K), K \subseteq 1 .. Len(g),
           Mutations(g) \subseteq K, NEW m
    PROVE  \A i \in K : Run(g, K, m)[i] = Cells(g, m)[i]
<1> DEFINE D == DOMAIN g
           S == {k \in 0 .. Len(g) : Agree(K, Trail(g, K, m)[k], Trail(g, D, m)[k], k)}
<1>0. Len(g) \in Nat
  BY DEF Sane, Backward
<1>1. 0 \in S
  BY <1>0 DEF Agree
<1>2. ASSUME NEW k \in 1 .. Len(g), k - 1 \in S PROVE k \in S
  <2>1. Agree(K, Trail(g, K, m)[k-1], Trail(g, D, m)[k-1], k - 1)
    BY <1>2
  <2>2. /\ Trail(g, K, m)[k] = Advance(g, K, m, Trail(g, K, m)[k-1], k)
        /\ Trail(g, D, m)[k] = Advance(g, D, m, Trail(g, D, m)[k-1], k)
    BY <1>0, TrailDef
  <2>3. Agree(K, Trail(g, K, m)[k], Trail(g, D, m)[k], k)
    BY <2>1, <2>2, AdvanceKept
  <2> QED BY <1>0, <2>3
<1> HIDE DEF S
<1>3. 0 .. Len(g) \subseteq S
  BY <1>0, <1>1, <1>2, UpTo
<1>4. Agree(K, Trail(g, K, m)[Len(g)], Trail(g, D, m)[Len(g)], Len(g))
  BY <1>0, <1>3 DEF S
<1>5. Run(g, K, m) = Trail(g, K, m)[Len(g)] /\ Cells(g, m) = Trail(g, D, m)[Len(g)]
  BY <1>0, TrailDef DEF Cells
<1> QED BY <1>4, <1>5 DEF Agree

-----------------------------------------------------------------------------
(* The graph computes what the program does                                *)

\* The program keeps to what the docs ask of it.
Honest == {"bare", "slice", "split", "stale"} \cap Habits = {}

LEMMA StepFaithful == ASSUME CarrierInv, FaithInv, Honest, Next PROVE FaithInv'
<1> USE CarrierInv, FaithInv
<1>0. {"bare", "slice", "split", "stale"} \cap Habits = {}
  BY DEF Honest
<1>1. ASSUME NEW o \in Named, Declare(o) PROVE FaithInv'
  BY <1>0, <1>1, DeclareFaithful
<1>2. ASSUME NEW o \in Objects, NEW b \in Operands, NEW t \in Temps, Call(o, b, t)
      PROVE  FaithInv'
  <2>1. UNCHANGED phase
    BY <1>2 DEF Call
  <2> QED BY <1>2, <2>1, CallFaithful DEF FaithInv, Tracing
<1>3. ASSUME NEW o \in Objects, NEW t \in Temps,
             Alias(o, t) \/ Narrow(o, t) \/ Convert(o, t) \/ Clone(o, t)
                \/ Uncaptured(o, t)
      PROVE  FaithInv'
  <2>1. UNCHANGED phase
    BY <1>3 DEF Alias, Narrow, Convert, Clone, Uncaptured
  <2>2. ASSUME Tracing PROVE FaithInv'
    BY <1>3, <2>2, AliasFaithful, NarrowFaithful, ConvertFaithful, CloneFaithful,
       UncapturedFaithful
  <2> QED BY <2>1, <2>2 DEF FaithInv, Tracing
<1>4. ASSUME NEW o \in Objects, NEW b \in Operands, InPlace(o, b) PROVE FaithInv'
  <2>1. UNCHANGED phase
    BY <1>4 DEF InPlace
  <2>2. ASSUME Tracing PROVE FaithInv'
    BY <1>0, <1>4, <2>2, InPlaceFaithful
  <2> QED BY <2>1, <2>2 DEF FaithInv, Tracing
<1>5. ASSUME NEW o \in Objects, NEW b \in Operands, NEW key \in {Lead, Whole},
             Assign(o, b, key)
      PROVE  FaithInv'
  <2>1. UNCHANGED phase
    BY <1>5 DEF Assign
  <2>2. ASSUME Tracing PROVE FaithInv'
    BY <1>0, <1>5, <2>2, AssignFaithful
  <2> QED BY <2>1, <2>2 DEF FaithInv, Tracing
<1>6. ASSUME NEW o \in Objects, NEW b \in Objects, NEW key \in {Lead, Whole},
             AssignPlain(o, b, key)
      PROVE  FaithInv'
  <2>1. UNCHANGED phase
    BY <1>6 DEF AssignPlain
  <2>2. ASSUME Tracing PROVE FaithInv'
    BY <1>0, <1>6, <2>2, AssignPlainFaithful
  <2> QED BY <2>1, <2>2 DEF FaithInv, Tracing
<1>7. ASSUME NEW O \in SUBSET Objects, Output(O) PROVE FaithInv'
  BY <1>7 DEF Output, FaithInv, Tracing
<1>8. ASSUME ReplaceGraph PROVE FaithInv'
  BY <1>8, ReplaceFaithful
<1> QED BY <1>1, <1>2, <1>3, <1>4, <1>5, <1>6, <1>7, <1>8 DEF Next

LEMMA FaithTraces == CarrierInv /\ FaithInv => TraceFaithful
<1> SUFFICES ASSUME CarrierInv, FaithInv, Tracing, NEW o \in Objects, Fresh(o)
             PROVE  \/ Failed(Prune(graph, {Handle(o).node}))
                    \/ Only(Run(graph, DOMAIN graph, mem)[CellOf(graph)[Handle(o).node]],
                            obj[o].sel) = Value(o)
  BY DEF TraceFaithful
<1>1. Handle(o) # NoProxy /\ Gives(graph, mem, Handle(o), Value(o), obj[o].sel)
  BY FreshHolds
<1>2. \/ Tainted(graph, Handle(o).node)
      \/ Only(Cells(graph, mem)[CellOf(graph)[Handle(o).node]], obj[o].sel) = Value(o)
  BY <1>1 DEF Gives
<1> QED BY <1>2 DEF Tainted, Failed, Cells

LEMMA FaithOutputs == CarrierInv /\ FaithInv => OutputFaithful
<1> SUFFICES ASSUME CarrierInv, FaithInv, Tracing, NEW o \in Objects, Fresh(o),
                    ~Failed(Prune(graph, {Handle(o).node}))
             PROVE  Only(Run(graph, Prune(graph, {Handle(o).node}), mem)
                            [CellOf(graph)[Handle(o).node]], obj[o].sel) = Value(o)
  BY DEF OutputFaithful
<1> DEFINE n == Handle(o).node
           K == Prune(graph, {n})
<1>1. /\ Handle(o) # NoProxy /\ Gives(graph, mem, Handle(o), Value(o), obj[o].sel)
      /\ n \in 1 .. Len(graph)
  BY FreshHolds
<1>2. Sane(graph) /\ pass \in Nat \ {0}
  BY PassType DEF FaithInv
<1>3. ~Tainted(graph, n)
  BY DEF Tainted, Failed
<1>4. Only(Cells(graph, mem)[CellOf(graph)[n]], obj[o].sel) = Value(o)
  BY <1>1, <1>3 DEF Gives
<1> HIDE DEF n
<1>5. /\ {n} \subseteq K /\ Mutations(graph) \subseteq K /\ K \subseteq 1 .. Len(graph)
      /\ ArgClosed(graph, K)
  BY <1>1, <1>2, PruneFacts
<1> HIDE DEF K
<1>6. CellOf(graph)[n] \in K
  BY <1>2, <1>5, CellKept
<1>7. \A i \in K : Run(graph, K, mem)[i] = Cells(graph, mem)[i]
  BY <1>2, <1>5, KeptRun
<1>8. Run(graph, K, mem)[CellOf(graph)[n]] = Cells(graph, mem)[CellOf(graph)[n]]
  BY <1>6, <1>7
<1> QED BY <1>4, <1>8 DEF K, n

LEMMA FaithShares == CarrierInv /\ FaithInv => AliasesShareCells
<1> SUFFICES ASSUME CarrierInv, FaithInv, Tracing, NEW c \in Objects, NEW d \in Objects,
                    Fresh(c), Fresh(d)
             PROVE  obj[c].st = obj[d].st
                       <=> CellOf(graph)[Handle(c).node] = CellOf(graph)[Handle(d).node]
  BY DEF AliasesShareCells
<1> DEFINE x == Holds(Handle(c).node, obj[c].st, obj[c].sel)
           y == Holds(Handle(d).node, obj[d].st, obj[d].sel)
<1>1. x \in Held /\ y \in Held
  BY FreshHolds
<1>2. /\ x.node = Handle(c).node /\ x.st = obj[c].st
      /\ y.node = Handle(d).node /\ y.st = obj[d].st
  BY DEF Holds
<1> HIDE DEF x, y
<1>3. x.st = y.st <=> CellOf(graph)[x.node] = CellOf(graph)[y.node]
  BY <1>1 DEF FaithInv, Mirrors
<1> QED BY <1>2, <1>3

LEMMA FaithKept ==
    ASSUME Honest PROVE CarrierInv /\ FaithInv /\ [Next]_vars => (CarrierInv /\ FaithInv)'
<1> SUFFICES ASSUME CarrierInv, FaithInv, [Next]_vars PROVE CarrierInv' /\ FaithInv'
  OBVIOUS
<1>1. CarrierInv'
  BY StepKept, StutterKept DEF Kept
<1>2. FaithInv'
  BY StepFaithful, StutterFaithful
<1> QED BY <1>1, <1>2

\* Whatever the program computes from declared inputs and steady data, through
\* aliases, views, conversions, in-place calls and assignments in any order and
\* after any replaced graph, the graph recorded so far gives for every carrier
\* the value the program holds, on the data of any later run (update_proxy,
\* _handle_plain_assignment, find_declared_alias).
THEOREM TraceAlways ==
    ASSUME {"bare", "slice", "split", "stale"} \cap Habits = {} PROVE Spec => []TraceFaithful
<1> DEFINE Inv == CarrierInv /\ FaithInv
<1>1. Init => Inv
  BY InitCarrier, InitFaithful
<1>2. Inv /\ [Next]_vars => Inv'
  <2>1. Honest
    BY DEF Honest
  <2> QED BY <2>1, FaithKept
<1>3. Inv => TraceFaithful
  BY FaithTraces
<1> HIDE DEF Inv
<1> QED BY <1>1, <1>2, <1>3, PTL DEF Spec

\* And so does what _prune_graph leaves of the graph for a carrier that is made
\* an output, all nodes it does not reach removed: the writes into its storage
\* through other views are kept (preserve_mutations).
THEOREM OutputAlways ==
    ASSUME {"bare", "slice", "split", "stale"} \cap Habits = {} PROVE Spec => []OutputFaithful
<1> DEFINE Inv == CarrierInv /\ FaithInv
<1>1. Init => Inv
  BY InitCarrier, InitFaithful
<1>2. Inv /\ [Next]_vars => Inv'
  <2>1. Honest
    BY DEF Honest
  <2> QED BY <2>1, FaithKept
<1>3. Inv => OutputFaithful
  BY FaithOutputs
<1> HIDE DEF Inv
<1> QED BY <1>1, <1>2, <1>3, PTL DEF Spec

\* Carriers of the graph share a cell in it exactly when they share an allocation
\* in memory, so that a write through one is a write to the others: the bytes
\* declared under any number of names, in any order, at any time of the pass and
\* repeatedly, included (find_declared_alias, _rebind_input), as long as no carrier
\* that keeps its handle, a view or an undeclared tensor, shares the bytes then.
THEOREM AliasesAlways ==
    ASSUME {"bare", "slice", "split", "stale"} \cap Habits = {} PROVE Spec => []AliasesShareCells
<1> DEFINE Inv == CarrierInv /\ FaithInv
<1>1. Init => Inv
  BY InitCarrier, InitFaithful
<1>2. Inv /\ [Next]_vars => Inv'
  <2>1. Honest
    BY DEF Honest
  <2> QED BY <2>1, FaithKept
<1>3. Inv => AliasesShareCells
  BY FaithShares
<1> HIDE DEF Inv
<1> QED BY <1>1, <1>2, <1>3, PTL DEF Spec
=============================================================================
