------------------------ MODULE TracingPatcher_proofs ------------------------
(***************************************************************************)
(* Proofs about TracingPatcher for any attributes and any number of        *)
(* sessions: what uninstalling gives back, what a session intercepts, and  *)
(* that the bindings of the program survive.                               *)
(*                                                                         *)
(* The four registries are one stack of undo entries, torch's at the       *)
(* bottom and the user's on top, since they are filled in this order and   *)
(* emptied in the opposite one.                                            *)
(***************************************************************************)
EXTENDS TracingPatcher, SequenceTheorems, FiniteSetTheorems,
        WellFoundedInduction, TLAPS

-----------------------------------------------------------------------------
(* Callables and entries                                                   *)

Layer  == [by : Groups \cup {"program"}, start : Nat]
Parts  == Layer \cup {Original[a] : a \in Attrs}

\* What attribute a may be bound to.
Callables(a) == {f \in Seq(Parts) : f # <<>> /\ Last(f) = Original[a]}

\* An undo entry of group g.
Entries(g) == {e \in [attr : Attrs, wrapper : Seq(Parts)] :
                  /\ e.wrapper \in Callables(e.attr)
                  /\ Len(e.wrapper) > 1
                  /\ Head(e.wrapper) \in Layer
                  /\ Head(e.wrapper).by = g
                  /\ g = "warp" => e.attr \in WarpAttrs \cup Aliases}

AllEntries == UNION {Entries(g) : g \in Groups}

\* The wrappers on f are all the program's.
Bare(f) == \A k \in 1 .. Len(f) - 1 : f[k] = Program

\* f ends in s.
Ends(s, f) == /\ Len(s) <= Len(f)
              /\ \A i \in 1 .. Len(s) : f[Len(f) - Len(s) + i] = s[i]

LEMMA CallableFacts ==
    ASSUME NEW a \in Attrs, NEW f \in Callables(a)
    PROVE  /\ f \in Seq(Parts) /\ Len(f) \in Nat \ {0} /\ f[Len(f)] = Original[a]
           /\ Front(f) \in Seq(Parts) /\ Len(Front(f)) = Len(f) - 1
           /\ DOMAIN Front(f) = 1 .. Len(f) - 1
           /\ \A k \in 1 .. Len(f) - 1 : Front(f)[k] = f[k]
           /\ Head(f) = f[1]
<1>1. f \in Seq(Parts) /\ Len(f) \in Nat \ {0} /\ f[Len(f)] = Original[a]
  BY EmptySeq DEF Callables, Last
<1>2. \A i \in 1 .. Len(f) - 1 : f[i] \in Parts
  BY <1>1
<1>3. /\ Front(f) \in Seq(Parts) /\ Len(Front(f)) = Len(f) - 1
      /\ \A k \in 1 .. Len(f) - 1 : Front(f)[k] = f[k]
  <2>1. PICK n \in Nat : n = Len(f) - 1
    BY <1>1
  <2>2. \A i \in 1 .. n : f[i] \in Parts
    BY <1>2, <2>1
  <2>3. /\ SubSeq(f, 1, n) \in Seq(Parts)
        /\ Len(SubSeq(f, 1, n)) = IF 1 <= n THEN n - 1 + 1 ELSE 0
        /\ \A i \in 1 .. n - 1 + 1 : SubSeq(f, 1, n)[i] = f[1 + i - 1]
    BY <2>2, SubSeqProperties
  <2>4. Front(f) = SubSeq(f, 1, n)
    BY <2>1 DEF Front
  <2> QED BY <1>1, <2>1, <2>3, <2>4
<1> QED BY <1>1, <1>3, LenProperties

LEMMA PushFacts ==
    ASSUME NEW a \in Attrs, NEW f \in Callables(a), NEW l \in Layer
    PROVE  /\ <<l>> \o f \in Callables(a)
           /\ Len(<<l>> \o f) = Len(f) + 1
           /\ (<<l>> \o f)[1] = l
           /\ \A k \in 2 .. Len(f) + 1 : (<<l>> \o f)[k] = f[k-1]
           /\ Tail(<<l>> \o f) = f
           /\ Ends(f, <<l>> \o f)
<1> DEFINE w == <<l>> \o f
<1>1. f \in Seq(Parts) /\ <<l>> \in Seq(Parts) /\ Len(f) \in Nat \ {0} /\ f[Len(f)] = Original[a]
  <2>1. l \in Parts
    BY DEF Parts
  <2> QED BY <2>1, CallableFacts
<1>2. /\ w \in Seq(Parts) /\ Len(w) = Len(f) + 1
      /\ w[1] = l /\ \A k \in 2 .. Len(f) + 1 : w[k] = f[k-1]
  BY <1>1
<1> HIDE DEF w
<1>3. w[Len(w)] = Original[a] /\ w # <<>>
  BY <1>1, <1>2
<1>4. w \in Callables(a)
  BY <1>2, <1>3 DEF Callables, Last
<1>5. Tail(w) \in Seq(Parts) /\ Len(Tail(w)) = Len(f) /\ \A i \in 1 .. Len(f) : Tail(w)[i] = f[i]
  BY <1>1, <1>2, <1>3, HeadTailProperties
<1>6. Tail(w) = f
  BY <1>1, <1>5, SeqEqual
<1>7. Ends(f, w)
  BY <1>1, <1>2 DEF Ends
<1> QED BY <1>2, <1>4, <1>6, <1>7 DEF w

LEMMA TailFacts ==
    ASSUME NEW a \in Attrs, NEW f \in Callables(a), Len(f) > 1
    PROVE  /\ Tail(f) \in Callables(a)
           /\ Len(Tail(f)) = Len(f) - 1
           /\ \A k \in 1 .. Len(f) - 1 : Tail(f)[k] = f[k+1]
<1>1. f \in Seq(Parts) /\ Len(f) \in Nat \ {0} /\ f[Len(f)] = Original[a] /\ f # <<>>
  BY CallableFacts DEF Callables
<1>2. /\ Tail(f) \in Seq(Parts) /\ Len(Tail(f)) = Len(f) - 1
      /\ \A k \in 1 .. Len(f) - 1 : Tail(f)[k] = f[k+1]
  BY <1>1, HeadTailProperties
<1>3. Tail(f) # <<>> /\ Tail(f)[Len(Tail(f))] = Original[a]
  <2>1. Len(f) - 1 \in 1 .. Len(f) - 1 /\ (Len(f) - 1) + 1 = Len(f)
    BY <1>1
  <2>2. Tail(f)[Len(f) - 1] = f[Len(f)]
    BY <1>2, <2>1
  <2> QED BY <1>1, <1>2, <2>2
<1> QED BY <1>2, <1>3 DEF Callables, Last

LEMMA EntryFacts ==
    ASSUME NEW g \in Groups, NEW e \in Entries(g)
    PROVE  /\ e \in AllEntries
           /\ e.attr \in Attrs /\ e.wrapper \in Callables(e.attr)
           /\ Len(e.wrapper) > 1 /\ e.wrapper[1] \in Layer /\ e.wrapper[1].by = g
           /\ Head(e.wrapper) = e.wrapper[1]
           /\ Tail(e.wrapper) \in Callables(e.attr)
           /\ e.wrapper[1] # Program
           /\ ~ Bare(e.wrapper)
<1>1. /\ e \in AllEntries
      /\ e.attr \in Attrs /\ e.wrapper \in Callables(e.attr)
      /\ Len(e.wrapper) > 1 /\ Head(e.wrapper) \in Layer /\ Head(e.wrapper).by = g
  BY DEF Entries, AllEntries
<1>2. Head(e.wrapper) = e.wrapper[1] /\ Len(e.wrapper) \in Nat
  BY <1>1, CallableFacts
<1>3. Tail(e.wrapper) \in Callables(e.attr)
  BY <1>1, TailFacts
<1>4. e.wrapper[1] # Program
  BY <1>1, <1>2 DEF Program, Groups, Defaults
<1>5. ~ Bare(e.wrapper)
  BY <1>1, <1>2, <1>4 DEF Bare
<1> QED BY <1>1, <1>2, <1>3, <1>4, <1>5

LEMMA EndsSuffix ==
    ASSUME NEW a \in Attrs, NEW f \in Callables(a), NEW h \in Callables(a), Ends(f, h)
    PROVE  IsSuffix(f, h)
<1> DEFINE p == Reverse(f)
           q == Reverse(h)
           n == Len(f)
           m == Len(h)
<1>1. f \in Seq(Parts) /\ h \in Seq(Parts) /\ n \in Nat /\ m \in Nat /\ n <= m
  BY CallableFacts DEF Ends
<1>2. \A i \in 1 .. n : f[(n - i) + 1] \in Parts
  BY <1>1
<1>3. \A i \in 1 .. m : h[(m - i) + 1] \in Parts
  BY <1>1
<1>4. p \in Seq(Parts) /\ Len(p) = n /\ \A i \in 1 .. n : p[i] = f[(n - i) + 1]
  BY <1>1, <1>2 DEF Reverse
<1>5. q \in Seq(Parts) /\ Len(q) = m /\ \A i \in 1 .. m : q[i] = h[(m - i) + 1]
  BY <1>1, <1>3 DEF Reverse
<1>6. \A i \in 1 .. n : p[i] = q[i]
  <2> TAKE i \in 1 .. n
  <2>1. (n - i) + 1 \in 1 .. n /\ i \in 1 .. m /\ m - n + ((n - i) + 1) = (m - i) + 1
    BY <1>1
  <2>2. h[m - n + ((n - i) + 1)] = f[(n - i) + 1]
    BY <2>1 DEF Ends
  <2> HIDE DEF p, q
  <2> QED BY <1>4, <1>5, <2>1, <2>2
<1> HIDE DEF p, q
<1>7. SubSeq(p, 1, n) = SubSeq(q, 1, n)
  <2>1. /\ SubSeq(p, 1, n) \in Seq(Parts) /\ Len(SubSeq(p, 1, n)) = n
        /\ \A i \in 1 .. n : SubSeq(p, 1, n)[i] = p[i]
    BY <1>1, <1>4, SubSeqProperties
  <2>2. /\ SubSeq(q, 1, n) \in Seq(Parts) /\ Len(SubSeq(q, 1, n)) = n
        /\ \A i \in 1 .. n : SubSeq(q, 1, n)[i] = q[i]
    BY <1>1, <1>5, SubSeqProperties
  <2> QED BY <1>6, <2>1, <2>2, SeqEqual
<1>8. IsPrefix(p, q)
  BY <1>1, <1>4, <1>5, <1>7 DEF IsPrefix
<1> QED BY <1>8 DEF IsSuffix, p, q

-----------------------------------------------------------------------------
(* The stack of undo entries S: attribute a, bound to f, can be taken back. *)

\* Beneath the entries after the n-th, a was bound to f: to what the last
\* entry of its own has left, or to what had no wrapper of LEAPP.
Under(S, a, n, f) ==
    \/ Bare(f) /\ \A i \in 1 .. n : S[i].attr # a
    \/ \E i \in 1 .. n : /\ S[i].attr = a /\ S[i].wrapper = f
                         /\ \A k \in i + 1 .. n : S[k].attr # a

Chain(S, a, f) ==
    /\ Under(S, a, Len(S), f)
    /\ \A i \in 1 .. Len(S) : S[i].attr = a => Under(S, a, i - 1, Tail(S[i].wrapper))

\* What is under an entry depends on those below it only.
LEMMA UnderSame ==
    ASSUME NEW S, NEW R, NEW a, NEW n \in Nat, NEW f, \A i \in 1 .. n : R[i] = S[i],
           Under(S, a, n, f)
    PROVE  Under(R, a, n, f)
<1>1. CASE Bare(f) /\ \A i \in 1 .. n : S[i].attr # a
  BY <1>1 DEF Under
<1>2. ASSUME NEW i \in 1 .. n, S[i].attr = a, S[i].wrapper = f,
             \A k \in i + 1 .. n : S[k].attr # a
      PROVE  Under(R, a, n, f)
  <2>1. \A k \in i + 1 .. n : k \in 1 .. n
    OBVIOUS
  <2> QED BY <1>2, <2>1 DEF Under
<1> QED BY <1>1, <1>2 DEF Under

LEMMA ChainPushed ==
    ASSUME NEW S \in Seq(AllEntries), NEW e \in AllEntries, NEW a, NEW f, NEW h,
           Chain(S, a, f),
           IF a = e.attr THEN h = e.wrapper /\ f = Tail(h) ELSE h = f
    PROVE  Chain(Append(S, e), a, h)
<1> DEFINE R == Append(S, e)
           n == Len(S)
<1>1. n \in Nat /\ Len(R) = n + 1 /\ R[n + 1] = e /\ \A i \in 1 .. n : R[i] = S[i]
  OBVIOUS
<1> HIDE DEF R, n
<1>2. Under(S, a, n, f) /\ \A i \in 1 .. n : S[i].attr = a => Under(S, a, i - 1, Tail(S[i].wrapper))
  BY DEF Chain, n
<1>3. Under(R, a, n, f)
  BY <1>1, <1>2, UnderSame
<1>4. ASSUME NEW i \in 1 .. n, R[i].attr = a PROVE Under(R, a, i - 1, Tail(R[i].wrapper))
  <2>1. S[i].attr = a /\ R[i] = S[i] /\ i - 1 \in Nat /\ \A k \in 1 .. i - 1 : R[k] = S[k]
    BY <1>1, <1>4
  <2>2. Under(S, a, i - 1, Tail(S[i].wrapper))
    BY <1>2, <2>1
  <2>3. Under(R, a, i - 1, Tail(S[i].wrapper))
    BY <2>1, <2>2, UnderSame
  <2> QED BY <2>1, <2>3
<1>5. CASE a = e.attr
  <2>1. Under(R, a, n + 1, h)
    <3>1. n + 1 \in 1 .. n + 1 /\ (n + 1) + 1 .. n + 1 = {}
      BY <1>1
    <3> QED BY <1>1, <1>5, <3>1 DEF Under
  <2>2. ASSUME NEW i \in 1 .. n + 1, R[i].attr = a PROVE Under(R, a, i - 1, Tail(R[i].wrapper))
    <3>1. CASE i \in 1 .. n
      BY <1>4, <2>2, <3>1
    <3>2. CASE i = n + 1
      <4>1. i - 1 = n /\ R[i] = e
        BY <1>1, <3>2
      <4> QED BY <1>3, <1>5, <4>1
    <3> QED BY <1>1, <3>1, <3>2
  <2> QED BY <1>1, <2>1, <2>2 DEF Chain, R
<1>6. CASE a # e.attr
  <2>1. Under(R, a, n + 1, f)
    <3>1. CASE Bare(f) /\ \A i \in 1 .. n : R[i].attr # a
      BY <1>1, <1>6, <3>1 DEF Under
    <3>2. ASSUME NEW i \in 1 .. n, R[i].attr = a, R[i].wrapper = f,
                 \A k \in i + 1 .. n : R[k].attr # a
          PROVE  Under(R, a, n + 1, f)
      <4>1. i \in 1 .. n + 1 /\ \A k \in i + 1 .. n + 1 : k \in i + 1 .. n \/ k = n + 1
        BY <1>1
      <4>2. \A k \in i + 1 .. n + 1 : R[k].attr # a
        BY <1>1, <1>6, <3>2, <4>1
      <4> QED BY <3>2, <4>1, <4>2 DEF Under
    <3> QED BY <1>3, <3>1, <3>2 DEF Under
  <2>2. ASSUME NEW i \in 1 .. n + 1, R[i].attr = a PROVE Under(R, a, i - 1, Tail(R[i].wrapper))
    <3>1. i \in 1 .. n
      BY <1>1, <1>6, <2>2
    <3> QED BY <1>4, <2>2, <3>1
  <2> QED BY <1>1, <1>6, <2>1, <2>2 DEF Chain, R
<1> QED BY <1>5, <1>6

LEMMA ChainPopped ==
    ASSUME NEW S \in Seq(AllEntries), NEW n \in Nat, Len(S) = n + 1, NEW a, NEW f, Chain(S, a, f)
    PROVE  /\ S[n + 1].attr = a => f = S[n + 1].wrapper /\ Chain(Front(S), a, Tail(f))
           /\ S[n + 1].attr # a => Chain(Front(S), a, f)
<1>1. PICK R : R = Front(S)
  OBVIOUS
<1>2. Len(R) = n /\ \A i \in 1 .. n : R[i] = S[i]
  <2>1. R = SubSeq(S, 1, n)
    BY <1>1 DEF Front
  <2>2. \A i \in 1 .. n : S[i] \in AllEntries
    OBVIOUS
  <2> QED BY <2>1, <2>2, SubSeqProperties
<1>3. /\ Under(S, a, n + 1, f)
      /\ \A i \in 1 .. n + 1 : S[i].attr = a => Under(S, a, i - 1, Tail(S[i].wrapper))
  BY DEF Chain
<1>4. ASSUME NEW i \in 1 .. n, R[i].attr = a PROVE Under(R, a, i - 1, Tail(R[i].wrapper))
  <2>1. S[i].attr = a /\ R[i] = S[i] /\ i - 1 \in Nat /\ \A k \in 1 .. i - 1 : R[k] = S[k]
    BY <1>2, <1>4
  <2>2. Under(S, a, i - 1, Tail(S[i].wrapper))
    BY <1>3, <2>1
  <2>3. Under(R, a, i - 1, Tail(S[i].wrapper))
    BY <2>1, <2>2, UnderSame
  <2> QED BY <2>1, <2>3
<1>5. CASE S[n + 1].attr = a
  <2>1. f = S[n + 1].wrapper
    <3>1. n + 1 \in 1 .. n + 1
      OBVIOUS
    <3>2. PICK i \in 1 .. n + 1 : /\ S[i].attr = a /\ S[i].wrapper = f
                                  /\ \A k \in i + 1 .. n + 1 : S[k].attr # a
      BY <1>3, <1>5, <3>1 DEF Under
    <3>3. ~ (i < n + 1)
      BY <1>5, <3>1, <3>2
    <3> QED BY <3>2, <3>3
  <2>2. Under(S, a, n, Tail(f))
    <3>1. n + 1 \in 1 .. n + 1 /\ (n + 1) - 1 = n
      OBVIOUS
    <3> QED BY <1>3, <1>5, <2>1, <3>1
  <2>3. Under(R, a, n, Tail(f))
    BY <1>2, <2>2, UnderSame
  <2> QED BY <1>1, <1>2, <1>4, <1>5, <2>1, <2>3 DEF Chain
<1>6. CASE S[n + 1].attr # a
  <2>1. Under(S, a, n, f)
    <3>1. CASE Bare(f) /\ \A i \in 1 .. n + 1 : S[i].attr # a
      BY <3>1 DEF Under
    <3>2. ASSUME NEW i \in 1 .. n + 1, S[i].attr = a, S[i].wrapper = f,
                 \A k \in i + 1 .. n + 1 : S[k].attr # a
          PROVE  Under(S, a, n, f)
      <4>1. i \in 1 .. n /\ \A k \in i + 1 .. n : k \in i + 1 .. n + 1
        BY <1>6, <3>2
      <4> QED BY <3>2, <4>1 DEF Under
    <3> QED BY <1>3, <3>1, <3>2 DEF Under
  <2>2. Under(R, a, n, f)
    BY <1>2, <2>1, UnderSame
  <2> QED BY <1>1, <1>2, <1>4, <1>6, <2>2 DEF Chain
<1> QED BY <1>5, <1>6

-----------------------------------------------------------------------------
(* The four registries as one stack                                        *)

Above(g) == CASE g = "torch" -> {"numpy", "warp", "user"}
              [] g = "numpy" -> {"warp", "user"}
              [] g = "warp"  -> {"user"}
              [] OTHER       -> {}

\* The entries of group g are on top.
Topmost(p, g) == \A h \in Above(g) : p[h] = <<>>

Stack(p) == (p["torch"] \o p["numpy"]) \o (p["warp"] \o p["user"])

Registries == {p \in [Groups -> Seq(AllEntries)] :
                  \A g \in Groups : \A k \in 1 .. Len(p[g]) : p[g][k] \in Entries(g)}

LEMMA GroupNames == /\ Groups = {"torch", "numpy", "warp", "user"}
                    /\ Defaults = {"torch", "numpy", "warp"}
BY DEF Groups, Defaults

LEMMA FrontFacts ==
    ASSUME NEW X, NEW s \in Seq(X), s # <<>>
    PROVE  /\ Front(s) \in Seq(X) /\ Len(s) \in Nat \ {0} /\ Len(Front(s)) = Len(s) - 1
           /\ \A i \in 1 .. Len(s) - 1 : Front(s)[i] = s[i]
<1>1. Len(s) \in Nat \ {0} /\ \A i \in 1 .. Len(s) : s[i] \in X
  BY EmptySeq
<1>2. PICK n \in Nat : n = Len(s) - 1
  BY <1>1
<1>3. \A i \in 1 .. n : s[i] \in X
  BY <1>1, <1>2
<1>4. /\ SubSeq(s, 1, n) \in Seq(X)
      /\ Len(SubSeq(s, 1, n)) = IF 1 <= n THEN n - 1 + 1 ELSE 0
      /\ \A i \in 1 .. n - 1 + 1 : SubSeq(s, 1, n)[i] = s[1 + i - 1]
  BY <1>3, SubSeqProperties
<1>5. Front(s) = SubSeq(s, 1, n)
  BY <1>2 DEF Front
<1> QED BY <1>1, <1>2, <1>4, <1>5

LEMMA ConcatEnds ==
    ASSUME NEW s \in Seq(AllEntries), NEW t \in Seq(AllEntries), NEW e \in AllEntries
    PROVE  /\ s \o t \in Seq(AllEntries) /\ s \o <<>> = s
           /\ s \o Append(t, e) = Append(s \o t, e)
           /\ t # <<>> => /\ s \o t # <<>>
                          /\ s \o Front(t) = Front(s \o t)
                          /\ (s \o t)[Len(s \o t)] = t[Len(t)]
<1>1. /\ s \o t \in Seq(AllEntries) /\ Len(s \o t) = Len(s) + Len(t)
      /\ Len(s) \in Nat /\ Len(t) \in Nat
      /\ \A i \in 1 .. Len(s) + Len(t) : (s \o t)[i] = IF i <= Len(s) THEN s[i] ELSE t[i - Len(s)]
  BY ConcatProperties
<1>2. s \o <<>> = s
  BY ConcatEmptySeq
<1>3. s \o Append(t, e) = Append(s \o t, e)
  <2>1. Append(t, e) \in Seq(AllEntries) /\ Len(Append(t, e)) = Len(t) + 1
    OBVIOUS
  <2>2. PICK a : a = s \o Append(t, e)
    OBVIOUS
  <2>3. PICK b : b = Append(s \o t, e)
    OBVIOUS
  <2>4. a \in Seq(AllEntries) /\ Len(a) = Len(s) + Len(t) + 1
    BY <1>1, <2>1, <2>2, ConcatProperties
  <2>5. b \in Seq(AllEntries) /\ Len(b) = Len(s) + Len(t) + 1
    BY <1>1, <2>3
  <2>6. \A i \in 1 .. Len(a) : a[i] = b[i]
    BY <1>1, <2>1, <2>2, <2>3, <2>4, <2>5
  <2>7. a = b
    BY <2>4, <2>5, <2>6, SeqEqual
  <2> QED BY <2>2, <2>3, <2>7
<1>4. ASSUME t # <<>>
      PROVE  /\ s \o t # <<>> /\ s \o Front(t) = Front(s \o t)
             /\ (s \o t)[Len(s \o t)] = t[Len(t)]
  <2>1. /\ Front(t) \in Seq(AllEntries) /\ Len(t) \in Nat \ {0} /\ Len(Front(t)) = Len(t) - 1
        /\ \A i \in 1 .. Len(t) - 1 : Front(t)[i] = t[i]
    BY <1>4, FrontFacts
  <2>2. s \o t # <<>>
    BY <1>1, <2>1
  <2>3. /\ Front(s \o t) \in Seq(AllEntries) /\ Len(Front(s \o t)) = Len(s \o t) - 1
        /\ \A i \in 1 .. Len(s \o t) - 1 : Front(s \o t)[i] = (s \o t)[i]
    BY <1>1, <2>2, FrontFacts
  <2>4. /\ s \o Front(t) \in Seq(AllEntries) /\ Len(s \o Front(t)) = Len(s) + (Len(t) - 1)
        /\ \A i \in 1 .. Len(s) + (Len(t) - 1) :
              (s \o Front(t))[i] = IF i <= Len(s) THEN s[i] ELSE Front(t)[i - Len(s)]
    <3>1. PICK q \in Seq(AllEntries) : q = Front(t) /\ Len(q) = Len(t) - 1
      BY <2>1
    <3>2. /\ s \o q \in Seq(AllEntries) /\ Len(s \o q) = Len(s) + Len(q)
          /\ \A i \in 1 .. Len(s) + Len(q) :
                (s \o q)[i] = IF i <= Len(s) THEN s[i] ELSE q[i - Len(s)]
      BY ConcatProperties
    <3> QED BY <3>1, <3>2
  <2>5. PICK a : a = s \o Front(t)
    OBVIOUS
  <2>6. PICK b : b = Front(s \o t)
    OBVIOUS
  <2>7. a \in Seq(AllEntries) /\ b \in Seq(AllEntries) /\ Len(a) = Len(s) + (Len(t) - 1) /\ Len(b) = Len(a)
    BY <1>1, <2>1, <2>3, <2>4, <2>5, <2>6
  <2>8. ASSUME NEW i \in 1 .. Len(a) PROVE a[i] = b[i]
    <3>1. i \in 1 .. Len(s) + (Len(t) - 1) /\ i \in 1 .. Len(s) + Len(t) /\ i \in 1 .. Len(s \o t) - 1
      BY <1>1, <2>1, <2>7
    <3>2. b[i] = IF i <= Len(s) THEN s[i] ELSE t[i - Len(s)]
      BY <1>1, <2>3, <2>6, <3>1
    <3>3. a[i] = IF i <= Len(s) THEN s[i] ELSE Front(t)[i - Len(s)]
      BY <2>4, <2>5, <3>1
    <3>4. i <= Len(s) \/ i - Len(s) \in 1 .. Len(t) - 1
      BY <1>1, <3>1
    <3> QED BY <2>1, <3>2, <3>3, <3>4
  <2>9. a = b
    BY <2>7, <2>8, SeqEqual
  <2>10. (s \o t)[Len(s \o t)] = t[Len(t)]
    BY <1>1, <2>1
  <2> QED BY <2>2, <2>5, <2>6, <2>9, <2>10
<1> QED BY <1>1, <1>2, <1>3, <1>4

LEMMA ConcatPush ==
    \A s, t \in Seq(AllEntries) : \A e \in AllEntries : s \o Append(t, e) = Append(s \o t, e)
BY ConcatEnds

LEMMA ConcatPop ==
    \A s, t \in Seq(AllEntries) : t # <<>> =>
        /\ s \o Front(t) = Front(s \o t) /\ s \o t # <<>>
        /\ (s \o t)[Len(s \o t)] = t[Len(t)]
<1> TAKE s \in Seq(AllEntries), t \in Seq(AllEntries)
<1> HAVE t # <<>>
<1>1. t[1] \in AllEntries
  BY EmptySeq
<1>2. PICK e \in AllEntries : TRUE
  BY <1>1
<1> QED BY <1>2, ConcatEnds

LEMMA StackSeq ==
    ASSUME NEW p \in Registries
    PROVE  /\ Stack(p) \in Seq(AllEntries)
           /\ (\A g \in Groups : p[g] = <<>>) => Stack(p) = <<>>
<1>1. \A g \in Groups : p[g] \in Seq(AllEntries)
  BY DEF Registries
<1> QED BY <1>1, GroupNames DEF Stack

\* An entry pushed on the topmost group is pushed on the stack.
LEMMA StackPush ==
    ASSUME NEW p \in Registries, NEW g \in Groups, Topmost(p, g), NEW e \in Entries(g),
           NEW q, q = [p EXCEPT ![g] = Append(@, e)]
    PROVE  q \in Registries /\ Stack(q) = Append(Stack(p), e)
<1>1. e \in AllEntries
  BY DEF AllEntries
<1>2. /\ \A h \in Groups : p[h] \in Seq(AllEntries)
      /\ p["torch"] \in Seq(AllEntries) /\ p["numpy"] \in Seq(AllEntries)
      /\ p["warp"] \in Seq(AllEntries) /\ p["user"] \in Seq(AllEntries)
  BY GroupNames DEF Registries
<1>3. q[g] = Append(p[g], e) /\ \A h \in Groups \ {g} : q[h] = p[h]
  BY DEF Registries
<1>4. q \in Registries
  <2>1. q \in [Groups -> Seq(AllEntries)]
    BY <1>1, <1>2 DEF Registries
  <2>2. \A k \in 1 .. Len(q[g]) : q[g][k] \in Entries(g)
    BY <1>2, <1>3 DEF Registries
  <2> QED BY <1>3, <2>1, <2>2 DEF Registries
<1> DEFINE A == p["torch"]
           B == p["numpy"]
           C == p["warp"]
           D == p["user"]
<1>5. <<>> \in Seq(AllEntries) /\ A \o B \in Seq(AllEntries) /\ C \o D \in Seq(AllEntries)
  BY <1>2
<1>6. CASE g = "user"
  <2>1. Stack(q) = (A \o B) \o (C \o Append(D, e))
    BY <1>3, <1>6, GroupNames DEF Stack
  <2>2. C \o Append(D, e) = Append(C \o D, e)
    BY Zenon, <1>1, <1>2, ConcatPush
  <2>3. (A \o B) \o Append(C \o D, e) = Append((A \o B) \o (C \o D), e)
    BY Zenon, <1>1, <1>5, ConcatPush
  <2> QED BY <1>4, <2>1, <2>2, <2>3 DEF Stack
<1>7. CASE g = "warp"
  <2>1. D = <<>> /\ Stack(q) = (A \o B) \o (Append(C, e) \o D)
    BY <1>3, <1>7, GroupNames DEF Stack, Topmost, Above
  <2>2. C \o D = C /\ Append(C, e) \o D = Append(C, e)
    BY <1>1, <1>2, <2>1, ConcatEmptySeq
  <2>3. (A \o B) \o Append(C, e) = Append((A \o B) \o C, e)
    BY Zenon, <1>1, <1>2, <1>5, ConcatPush
  <2> QED BY <1>4, <2>1, <2>2, <2>3 DEF Stack
<1>8. CASE g = "numpy"
  <2>1. C = <<>> /\ D = <<>> /\ Stack(q) = (A \o Append(B, e)) \o (C \o D)
    BY <1>3, <1>8, GroupNames DEF Stack, Topmost, Above
  <2>2. C \o D = <<>>
    BY <1>5, <2>1, ConcatEmptySeq
  <2>3. A \o Append(B, e) = Append(A \o B, e)
    BY Zenon, <1>1, <1>2, ConcatPush
  <2>4. Append(A \o B, e) \in Seq(AllEntries)
    BY <1>1, <1>5
  <2>5. Append(A \o B, e) \o <<>> = Append(A \o B, e) /\ (A \o B) \o <<>> = A \o B
    BY <1>5, <2>4, ConcatEmptySeq
  <2> QED BY <1>4, <2>1, <2>2, <2>3, <2>5 DEF Stack
<1>9. CASE g = "torch"
  <2>1. B = <<>> /\ C = <<>> /\ D = <<>> /\ Stack(q) = (Append(A, e) \o B) \o (C \o D)
    BY <1>3, <1>9, GroupNames DEF Stack, Topmost, Above
  <2>2. C \o D = <<>>
    BY <1>5, <2>1, ConcatEmptySeq
  <2>3. Append(A, e) \in Seq(AllEntries)
    BY <1>1, <1>2
  <2>4. Append(A, e) \o <<>> = Append(A, e) /\ A \o <<>> = A
    BY <1>2, <2>3, ConcatEmptySeq
  <2> QED BY <1>4, <2>1, <2>2, <2>4 DEF Stack
<1> QED BY <1>6, <1>7, <1>8, <1>9, GroupNames

\* The last entry of the topmost group is the last of the stack.
LEMMA StackPop ==
    ASSUME NEW p \in Registries, NEW g \in Groups, Topmost(p, g), p[g] # <<>>,
           NEW q, q = [p EXCEPT ![g] = Front(@)]
    PROVE  /\ q \in Registries /\ Stack(q) = Front(Stack(p))
           /\ Stack(p) # <<>> /\ Stack(p)[Len(Stack(p))] = Last(p[g])
           /\ Last(p[g]) \in Entries(g)
<1>1. /\ \A h \in Groups : p[h] \in Seq(AllEntries)
      /\ p["torch"] \in Seq(AllEntries) /\ p["numpy"] \in Seq(AllEntries)
      /\ p["warp"] \in Seq(AllEntries) /\ p["user"] \in Seq(AllEntries)
  BY GroupNames DEF Registries
<1>2. q[g] = Front(p[g]) /\ \A h \in Groups \ {g} : q[h] = p[h]
  BY DEF Registries
<1>3. /\ Front(p[g]) \in Seq(AllEntries) /\ Len(p[g]) \in Nat \ {0}
      /\ Len(Front(p[g])) = Len(p[g]) - 1
      /\ \A i \in 1 .. Len(p[g]) - 1 : Front(p[g])[i] = p[g][i]
  BY <1>1, FrontFacts
<1>4. Last(p[g]) \in Entries(g) /\ Last(p[g]) \in AllEntries
  BY <1>3 DEF Last, Registries, AllEntries
<1>5. q \in Registries
  <2>1. q \in [Groups -> Seq(AllEntries)]
    BY <1>3 DEF Registries
  <2>2. \A k \in 1 .. Len(q[g]) : q[g][k] \in Entries(g)
    BY <1>2, <1>3 DEF Registries
  <2> QED BY <1>2, <2>1, <2>2 DEF Registries
<1> DEFINE A == p["torch"]
           B == p["numpy"]
           C == p["warp"]
           D == p["user"]
<1>6. <<>> \in Seq(AllEntries) /\ A \o B \in Seq(AllEntries) /\ C \o D \in Seq(AllEntries)
  BY <1>1
<1>7. PICK e \in AllEntries : e = Last(p[g])
  BY <1>4
<1>8. p[g][Len(p[g])] = e
  BY <1>7 DEF Last
<1> SUFFICES /\ Stack(q) = Front(Stack(p))
             /\ Stack(p) # <<>> /\ Stack(p)[Len(Stack(p))] = e
  BY <1>4, <1>5, <1>7
<1>9. CASE g = "user"
  <2>1. Stack(q) = (A \o B) \o (C \o Front(D)) /\ D # <<>>
    BY <1>2, <1>9, GroupNames DEF Stack
  <2>2. C \o Front(D) = Front(C \o D) /\ C \o D # <<>> /\ (C \o D)[Len(C \o D)] = e
    BY Zenon, <1>1, <1>8, <1>9, <2>1, ConcatPop
  <2>3. /\ (A \o B) \o Front(C \o D) = Front((A \o B) \o (C \o D))
        /\ (A \o B) \o (C \o D) # <<>>
        /\ ((A \o B) \o (C \o D))[Len((A \o B) \o (C \o D))] = e
    <3>1. PICK s \in Seq(AllEntries) : s = A \o B
      BY <1>6
    <3>2. PICK t \in Seq(AllEntries) : t = C \o D
      BY <1>6
    <3> QED BY Zenon, <2>2, <3>1, <3>2, ConcatPop
  <2> QED BY <2>1, <2>2, <2>3 DEF Stack
<1>10. CASE g = "warp"
  <2>1. D = <<>> /\ Stack(q) = (A \o B) \o (Front(C) \o D) /\ C # <<>>
    BY <1>2, <1>10, GroupNames DEF Stack, Topmost, Above
  <2>2. C \o D = C /\ Front(C) \o D = Front(C)
    BY <1>1, <1>3, <1>10, <2>1, ConcatEmptySeq
  <2>3. /\ (A \o B) \o Front(C) = Front((A \o B) \o C)
        /\ (A \o B) \o C # <<>>
        /\ ((A \o B) \o C)[Len((A \o B) \o C)] = e
    <3>1. PICK s \in Seq(AllEntries) : s = A \o B
      BY <1>6
    <3> QED BY Zenon, <1>1, <1>8, <1>10, <2>1, <3>1, ConcatPop
  <2> QED BY <2>1, <2>2, <2>3 DEF Stack
<1>11. CASE g = "numpy"
  <2>1. C = <<>> /\ D = <<>> /\ Stack(q) = (A \o Front(B)) \o (C \o D) /\ B # <<>>
    BY <1>2, <1>11, GroupNames DEF Stack, Topmost, Above
  <2>2. C \o D = <<>>
    BY <1>6, <2>1, ConcatEmptySeq
  <2>3. A \o Front(B) = Front(A \o B) /\ A \o B # <<>> /\ (A \o B)[Len(A \o B)] = e
    BY Zenon, <1>1, <1>8, <1>11, <2>1, ConcatPop
  <2>4. Front(A \o B) \in Seq(AllEntries)
    BY <1>6, <2>3, FrontFacts
  <2>5. Front(A \o B) \o <<>> = Front(A \o B) /\ (A \o B) \o <<>> = A \o B
    BY <1>6, <2>4, ConcatEmptySeq
  <2> QED BY <2>1, <2>2, <2>3, <2>5 DEF Stack
<1>12. CASE g = "torch"
  <2>1. B = <<>> /\ C = <<>> /\ D = <<>> /\ Stack(q) = (Front(A) \o B) \o (C \o D) /\ A # <<>>
    BY <1>2, <1>12, GroupNames DEF Stack, Topmost, Above
  <2>2. C \o D = <<>>
    BY <1>6, <2>1, ConcatEmptySeq
  <2>3. Front(A) \in Seq(AllEntries)
    BY <1>3, <1>12
  <2>4. Front(A) \o <<>> = Front(A) /\ A \o <<>> = A
    BY <1>1, <2>3, ConcatEmptySeq
  <2> QED BY <1>8, <1>12, <2>1, <2>2, <2>4 DEF Stack
<1> QED BY <1>9, <1>10, <1>11, <1>12, GroupNames

-----------------------------------------------------------------------------
(* What a step of installing or restoring keeps                            *)

Bindings == {v \in [Attrs -> Seq(Parts)] : \A a \in Attrs : v[a] \in Callables(a)}

Records == [value : Bindings, patches : Registries, ready : [Groups -> BOOLEAN], ok : BOOLEAN]

\* The attributes that are to get their originals back.
Free == Attrs \ (overlaid \cup (Fragile \cap (WarpAttrs \cup Aliases)))

Undoable(v, p) == \A a \in Free : Chain(Stack(p), a, v[a])

\* No attribute with an entry refuses assignment.
Loose(r) == \A g \in Groups : \A k \in 1 .. Len(r.patches[g]) : r.patches[g][k].attr \notin stuck

\* What the program has bound is still there.
Keeping(r) == \A a \in Attrs : value[a][1] = Program => Ends(value[a], r.value[a])

\* f has a wrapper of session n.
Intercepting(f, n) == \E k \in 1 .. Len(f) - 1 : f[k] # Program /\ f[k].start = n

LEMMA EndsTransitive ==
    ASSUME NEW a \in Attrs, NEW f \in Callables(a), NEW g \in Callables(a), NEW h \in Callables(a),
           Ends(f, g), Ends(g, h)
    PROVE  Ends(f, h)
<1>1. Len(f) \in Nat /\ Len(g) \in Nat /\ Len(h) \in Nat
  BY CallableFacts
<1>2. Len(f) <= Len(g) /\ Len(g) <= Len(h)
  BY DEF Ends
<1>3. ASSUME NEW i \in 1 .. Len(f) PROVE h[Len(h) - Len(f) + i] = f[i]
  <2>1. PICK j \in 1 .. Len(g) : j = Len(g) - Len(f) + i
    BY <1>1, <1>2
  <2>2. g[j] = f[i]
    BY <2>1 DEF Ends
  <2>3. h[Len(h) - Len(g) + j] = g[j]
    BY DEF Ends
  <2>4. Len(h) - Len(g) + j = Len(h) - Len(f) + i
    BY <1>1, <2>1
  <2> QED BY <2>2, <2>3, <2>4
<1> QED BY <1>1, <1>2, <1>3 DEF Ends

\* The program's own layer is not taken off with a wrapper that is not its.
LEMMA EndsTail ==
    ASSUME NEW a \in Attrs, NEW f \in Callables(a), NEW h \in Callables(a), Len(h) > 1,
           Ends(f, h), f[1] # h[1]
    PROVE  Ends(f, Tail(h))
<1>1. Len(f) \in Nat \ {0} /\ Len(h) \in Nat \ {0}
  BY CallableFacts
<1>2. Len(Tail(h)) = Len(h) - 1 /\ \A k \in 1 .. Len(h) - 1 : Tail(h)[k] = h[k+1]
  BY TailFacts
<1>3. Len(f) <= Len(h) /\ \A i \in 1 .. Len(f) : h[Len(h) - Len(f) + i] = f[i]
  BY DEF Ends
<1>4. Len(f) < Len(h)
  <2>1. CASE Len(f) = Len(h)
    <3>1. 1 \in 1 .. Len(f) /\ Len(h) - Len(f) + 1 = 1
      BY <1>1, <2>1
    <3>2. h[Len(h) - Len(f) + 1] = f[1]
      BY <1>3, <3>1
    <3> QED BY <3>1, <3>2
  <2> QED BY <1>1, <1>3, <2>1
<1>5. ASSUME NEW i \in 1 .. Len(f) PROVE Tail(h)[Len(Tail(h)) - Len(f) + i] = f[i]
  <2>0. PICK n \in Nat \ {0}, m \in Nat \ {0} : n = Len(f) /\ m = Len(h)
    BY <1>1
  <2>1. PICK k \in 1 .. Len(h) - 1 : k = (Len(h) - 1) - Len(f) + i
    <3>1. i \in 1 .. n /\ n < m
      BY <1>4, <2>0
    <3>2. (m - 1) - n + i \in 1 .. m - 1
      BY <3>1
    <3> QED BY <2>0, <3>2
  <2>2. k + 1 = Len(h) - Len(f) + i
    BY <1>1, <2>1
  <2> QED BY <1>2, <1>3, <2>1, <2>2
<1> QED BY <1>1, <1>2, <1>4, <1>5 DEF Ends

LEMMA PushIntercepts ==
    ASSUME NEW a \in Attrs, NEW f \in Callables(a), NEW l \in Layer
    PROVE  /\ l # Program => Intercepting(<<l>> \o f, l.start)
           /\ \A n : Intercepting(f, n) => Intercepting(<<l>> \o f, n)
<1>1. PICK w : w = <<l>> \o f
  OBVIOUS
<1>2. /\ Len(f) \in Nat \ {0} /\ Len(w) = Len(f) + 1 /\ w[1] = l
      /\ \A k \in 2 .. Len(f) + 1 : w[k] = f[k-1]
  BY <1>1, CallableFacts, PushFacts
<1>3. ASSUME NEW n, NEW k \in 1 .. Len(f) - 1, f[k] # Program, f[k].start = n
      PROVE  Intercepting(w, n)
  <2>1. k + 1 \in 2 .. Len(f) + 1 /\ k + 1 \in 1 .. Len(w) - 1 /\ (k + 1) - 1 = k
    BY <1>2
  <2>2. w[k + 1] = f[k]
    BY <1>2, <2>1
  <2> QED BY <1>3, <2>1, <2>2 DEF Intercepting
<1>4. l # Program => Intercepting(w, l.start)
  <2>1. 1 \in 1 .. Len(w) - 1
    BY <1>2
  <2> QED BY <1>2, <2>1 DEF Intercepting
<1> QED BY <1>1, <1>3, <1>4 DEF Intercepting

\* The state with an attribute and the registries changed.
With(r, a, f, p) == [r EXCEPT !.value[a] = f, !.patches = p]

LEMMA Changed ==
    ASSUME NEW r \in Records, NEW a \in Attrs, NEW f \in Callables(a), NEW p \in Registries,
           NEW s, s = With(r, a, f, p)
    PROVE  /\ s \in Records /\ s.value = [r.value EXCEPT ![a] = f] /\ s.patches = p
           /\ s.ready = r.ready /\ (s.ok <=> r.ok)
           /\ s.value[a] = f /\ \A b \in Attrs \ {a} : s.value[b] = r.value[b]
<1>1. f \in Seq(Parts)
  BY DEF Callables
<1>2. [r.value EXCEPT ![a] = f] \in Bindings
  BY <1>1 DEF Records, Bindings
<1> QED BY <1>2 DEF Records, Bindings, With

-----------------------------------------------------------------------------
(* The recursive functions of Each and Restored                            *)

\* Induction over the numbers up to N, with the set of those that are known.
LEMMA UpTo ==
    ASSUME NEW N \in Nat, NEW T, 0 \in T,
           \A i \in 0 .. N - 1 : i \in T => i + 1 \in T
    PROVE  0 .. N \subseteq T
<1> DEFINE R == {ss \in Nat \X Nat : ss[1] < ss[2]}
           U == (0 .. N) \ T
<1>1. IsWellFoundedOn(R, Nat)
  BY NatLessThanWellFounded DEF OpToRel
<1>2. CASE U # {}
  <2>1. U \subseteq Nat
    OBVIOUS
  <2>2. \E x \in U : \A y \in U : ~ (<<y, x>> \in R)
    <3> HIDE DEF R, U
    <3> QED BY <1>1, <1>2, <2>1, WFMin
  <2>3. PICK x \in U : \A y \in U : <<y, x>> \notin R
    BY <2>2
  <2>4. x # 0 /\ x - 1 \in 0 .. N - 1 /\ x - 1 \notin T
    OBVIOUS
  <2>5. x - 1 \in U /\ <<x - 1, x>> \in R
    BY <2>4
  <2> QED BY <2>3, <2>5
<1> QED BY <1>2

Patches(F, r, g, order, n) ==
    F = [k \in 0 .. n |-> IF k = 0 THEN r ELSE Patched(F[k-1], g, order[k])]

LEMMA PatchesSteps ==
    ASSUME NEW F, NEW r, NEW g, NEW order, NEW n \in Nat, Patches(F, r, g, order, n)
    PROVE  F[0] = r /\ \A k \in 0 .. n - 1 : F[k+1] = Patched(F[k], g, order[k+1])
<1> DEFINE H(k) == IF k = 0 THEN r ELSE Patched(F[k-1], g, order[k])
<1>1. F = [k \in 0 .. n |-> H(k)]
  BY Zenon DEF Patches
<1>2. ASSUME NEW k \in 0 .. n PROVE F[k] = H(k)
  <2> HIDE DEF H
  <2> QED BY <1>1
<1>3. F[0] = r
  BY <1>2
<1>4. ASSUME NEW k \in 0 .. n - 1 PROVE F[k+1] = Patched(F[k], g, order[k+1])
  <2>1. F[k+1] = H(k+1)
    BY <1>2
  <2>2. k + 1 # 0 /\ (k + 1) - 1 = k
    OBVIOUS
  <2> QED BY <2>1, <2>2
<1> QED BY <1>3, <1>4

LEMMA PatchesExist ==
    ASSUME NEW r, NEW g, NEW order, NEW n \in Nat
    PROVE  \E F : Patches(F, r, g, order, n)
<1> DEFINE T == {i \in Nat : \E F : Patches(F, r, g, order, i)}
<1>1. 0 \in T
  <2>1. Patches([i \in 0 .. 0 |-> r], r, g, order, 0)
    BY DEF Patches
  <2> QED BY <2>1
<1>2. ASSUME NEW m \in 0 .. n - 1, m \in T PROVE m + 1 \in T
  <2>1. PICK F : Patches(F, r, g, order, m)
    BY <1>2
  <2> DEFINE x == Patched(F[m], g, order[m+1])
             G == [i \in 0 .. m + 1 |-> IF i = m + 1 THEN x ELSE F[i]]
  <2>2. \A i \in 0 .. m : G[i] = F[i]
    OBVIOUS
  <2>3. F[0] = r /\ \A i \in 0 .. m - 1 : F[i+1] = Patched(F[i], g, order[i+1])
    BY <2>1, PatchesSteps
  <2>4. G[m+1] = x
    OBVIOUS
  <2>5. DOMAIN G = 0 .. m + 1 /\ G = [i \in 0 .. m + 1 |-> G[i]]
    OBVIOUS
  <2> HIDE DEF G
  <2>6. ASSUME NEW i \in 0 .. m + 1
        PROVE  G[i] = IF i = 0 THEN r ELSE Patched(G[i-1], g, order[i])
    <3>1. CASE i = 0
      BY <2>2, <2>3, <3>1
    <3>2. CASE i = m + 1
      <4>1. G[i-1] = F[m]
        BY <2>2, <3>2
      <4> QED BY <2>4, <3>2, <4>1
    <3>3. CASE i \in 1 .. m
      <4>1. G[i] = F[i] /\ G[i-1] = F[i-1]
        BY <2>2, <3>3
      <4>2. i - 1 \in 0 .. m - 1 /\ (i - 1) + 1 = i /\ i # 0
        BY <3>3
      <4>3. F[i] = Patched(F[i-1], g, order[i])
        BY <2>3, <4>2
      <4> QED BY <4>1, <4>2, <4>3
    <3> QED BY <3>1, <3>2, <3>3
  <2>7. Patches(G, r, g, order, m + 1)
    BY <2>5, <2>6 DEF Patches
  <2> QED BY <2>7
<1> HIDE DEF T
<1>3. 0 .. n \subseteq T
  BY <1>1, <1>2, UpTo
<1> QED BY <1>3 DEF T

LEMMA EachDef ==
    ASSUME NEW r, NEW g, NEW attrs, Len(SetToSeq(attrs)) \in Nat
    PROVE  \E F : /\ Patches(F, r, g, SetToSeq(attrs), Len(SetToSeq(attrs)))
                  /\ Each(r, g, attrs) = F[Len(SetToSeq(attrs))]
<1> DEFINE F == CHOOSE f : Patches(f, r, g, SetToSeq(attrs), Len(SetToSeq(attrs)))
<1>1. Patches(F, r, g, SetToSeq(attrs), Len(SetToSeq(attrs)))
  BY PatchesExist
<1>2. Each(r, g, attrs) = F[Len(SetToSeq(attrs))]
  BY Zenon DEF Each, Patches
<1> QED BY <1>1, <1>2

LEMMA SetOrder ==
    ASSUME NEW S, IsFiniteSet(S)
    PROVE  /\ Len(SetToSeq(S)) \in Nat
           /\ \A k \in 1 .. Len(SetToSeq(S)) : SetToSeq(S)[k] \in S
           /\ \A x \in S : \E k \in 1 .. Len(SetToSeq(S)) : SetToSeq(S)[k] = x
<1> DEFINE N == Cardinality(S)
           f == SetToSeq(S)
<1>1. N \in Nat /\ ExistsBijection(1 .. N, S)
  BY FS_CardinalityType
<1>2. PICK h \in Bijection(1 .. N, S) : TRUE
  BY <1>1 DEF ExistsBijection
<1>3. h \in [1 .. N -> S] /\ IsInjective(h)
  BY <1>2 DEF Bijection, Injection, Surjection
<1>4. f \in [1 .. N -> S] /\ IsInjective(f)
  BY <1>3 DEF SetToSeq
<1> HIDE DEF f
<1>5. Len(f) = N
  BY <1>1, <1>4
<1>6. f \in Injection(1 .. N, S)
  BY <1>4 DEF Injection
<1>7. Cardinality(1 .. N) = N /\ IsFiniteSet(1 .. N)
  BY <1>1, FS_Interval
<1>8. f \in Surjection(1 .. N, S)
  BY <1>6, <1>7, FS_Injection
<1> QED BY <1>1, <1>4, <1>5, <1>8 DEF Surjection, f

\* What every step keeps, Each keeps.
LEMMA EachIn ==
    ASSUME NEW r, NEW g, NEW attrs, IsFiniteSet(attrs), NEW T, r \in T,
           \A s \in T : \A a \in attrs : Patched(s, g, a) \in T
    PROVE  Each(r, g, attrs) \in T
<1>0. PICK order : order = SetToSeq(attrs)
  OBVIOUS
<1>1. PICK n \in Nat : n = Len(order)
  BY <1>0, SetOrder
<1>2. \A k \in 1 .. n : order[k] \in attrs
  BY <1>0, <1>1, SetOrder
<1>3. PICK F : Patches(F, r, g, order, n) /\ Each(r, g, attrs) = F[n]
  BY <1>0, <1>1, EachDef
<1>4. F[0] = r /\ \A k \in 0 .. n - 1 : F[k+1] = Patched(F[k], g, order[k+1])
  BY <1>3, PatchesSteps
<1> DEFINE K == {k \in 0 .. n : F[k] \in T}
<1>5. 0 \in K
  BY <1>4
<1>6. ASSUME NEW k \in 0 .. n - 1, k \in K PROVE k + 1 \in K
  <2>1. order[k + 1] \in attrs
    BY <1>2
  <2> QED BY <1>4, <1>6, <2>1
<1>7. n \in K
  <2> HIDE DEF K
  <2>1. 0 .. n \subseteq K
    BY <1>5, <1>6, UpTo
  <2> QED BY <2>1
<1> QED BY <1>3, <1>7

\* What the step for an attribute brings about and every step keeps.
LEMMA EachReaches ==
    ASSUME NEW r, NEW g, NEW attrs, IsFiniteSet(attrs), NEW T, r \in T,
           \A s \in T : \A a \in attrs : Patched(s, g, a) \in T,
           NEW a \in attrs, NEW U, \A s \in T : Patched(s, g, a) \in U,
           \A s \in U : \A b \in attrs : Patched(s, g, b) \in U
    PROVE  Each(r, g, attrs) \in U
<1>0. PICK order : order = SetToSeq(attrs)
  OBVIOUS
<1>1. PICK n \in Nat : n = Len(order)
  BY <1>0, SetOrder
<1>2. /\ \A k \in 1 .. n : order[k] \in attrs
      /\ \E k \in 1 .. n : order[k] = a
  BY <1>0, <1>1, SetOrder
<1>3. PICK F : Patches(F, r, g, order, n) /\ Each(r, g, attrs) = F[n]
  BY <1>0, <1>1, EachDef
<1>4. F[0] = r /\ \A k \in 0 .. n - 1 : F[k+1] = Patched(F[k], g, order[k+1])
  BY <1>3, PatchesSteps
<1>5. PICK m \in 1 .. n : order[m] = a
  BY <1>2
<1> DEFINE K == {k \in 0 .. n : F[k] \in T /\ (k >= m => F[k] \in U)}
<1>6. 0 \in K
  BY <1>4
<1>7. ASSUME NEW k \in 0 .. n - 1, k \in K PROVE k + 1 \in K
  <2>1. order[k + 1] \in attrs
    BY <1>2
  <2>2. F[k + 1] \in T
    BY <1>4, <1>7, <2>1
  <2>3. ASSUME k + 1 >= m PROVE F[k + 1] \in U
    <3>1. CASE k >= m
      BY <1>4, <1>7, <2>1, <3>1
    <3>2. CASE k + 1 = m
      BY <1>4, <1>5, <1>7, <3>2
    <3> QED BY <2>3, <3>1, <3>2
  <2> QED BY <2>2, <2>3
<1>8. n \in K
  <2> HIDE DEF K
  <2>1. 0 .. n \subseteq K
    BY <1>6, <1>7, UpTo
  <2> QED BY <2>1
<1> QED BY <1>3, <1>8

Restores(F, r, g, n) ==
    F = [k \in 0 .. n |-> IF k = 0 THEN r ELSE RestoredLast(F[k-1], g)]

LEMMA RestoresSteps ==
    ASSUME NEW F, NEW r, NEW g, NEW n \in Nat, Restores(F, r, g, n)
    PROVE  F[0] = r /\ \A k \in 0 .. n - 1 : F[k+1] = RestoredLast(F[k], g)
<1> DEFINE H(k) == IF k = 0 THEN r ELSE RestoredLast(F[k-1], g)
<1>1. F = [k \in 0 .. n |-> H(k)]
  BY Zenon DEF Restores
<1>2. ASSUME NEW k \in 0 .. n PROVE F[k] = H(k)
  <2> HIDE DEF H
  <2> QED BY <1>1
<1>3. F[0] = r
  BY <1>2
<1>4. ASSUME NEW k \in 0 .. n - 1 PROVE F[k+1] = RestoredLast(F[k], g)
  <2>1. F[k+1] = H(k+1)
    BY <1>2
  <2>2. k + 1 # 0 /\ (k + 1) - 1 = k
    OBVIOUS
  <2> QED BY <2>1, <2>2
<1> QED BY <1>3, <1>4

LEMMA RestoresExist ==
    ASSUME NEW r, NEW g, NEW n \in Nat
    PROVE  \E F : Restores(F, r, g, n)
<1> DEFINE T == {i \in Nat : \E F : Restores(F, r, g, i)}
<1>1. 0 \in T
  <2>1. Restores([i \in 0 .. 0 |-> r], r, g, 0)
    BY DEF Restores
  <2> QED BY <2>1
<1>2. ASSUME NEW m \in 0 .. n - 1, m \in T PROVE m + 1 \in T
  <2>1. PICK F : Restores(F, r, g, m)
    BY <1>2
  <2> DEFINE x == RestoredLast(F[m], g)
             G == [i \in 0 .. m + 1 |-> IF i = m + 1 THEN x ELSE F[i]]
  <2>2. \A i \in 0 .. m : G[i] = F[i]
    OBVIOUS
  <2>3. F[0] = r /\ \A i \in 0 .. m - 1 : F[i+1] = RestoredLast(F[i], g)
    BY <2>1, RestoresSteps
  <2>4. G[m+1] = x
    OBVIOUS
  <2>5. DOMAIN G = 0 .. m + 1 /\ G = [i \in 0 .. m + 1 |-> G[i]]
    OBVIOUS
  <2> HIDE DEF G
  <2>6. ASSUME NEW i \in 0 .. m + 1
        PROVE  G[i] = IF i = 0 THEN r ELSE RestoredLast(G[i-1], g)
    <3>1. CASE i = 0
      BY <2>2, <2>3, <3>1
    <3>2. CASE i = m + 1
      <4>1. G[i-1] = F[m]
        BY <2>2, <3>2
      <4> QED BY <2>4, <3>2, <4>1
    <3>3. CASE i \in 1 .. m
      <4>1. G[i] = F[i] /\ G[i-1] = F[i-1]
        BY <2>2, <3>3
      <4>2. i - 1 \in 0 .. m - 1 /\ (i - 1) + 1 = i /\ i # 0
        BY <3>3
      <4>3. F[i] = RestoredLast(F[i-1], g)
        BY <2>3, <4>2
      <4> QED BY <4>1, <4>2, <4>3
    <3> QED BY <3>1, <3>2, <3>3
  <2>7. Restores(G, r, g, m + 1)
    BY <2>5, <2>6 DEF Restores
  <2> QED BY <2>7
<1> HIDE DEF T
<1>3. 0 .. n \subseteq T
  BY <1>1, <1>2, UpTo
<1> QED BY <1>3 DEF T

LEMMA RestoredDef ==
    ASSUME NEW r, NEW g, Len(r.patches[g]) \in Nat
    PROVE  \E F : /\ Restores(F, r, g, Len(r.patches[g]))
                  /\ Restored(r, g) = F[Len(r.patches[g])]
<1> DEFINE F == CHOOSE f : Restores(f, r, g, Len(r.patches[g]))
<1>1. Restores(F, r, g, Len(r.patches[g]))
  BY RestoresExist
<1>2. Restored(r, g) = F[Len(r.patches[g])]
  BY Zenon DEF Restored, Restores
<1> QED BY <1>1, <1>2

\* What every step keeps, Restored keeps; it stops early only by a refusal.
LEMMA RestoredIn ==
    ASSUME NEW r, NEW g, NEW T, r \in T,
           \A s \in T : Len(s.patches[g]) \in Nat,
           \A s \in T : s.ok /\ Len(s.patches[g]) > 0 =>
               /\ RestoredLast(s, g) \in T
               /\ RestoredLast(s, g).ok =>
                     Len(RestoredLast(s, g).patches[g]) = Len(s.patches[g]) - 1
    PROVE  /\ Restored(r, g) \in T
           /\ Restored(r, g).ok => Len(Restored(r, g).patches[g]) = 0
<1>1. PICK n \in Nat : n = Len(r.patches[g])
  OBVIOUS
<1>2. PICK F : Restores(F, r, g, n) /\ Restored(r, g) = F[n]
  BY <1>1, RestoredDef
<1>3. F[0] = r /\ \A k \in 0 .. n - 1 : F[k+1] = RestoredLast(F[k], g)
  BY <1>2, RestoresSteps
<1> DEFINE K == {k \in 0 .. n : F[k] \in T /\ (F[k].ok => Len(F[k].patches[g]) = n - k)}
<1>4. 0 \in K
  BY <1>1, <1>3
<1>5. ASSUME NEW k \in 0 .. n - 1, k \in K PROVE k + 1 \in K
  <2>1. PICK s \in T : s = F[k] /\ (s.ok => Len(s.patches[g]) = n - k)
    BY <1>5
  <2>2. F[k+1] = RestoredLast(s, g) /\ k + 1 \in 0 .. n
    BY <1>3, <2>1
  <2>3. CASE ~ s.ok
    <3>1. RestoredLast(s, g) = s
      BY <2>3 DEF RestoredLast
    <3> QED BY <2>2, <2>3, <3>1
  <2>4. CASE s.ok
    <3>1. Len(s.patches[g]) = n - k /\ n - k > 0
      BY <2>1, <2>4
    <3>2. /\ RestoredLast(s, g) \in T
          /\ RestoredLast(s, g).ok => Len(RestoredLast(s, g).patches[g]) = n - k - 1
      BY <2>4, <3>1
    <3>3. n - k - 1 = n - (k + 1)
      OBVIOUS
    <3> QED BY <2>2, <3>2, <3>3
  <2> QED BY <2>3, <2>4
<1>6. n \in K
  <2> HIDE DEF K
  <2>1. 0 .. n \subseteq K
    BY <1>4, <1>5, UpTo
  <2> QED BY <2>1
<1> QED BY <1>2, <1>6

-----------------------------------------------------------------------------
(* One entry more, one entry less                                          *)

LEMMA PatchedStep ==
    ASSUME NEW r \in Records, NEW g \in Groups, Topmost(r.patches, g), NEW a \in Attrs,
           g = "warp" => a \in WarpAttrs \cup Aliases, starts \in Nat,
           NEW s, s = Patched(r, g, a)
    PROVE  /\ s \in Records /\ s.ready = r.ready
           /\ \A h \in Groups \ {g} : s.patches[h] = r.patches[h]
           /\ s.ok => r.ok
           /\ r.ok /\ a \notin stuck => s.ok
           /\ Undoable(r.value, r.patches) => Undoable(s.value, s.patches)
           /\ Loose(r) => Loose(s)
           /\ \A b \in Attrs : Ends(r.value[b], s.value[b])
           /\ \A b \in Attrs \ {a} : s.value[b] = r.value[b]
           /\ \A b \in Attrs : \A n : Intercepting(r.value[b], n) => Intercepting(s.value[b], n)
           /\ s.ok => Intercepting(s.value[a], starts)
<1>0. \A b \in Attrs : r.value[b] \in Callables(b) /\ Ends(r.value[b], r.value[b])
  <2>1. \A b \in Attrs : r.value[b] \in Callables(b)
    BY DEF Records, Bindings
  <2>2. ASSUME NEW b \in Attrs PROVE Ends(r.value[b], r.value[b])
    <3>1. Len(r.value[b]) \in Nat
      BY <2>1, CallableFacts
    <3> QED BY <3>1 DEF Ends
  <2> QED BY <2>1, <2>2
<1>1. CASE ~ r.ok
  <2>1. s = r
    BY <1>1 DEF Patched
  <2> QED BY <1>0, <1>1, <2>1
<1>2. CASE r.ok /\ a \in stuck
  <2>1. s = [r EXCEPT !.ok = FALSE]
    BY <1>2 DEF Patched
  <2>2. s \in Records /\ s.value = r.value /\ s.patches = r.patches /\ s.ready = r.ready /\ ~ s.ok
    BY <2>1 DEF Records
  <2> QED BY <1>0, <1>2, <2>2 DEF Loose
<1>3. CASE r.ok /\ a \notin stuck
  <2> DEFINE l == [by |-> g, start |-> starts]
  <2>1. PICK f : f = r.value[a]
    OBVIOUS
  <2>2. f \in Callables(a)
    BY <1>0, <2>1
  <2>3. l \in Layer /\ l # Program /\ l.start = starts /\ l.by = g
    BY DEF Layer, Program, Groups, Defaults
  <2>4. PICK w : w = <<l>> \o f
    OBVIOUS
  <2>5. /\ w \in Callables(a) /\ Len(w) = Len(f) + 1 /\ w[1] = l
        /\ Tail(w) = f /\ Ends(f, w)
    <3> HIDE DEF l
    <3> QED BY <2>2, <2>3, <2>4, PushFacts
  <2>6. Intercepting(w, starts) /\ \A n : Intercepting(f, n) => Intercepting(w, n)
    <3> HIDE DEF l
    <3> QED BY <2>2, <2>3, <2>4, PushIntercepts
  <2>7. PICK e : e = [attr |-> a, wrapper |-> w]
    OBVIOUS
  <2>8. e \in Entries(g)
    <3>1. w \in Seq(Parts) /\ Len(w) > 1 /\ Head(w) = w[1]
      BY <2>2, <2>5, CallableFacts
    <3> HIDE DEF l
    <3> QED BY <2>3, <2>5, <2>7, <3>1 DEF Entries
  <2>9. r.patches \in Registries
    BY DEF Records
  <2>10. PICK p : p = [r.patches EXCEPT ![g] = Append(@, e)]
    OBVIOUS
  <2>11. p \in Registries /\ Stack(p) = Append(Stack(r.patches), e)
    <3> HIDE DEF l
    <3> QED BY <2>8, <2>9, <2>10, StackPush, Zenon
  <2>12. s = With(r, a, w, p)
    <3>1. s = [r EXCEPT !.value[a] = w, !.patches[g] = Append(@, e)]
      BY <1>3, <2>1, <2>4, <2>7 DEF Patched, Wrapper
    <3> QED BY <2>10, <3>1 DEF Records, With
  <2>13. /\ s \in Records /\ s.value = [r.value EXCEPT ![a] = w] /\ s.patches = p
         /\ s.ready = r.ready /\ (s.ok <=> r.ok)
         /\ s.value[a] = w /\ \A b \in Attrs \ {a} : s.value[b] = r.value[b]
    BY <2>5, <2>11, <2>12, Changed
  <2>14. \A h \in Groups \ {g} : s.patches[h] = r.patches[h]
    BY <2>9, <2>10, <2>13 DEF Registries
  <2>15. ASSUME Undoable(r.value, r.patches) PROVE Undoable(s.value, s.patches)
    <3> SUFFICES ASSUME NEW b \in Free PROVE Chain(Stack(p), b, s.value[b])
      BY <2>13 DEF Undoable
    <3>1. Chain(Stack(r.patches), b, r.value[b]) /\ b \in Attrs
      BY <2>15 DEF Undoable, Free
    <3>2. Stack(r.patches) \in Seq(AllEntries) /\ e \in AllEntries
      BY <2>8, <2>9, StackSeq, EntryFacts
    <3>3. IF b = e.attr THEN s.value[b] = e.wrapper /\ r.value[b] = Tail(s.value[b])
                        ELSE s.value[b] = r.value[b]
      <4>1. e.attr = a /\ e.wrapper = w
        BY <2>7
      <4>2. CASE b = a
        <5>1. s.value[b] = w /\ r.value[b] = f /\ Tail(w) = f
          BY <2>1, <2>5, <2>13, <4>2
        <5> QED BY <4>1, <4>2, <5>1
      <4>3. CASE b # a
        BY <2>13, <3>1, <4>1, <4>3
      <4> QED BY <4>2, <4>3
    <3> QED BY <2>11, <3>1, <3>2, <3>3, ChainPushed
  <2>16. ASSUME Loose(r) PROVE Loose(s)
    <3>1. p[g] = Append(r.patches[g], e) /\ r.patches[g] \in Seq(AllEntries) /\ e \in AllEntries
      BY <2>8, <2>9, <2>10, EntryFacts DEF Registries
    <3>2. ASSUME NEW k \in 1 .. Len(p[g]) PROVE p[g][k].attr \notin stuck
      <4>1. k \in 1 .. Len(r.patches[g]) \/ p[g][k] = e
        BY <3>1
      <4>2. k \in 1 .. Len(r.patches[g]) => p[g][k] = r.patches[g][k]
        BY <3>1
      <4> QED BY <1>3, <2>7, <2>16, <4>1, <4>2 DEF Loose
    <3> QED BY <2>13, <2>14, <2>16, <3>2 DEF Loose
  <2>17. \A b \in Attrs : Ends(r.value[b], s.value[b])
    BY <1>0, <2>1, <2>5, <2>13
  <2>18. \A b \in Attrs : \A n : Intercepting(r.value[b], n) => Intercepting(s.value[b], n)
    BY <2>1, <2>6, <2>13
  <2> QED BY <1>3, <2>6, <2>13, <2>14, <2>15, <2>16, <2>17, <2>18
<1> QED BY <1>1, <1>2, <1>3

LEMMA RestoredLastStep ==
    ASSUME NEW r \in Records, NEW g \in Groups, Topmost(r.patches, g),
           r.ok, Len(r.patches[g]) > 0, Undoable(r.value, r.patches), stuck \subseteq Fragile,
           NEW s, s = RestoredLast(r, g)
    PROVE  /\ s \in Records /\ s.ready = r.ready
           /\ \A h \in Groups \ {g} : s.patches[h] = r.patches[h]
           /\ s.ok => Len(s.patches[g]) = Len(r.patches[g]) - 1
           /\ Undoable(s.value, s.patches)
           /\ Loose(r) => Loose(s) /\ s.ok
           /\ value \in Bindings /\ Keeping(r) => Keeping(s)
<1>1. r.patches \in Registries /\ r.patches[g] \in Seq(AllEntries) /\ r.patches[g] # <<>>
  <2>1. r.patches \in Registries /\ r.patches[g] \in Seq(AllEntries)
    BY DEF Records, Registries
  <2>2. r.patches[g] # <<>>
    BY EmptySeq
  <2> QED BY <2>1, <2>2
<1>2. PICK e : e = Last(r.patches[g])
  OBVIOUS
<1>3. PICK p : p = [r.patches EXCEPT ![g] = Front(@)]
  OBVIOUS
<1>4. /\ p \in Registries /\ Stack(p) = Front(Stack(r.patches))
      /\ Stack(r.patches) # <<>> /\ Stack(r.patches)[Len(Stack(r.patches))] = e
      /\ e \in Entries(g)
  BY <1>1, <1>2, <1>3, StackPop
<1>5. /\ Len(r.patches[g]) \in Nat \ {0} /\ Len(p[g]) = Len(r.patches[g]) - 1
      /\ \A k \in 1 .. Len(r.patches[g]) - 1 : p[g][k] = r.patches[g][k]
      /\ \A h \in Groups \ {g} : p[h] = r.patches[h]
  BY <1>1, <1>3, FrontFacts DEF Registries
<1>6. /\ e.attr \in Attrs /\ Tail(e.wrapper) \in Callables(e.attr) /\ e.wrapper \in Callables(e.attr)
      /\ Len(e.wrapper) > 1 /\ e.wrapper[1] # Program
      /\ g = "warp" => e.attr \in WarpAttrs \cup Aliases
  BY <1>4, EntryFacts DEF Entries
<1>7. \A b \in Free :
         /\ b \in Attrs
         /\ b = e.attr => r.value[b] = e.wrapper /\ Chain(Stack(p), b, Tail(e.wrapper))
         /\ b # e.attr => Chain(Stack(p), b, r.value[b])
  <2>1. PICK S \in Seq(AllEntries) : S = Stack(r.patches)
    BY <1>1, StackSeq
  <2>2. PICK n \in Nat : Len(S) = n + 1
    <3>1. Len(S) \in Nat \ {0}
      BY <1>4, <2>1, EmptySeq
    <3>2. Len(S) - 1 \in Nat /\ Len(S) = (Len(S) - 1) + 1
      BY <3>1
    <3> QED BY <3>2
  <2>3. S[n + 1] = e
    BY <1>4, <2>1, <2>2
  <2> TAKE b \in Free
  <2>4. Chain(S, b, r.value[b]) /\ b \in Attrs
    BY <2>1 DEF Undoable, Free
  <2>5. /\ S[n + 1].attr = b => r.value[b] = S[n + 1].wrapper /\ Chain(Front(S), b, Tail(r.value[b]))
        /\ S[n + 1].attr # b => Chain(Front(S), b, r.value[b])
    BY <2>2, <2>4, ChainPopped
  <2> QED BY <1>4, <2>1, <2>3, <2>4, <2>5
<1>8. ASSUME s.patches = p, Loose(r) PROVE Loose(s)
  BY <1>5, <1>8 DEF Loose
<1>9. Loose(r) => e.attr \notin stuck
  <2>1. e = r.patches[g][Len(r.patches[g])] /\ Len(r.patches[g]) \in 1 .. Len(r.patches[g])
    BY <1>2, <1>5 DEF Last
  <2> QED BY <2>1 DEF Loose
<1>10. PICK d : d = [r EXCEPT !.patches = p]
  OBVIOUS
<1>11. d = [r EXCEPT !.patches[g] = Front(@)]
  BY <1>3, <1>10 DEF Records
<1>12. d \in Records /\ d.value = r.value /\ d.patches = p /\ d.ready = r.ready /\ d.ok = r.ok
  BY <1>4, <1>10 DEF Records
<1>13. CASE r.value[e.attr] # e.wrapper \/ (e.attr \in stuck /\ g = "warp")
  <2>1. s = d
    BY <1>2, <1>11, <1>13 DEF RestoredLast
  <2>2. e.attr \notin Free
    BY <1>6, <1>7, <1>13 DEF Free
  <2>3. Undoable(s.value, s.patches)
    BY <1>7, <1>12, <2>1, <2>2 DEF Undoable
  <2> QED BY <1>5, <1>8, <1>12, <2>1, <2>3 DEF Keeping
<1>14. CASE r.value[e.attr] = e.wrapper /\ e.attr \in stuck /\ g # "warp"
  <2>1. s = [r EXCEPT !.ok = FALSE]
    BY <1>2, <1>14 DEF RestoredLast
  <2>2. s \in Records /\ s.value = r.value /\ s.patches = r.patches /\ s.ready = r.ready /\ ~ s.ok
    BY <2>1 DEF Records
  <2> QED BY <1>9, <1>14, <2>2 DEF Keeping
<1>15. CASE r.value[e.attr] = e.wrapper /\ e.attr \notin stuck
  <2>0. PICK a \in Attrs : a = e.attr
    BY <1>6
  <2>1. PICK f \in Callables(a) : a = e.attr /\ f = Tail(e.wrapper)
    BY <1>6, <2>0
  <2>2. s = With(r, a, f, p)
    <3>1. s = [d EXCEPT !.value[a] = f]
      BY <1>2, <1>11, <1>15, <2>1 DEF RestoredLast
    <3> QED BY <1>10, <3>1 DEF Records, With
  <2>3. /\ s \in Records /\ s.value = [r.value EXCEPT ![a] = f] /\ s.patches = p
        /\ s.ready = r.ready /\ (s.ok <=> r.ok)
        /\ s.value[a] = f /\ \A b \in Attrs \ {a} : s.value[b] = r.value[b]
    <3>1. a \in Attrs /\ f \in Callables(a) /\ p \in Registries
      BY <1>4, <2>0, <2>1
    <3> QED BY <2>2, <3>1, Changed
  <2>4. Undoable(s.value, s.patches)
    <3> SUFFICES ASSUME NEW b \in Free PROVE Chain(Stack(p), b, s.value[b])
      BY <2>3 DEF Undoable
    <3> QED BY <1>7, <2>1, <2>3
  <2>5. ASSUME value \in Bindings, Keeping(r) PROVE Keeping(s)
    <3> SUFFICES ASSUME NEW b \in Attrs, value[b][1] = Program PROVE Ends(value[b], s.value[b])
      BY DEF Keeping
    <3>1. Ends(value[b], r.value[b]) /\ value[b] \in Callables(b)
      BY <2>5 DEF Keeping, Bindings
    <3>2. CASE b = a
      <4>1. Ends(value[b], e.wrapper) /\ value[b][1] # e.wrapper[1]
        BY <1>6, <1>15, <2>1, <3>1, <3>2
      <4>2. Ends(value[b], Tail(e.wrapper))
        BY <1>6, <2>1, <3>1, <3>2, <4>1, EndsTail
      <4> QED BY <2>1, <2>3, <3>2, <4>2
    <3> QED BY <2>3, <3>1, <3>2
  <2> QED BY <1>5, <1>8, <2>3, <2>4, <2>5
<1> QED BY <1>13, <1>14, <1>15

-----------------------------------------------------------------------------
(* A whole registry                                                        *)

LEMMA EndsSelf == \A a \in Attrs : \A f \in Callables(a) : Ends(f, f)
<1> TAKE a \in Attrs
<1> TAKE f \in Callables(a)
<1>1. Len(f) \in Nat
  BY CallableFacts
<1> QED BY <1>1 DEF Ends

LEMMA TopmostSame ==
    ASSUME NEW p, NEW q, NEW g \in Groups, \A h \in Groups \ {g} : q[h] = p[h], Topmost(p, g)
    PROVE  Topmost(q, g)
<1>1. Above(g) \subseteq Groups \ {g}
  BY GroupNames DEF Above
<1> QED BY <1>1 DEF Topmost

LEMMA EachKeeps ==
    ASSUME NEW r \in Records, NEW g \in Groups, Topmost(r.patches, g), starts \in Nat,
           Undoable(r.value, r.patches),
           NEW attrs, attrs \subseteq Attrs, g = "warp" => attrs \subseteq WarpAttrs \cup Aliases,
           NEW s, s = Each(r, g, attrs)
    PROVE  /\ s \in Records /\ s.ready = r.ready
           /\ \A h \in Groups \ {g} : s.patches[h] = r.patches[h]
           /\ s.ok => r.ok
           /\ r.ok /\ attrs \cap stuck = {} => s.ok
           /\ Undoable(s.value, s.patches)
           /\ Loose(r) => Loose(s)
           /\ \A b \in Attrs : Ends(r.value[b], s.value[b])
           /\ \A b \in Attrs \ attrs : s.value[b] = r.value[b]
           /\ \A b \in Attrs : \A n : Intercepting(r.value[b], n) => Intercepting(s.value[b], n)
           /\ s.ok => \A a \in attrs : Intercepting(s.value[a], starts)
<1> DEFINE Shape(t) == /\ t.ready = r.ready
                       /\ \A h \in Groups \ {g} : t.patches[h] = r.patches[h]
                       /\ Undoable(t.value, t.patches)
           Success(t) == /\ t.ok => r.ok
                         /\ r.ok /\ attrs \cap stuck = {} => t.ok
                         /\ Loose(r) => Loose(t)
           Values(t) == /\ \A b \in Attrs : Ends(r.value[b], t.value[b])
                        /\ \A b \in Attrs \ attrs : t.value[b] = r.value[b]
                        /\ \A b \in Attrs : \A n : Intercepting(r.value[b], n) => Intercepting(t.value[b], n)
           T == {t \in Records : Shape(t) /\ Success(t) /\ Values(t)}
<1>0. \A t \in Records : \A b \in Attrs : t.value[b] \in Callables(b)
  BY DEF Records, Bindings
<1>1. IsFiniteSet(attrs)
  BY PatchAssumption, FS_Subset
<1>2. r \in T
  <2>1. \A b \in Attrs : Ends(r.value[b], r.value[b])
    BY <1>0, EndsSelf
  <2> QED BY <2>1
<1>3. ASSUME NEW t \in T, NEW a \in attrs, NEW u, u = Patched(t, g, a)
      PROVE  /\ u \in T /\ (u.ok => Intercepting(u.value[a], starts))
             /\ \A b \in Attrs : Intercepting(t.value[b], starts) => Intercepting(u.value[b], starts)
             /\ u.ok => t.ok
  <2>1. t \in Records /\ a \in Attrs /\ Shape(t) /\ Success(t) /\ Values(t)
    OBVIOUS
  <2>2. Topmost(t.patches, g)
    BY <2>1, TopmostSame
  <2> HIDE DEF T, Shape, Success, Values
  <2>3. /\ u \in Records /\ u.ready = t.ready
        /\ \A h \in Groups \ {g} : u.patches[h] = t.patches[h]
        /\ u.ok => t.ok
        /\ t.ok /\ a \notin stuck => u.ok
        /\ Undoable(t.value, t.patches) => Undoable(u.value, u.patches)
        /\ Loose(t) => Loose(u)
        /\ \A b \in Attrs : Ends(t.value[b], u.value[b])
        /\ \A b \in Attrs \ {a} : u.value[b] = t.value[b]
        /\ \A b \in Attrs : \A n : Intercepting(t.value[b], n) => Intercepting(u.value[b], n)
        /\ u.ok => Intercepting(u.value[a], starts)
    BY <1>3, <2>1, <2>2, PatchedStep
  <2>4. Shape(u)
    BY <2>1, <2>3 DEF Shape
  <2>5. Success(u)
    BY <2>1, <2>3 DEF Success
  <2>6. Values(u)
    <3>1. ASSUME NEW b \in Attrs PROVE Ends(r.value[b], u.value[b])
      <4>1. Ends(r.value[b], t.value[b]) /\ Ends(t.value[b], u.value[b])
        BY <2>1, <2>3 DEF Values
      <4>2. r.value[b] \in Callables(b) /\ t.value[b] \in Callables(b) /\ u.value[b] \in Callables(b)
        BY <1>0, <2>1, <2>3
      <4> QED BY <4>1, <4>2, EndsTransitive
    <3> QED BY <2>1, <2>3, <3>1 DEF Values
  <2> QED BY <2>1, <2>3, <2>4, <2>5, <2>6 DEF T
<1>4. \A t \in T : \A a \in attrs : Patched(t, g, a) \in T
  BY <1>3
<1>5. s \in T
  <2> HIDE DEF T
  <2> QED BY <1>1, <1>2, <1>4, EachIn
<1>6. ASSUME NEW a \in attrs, s.ok PROVE Intercepting(s.value[a], starts)
  <2> DEFINE U == {t \in T : t.ok => Intercepting(t.value[a], starts)}
  <2>1. \A t \in T : Patched(t, g, a) \in U
    BY <1>3
  <2>2. ASSUME NEW t \in U, NEW b \in attrs PROVE Patched(t, g, b) \in U
    <3>1. PICK u : u = Patched(t, g, b)
      OBVIOUS
    <3>2. t \in T /\ (t.ok => Intercepting(t.value[a], starts)) /\ a \in Attrs
      OBVIOUS
    <3> HIDE DEF T, U
    <3>3. /\ u \in T /\ (u.ok => t.ok)
          /\ Intercepting(t.value[a], starts) => Intercepting(u.value[a], starts)
      BY <1>3, <3>1, <3>2
    <3> QED BY <3>1, <3>2, <3>3 DEF U
  <2>3. \A t \in U : \A b \in attrs : Patched(t, g, b) \in U
    BY <2>2
  <2>4. s \in U
    <3> HIDE DEF T, U
    <3> QED BY <1>1, <1>2, <1>4, <2>1, <2>3, EachReaches, Zenon
  <2> QED BY <1>6, <2>4
<1> QED BY <1>5, <1>6

LEMMA RestoredKeeps ==
    ASSUME NEW r \in Records, NEW g \in Groups, Topmost(r.patches, g), stuck \subseteq Fragile,
           Undoable(r.value, r.patches),
           NEW s, s = Restored(r, g)
    PROVE  /\ s \in Records /\ s.ready = r.ready
           /\ \A h \in Groups \ {g} : s.patches[h] = r.patches[h]
           /\ s.ok => r.ok /\ s.patches[g] = <<>>
           /\ Undoable(s.value, s.patches)
           /\ Loose(r) /\ r.ok => Loose(s) /\ s.ok
           /\ value \in Bindings /\ Keeping(r) => Keeping(s)
<1> DEFINE Shape(t) == /\ t.ready = r.ready
                       /\ \A h \in Groups \ {g} : t.patches[h] = r.patches[h]
                       /\ Undoable(t.value, t.patches)
           Success(t) == /\ t.ok => r.ok
                         /\ Loose(r) /\ r.ok => Loose(t) /\ t.ok
                         /\ value \in Bindings /\ Keeping(r) => Keeping(t)
           T == {t \in Records : Shape(t) /\ Success(t)}
<1>1. r \in T
  OBVIOUS
<1>2. \A t \in T : Len(t.patches[g]) \in Nat
  BY DEF Records, Registries
<1>3. ASSUME NEW t \in T, t.ok, Len(t.patches[g]) > 0, NEW u, u = RestoredLast(t, g)
      PROVE  u \in T /\ (u.ok => Len(u.patches[g]) = Len(t.patches[g]) - 1)
  <2>1. t \in Records /\ Shape(t) /\ Success(t)
    OBVIOUS
  <2>2. Topmost(t.patches, g) /\ Undoable(t.value, t.patches)
    BY <2>1, TopmostSame
  <2> HIDE DEF T, Shape, Success
  <2>3. /\ u \in Records /\ u.ready = t.ready
        /\ \A h \in Groups \ {g} : u.patches[h] = t.patches[h]
        /\ u.ok => Len(u.patches[g]) = Len(t.patches[g]) - 1
        /\ Undoable(u.value, u.patches)
        /\ Loose(t) => Loose(u) /\ u.ok
        /\ value \in Bindings /\ Keeping(t) => Keeping(u)
    BY <1>3, <2>1, <2>2, RestoredLastStep
  <2>4. Shape(u)
    BY <2>1, <2>3 DEF Shape
  <2>5. Success(u)
    BY <1>3, <2>1, <2>3 DEF Success
  <2> QED BY <2>3, <2>4, <2>5 DEF T
<1>4. s \in T /\ (s.ok => Len(s.patches[g]) = 0)
  <2>1. \A t \in T : t.ok /\ Len(t.patches[g]) > 0 =>
            /\ RestoredLast(t, g) \in T
            /\ RestoredLast(t, g).ok => Len(RestoredLast(t, g).patches[g]) = Len(t.patches[g]) - 1
    BY <1>3
  <2> HIDE DEF T
  <2> QED BY <1>1, <1>2, <2>1, RestoredIn
<1>5. s.ok => s.patches[g] = <<>>
  <2>1. s.patches[g] \in Seq(AllEntries)
    BY <1>4 DEF Records, Registries
  <2> QED BY <1>4, <2>1, EmptySeq
<1> QED BY <1>4, <1>5

-----------------------------------------------------------------------------
(* The backends                                                            *)

\* A backend that is not installed has nothing to restore.
Accounted(r) == /\ \A g \in Defaults : r.ready[g] \/ r.patches[g] = <<>>
                /\ ~ r.ready["user"]

\* Nothing is installed.
Blank(r) == \A g \in Groups : r.patches[g] = <<>> /\ ~ r.ready[g]

LEMMA UninstalledKeeps ==
    ASSUME NEW r \in Records, NEW g \in Defaults, r.ok => Topmost(r.patches, g),
           stuck \subseteq Fragile, Undoable(r.value, r.patches), Accounted(r),
           NEW s, s = Uninstalled(r, g)
    PROVE  /\ s \in Records /\ Accounted(s)
           /\ \A h \in Groups \ {g} : s.patches[h] = r.patches[h] /\ (s.ready[h] <=> r.ready[h])
           /\ s.ok => r.ok /\ s.patches[g] = <<>> /\ ~ s.ready[g]
           /\ Undoable(s.value, s.patches)
           /\ Loose(r) /\ r.ok => Loose(s) /\ s.ok
           /\ value \in Bindings /\ Keeping(r) => Keeping(s)
<1>1. CASE ~ r.ready[g] \/ ~ r.ok
  BY <1>1 DEF Uninstalled, Accounted
<1>2. CASE r.ready[g] /\ r.ok
  <2>1. PICK t : t = Restored(r, g)
    OBVIOUS
  <2>2. g \in Groups /\ g # "user"
    BY GroupNames DEF Groups, Defaults
  <2>3. /\ t \in Records /\ t.ready = r.ready
        /\ \A h \in Groups \ {g} : t.patches[h] = r.patches[h]
        /\ t.ok => r.ok /\ t.patches[g] = <<>>
        /\ Undoable(t.value, t.patches)
        /\ Loose(r) /\ r.ok => Loose(t) /\ t.ok
        /\ value \in Bindings /\ Keeping(r) => Keeping(t)
    BY <1>2, <2>1, <2>2, RestoredKeeps
  <2>4. s = [t EXCEPT !.ready[g] = ~ t.ok]
    BY <1>2, <2>1 DEF Uninstalled
  <2>5. /\ s \in Records /\ s.value = t.value /\ s.patches = t.patches /\ (s.ok <=> t.ok)
        /\ (s.ready[g] <=> ~ t.ok)
        /\ \A h \in Groups \ {g} : s.ready[h] <=> r.ready[h]
    <3>1. PICK b \in BOOLEAN : b = ~ t.ok
      OBVIOUS
    <3>2. PICK q \in [Groups -> BOOLEAN] : q = [t.ready EXCEPT ![g] = b]
      BY <2>3 DEF Records
    <3>3. (q[g] <=> ~ t.ok) /\ \A h \in Groups \ {g} : q[h] = r.ready[h]
      BY <2>2, <2>3, <3>1, <3>2 DEF Records
    <3>4. s = [t EXCEPT !.ready = q]
      BY <2>4, <3>1, <3>2
    <3>5. /\ s \in Records /\ s.value = t.value /\ s.patches = t.patches /\ (s.ok <=> t.ok)
          /\ s.ready = q
      BY <2>3, <3>4 DEF Records
    <3> QED BY <3>3, <3>5
  <2>6. Accounted(s)
    BY <2>2, <2>3, <2>5 DEF Accounted, Groups
  <2> QED BY <2>3, <2>5, <2>6 DEF Loose, Keeping
<1> QED BY <1>1, <1>2

LEMMA UninstallAllKeeps ==
    ASSUME NEW r \in Records, stuck \subseteq Fragile, Undoable(r.value, r.patches), Accounted(r),
           NEW s, s = UninstallAll(r)
    PROVE  /\ s \in Records /\ Accounted(s)
           /\ s.ok => Blank(s)
           /\ Undoable(s.value, s.patches)
           /\ Loose(r) /\ r.ok => s.ok
           /\ value \in Bindings /\ Keeping(r) => Keeping(s)
<1>1. PICK u : u = Restored(r, "user")
  OBVIOUS
<1>2. PICK w : w = Uninstalled(u, "warp")
  OBVIOUS
<1>3. PICK n : n = Uninstalled(w, "numpy")
  OBVIOUS
<1>4. s = Uninstalled(n, "torch")
  BY <1>1, <1>2, <1>3 DEF UninstallAll
<1>5. /\ u \in Records /\ u.ready = r.ready
      /\ \A h \in Groups \ {"user"} : u.patches[h] = r.patches[h]
      /\ u.ok => u.patches["user"] = <<>>
      /\ Undoable(u.value, u.patches)
      /\ Loose(r) /\ r.ok => Loose(u) /\ u.ok
      /\ value \in Bindings /\ Keeping(r) => Keeping(u)
  <2>1. Topmost(r.patches, "user")
    BY DEF Topmost, Above
  <2> QED BY <1>1, <2>1, GroupNames, RestoredKeeps
<1>6. Accounted(u)
  BY <1>5 DEF Accounted, Defaults, Groups
<1>7. /\ w \in Records /\ Accounted(w)
      /\ \A h \in Groups \ {"warp"} : w.patches[h] = u.patches[h] /\ (w.ready[h] <=> u.ready[h])
      /\ w.ok => u.ok /\ w.patches["warp"] = <<>> /\ ~ w.ready["warp"]
      /\ Undoable(w.value, w.patches)
      /\ Loose(u) /\ u.ok => Loose(w) /\ w.ok
      /\ value \in Bindings /\ Keeping(u) => Keeping(w)
  <2>1. u.ok => Topmost(u.patches, "warp")
    BY <1>5 DEF Topmost, Above
  <2> QED BY <1>2, <1>5, <1>6, <2>1, UninstalledKeeps DEF Defaults
<1>8. /\ n \in Records /\ Accounted(n)
      /\ \A h \in Groups \ {"numpy"} : n.patches[h] = w.patches[h] /\ (n.ready[h] <=> w.ready[h])
      /\ n.ok => w.ok /\ n.patches["numpy"] = <<>> /\ ~ n.ready["numpy"]
      /\ Undoable(n.value, n.patches)
      /\ Loose(w) /\ w.ok => Loose(n) /\ n.ok
      /\ value \in Bindings /\ Keeping(w) => Keeping(n)
  <2>1. w.ok => Topmost(w.patches, "numpy")
    BY <1>5, <1>7, GroupNames DEF Topmost, Above
  <2> QED BY <1>3, <1>7, <2>1, UninstalledKeeps DEF Defaults
<1>9. /\ s \in Records /\ Accounted(s)
      /\ \A h \in Groups \ {"torch"} : s.patches[h] = n.patches[h] /\ (s.ready[h] <=> n.ready[h])
      /\ s.ok => n.ok /\ s.patches["torch"] = <<>> /\ ~ s.ready["torch"]
      /\ Undoable(s.value, s.patches)
      /\ Loose(n) /\ n.ok => Loose(s) /\ s.ok
      /\ value \in Bindings /\ Keeping(n) => Keeping(s)
  <2>1. n.ok => Topmost(n.patches, "torch")
    BY <1>5, <1>7, <1>8, GroupNames DEF Topmost, Above
  <2> QED BY <1>4, <1>8, <2>1, UninstalledKeeps DEF Defaults
<1>10. ASSUME s.ok PROVE Blank(s)
  <2>1. n.ok /\ w.ok /\ u.ok
    BY <1>7, <1>8, <1>9, <1>10
  <2>2. s.patches["torch"] = <<>> /\ ~ s.ready["torch"]
    BY <1>9, <1>10
  <2>3. s.patches["numpy"] = <<>> /\ ~ s.ready["numpy"]
    BY <1>8, <1>9, <2>1, GroupNames
  <2>4. s.patches["warp"] = <<>> /\ ~ s.ready["warp"]
    BY <1>7, <1>8, <1>9, <2>1, GroupNames
  <2>5. s.patches["user"] = <<>> /\ ~ s.ready["user"]
    BY <1>5, <1>7, <1>8, <1>9, <2>1, GroupNames DEF Accounted
  <2> QED BY <2>2, <2>3, <2>4, <2>5, GroupNames DEF Blank
<1> QED BY <1>5, <1>7, <1>8, <1>9, <1>10

LEMMA KeepingGrown ==
    ASSUME NEW r \in Records, NEW s \in Records, value \in Bindings, Keeping(r),
           \A b \in Attrs : Ends(r.value[b], s.value[b])
    PROVE  Keeping(s)
<1> SUFFICES ASSUME NEW b \in Attrs, value[b][1] = Program PROVE Ends(value[b], s.value[b])
  BY DEF Keeping
<1>1. Ends(value[b], r.value[b]) /\ Ends(r.value[b], s.value[b])
  BY DEF Keeping
<1>2. value[b] \in Callables(b) /\ r.value[b] \in Callables(b) /\ s.value[b] \in Callables(b)
  BY DEF Records, Bindings
<1> QED BY <1>1, <1>2, EndsTransitive

\* What s intercepts more than r.
Grown(r, s) == \A b \in Attrs : \A n : Intercepting(r.value[b], n) => Intercepting(s.value[b], n)

LEMMA InstallFunctionsKeeps ==
    ASSUME NEW r \in Records, NEW g \in Defaults, g # "warp", Topmost(r.patches, g),
           starts \in Nat, stuck \subseteq Fragile, Undoable(r.value, r.patches), Accounted(r),
           Loose(r), NEW attrs, attrs \subseteq Attrs,
           NEW s, s = InstallFunctions(r, g, attrs)
    PROVE  /\ s \in Records /\ Accounted(s) /\ Loose(s)
           /\ \A h \in Groups \ {g} : s.patches[h] = r.patches[h] /\ (s.ready[h] <=> r.ready[h])
           /\ Undoable(s.value, s.patches)
           /\ s.ok => /\ r.ok /\ Grown(r, s)
                      /\ \A b \in Attrs \ attrs : s.value[b] = r.value[b]
                      /\ ~ r.ready[g] => \A a \in attrs : Intercepting(s.value[a], starts)
           /\ value \in Bindings /\ Keeping(r) => Keeping(s)
<1>1. CASE r.ready[g] \/ ~ r.ok
  BY <1>1 DEF InstallFunctions, Grown
<1>2. CASE ~ (r.ready[g] \/ ~ r.ok)
  <2>1. PICK t : t = Each(r, g, attrs)
    OBVIOUS
  <2>2. g \in Groups /\ g \in Defaults /\ g # "user" /\ g # "warp"
    BY DEF Groups, Defaults
  <2>20. g = "warp" => attrs \subseteq WarpAttrs \cup Aliases
    BY <2>2
  <2>3. /\ t \in Records /\ t.ready = r.ready
        /\ \A h \in Groups \ {g} : t.patches[h] = r.patches[h]
        /\ t.ok => r.ok
        /\ Undoable(t.value, t.patches)
        /\ Loose(t)
        /\ \A b \in Attrs : Ends(r.value[b], t.value[b])
        /\ \A b \in Attrs \ attrs : t.value[b] = r.value[b]
        /\ \A b \in Attrs : \A n : Intercepting(r.value[b], n) => Intercepting(t.value[b], n)
        /\ t.ok => \A a \in attrs : Intercepting(t.value[a], starts)
    BY <2>1, <2>2, <2>20, EachKeeps
  <2>4. value \in Bindings /\ Keeping(r) => Keeping(t)
    BY <2>3, KeepingGrown
  <2>5. CASE t.ok
    <3>1. s = [t EXCEPT !.ready[g] = TRUE]
      BY <1>2, <2>1, <2>5 DEF InstallFunctions
    <3>2. PICK q \in [Groups -> BOOLEAN] : q = [t.ready EXCEPT ![g] = TRUE]
      BY <2>3 DEF Records
    <3>3. q[g] /\ \A h \in Groups \ {g} : q[h] = r.ready[h]
      BY <2>2, <2>3, <3>2 DEF Records
    <3>4. s = [t EXCEPT !.ready = q]
      BY <3>1, <3>2
    <3>5. /\ s \in Records /\ s.value = t.value /\ s.patches = t.patches /\ (s.ok <=> t.ok)
          /\ s.ready = q
      BY <2>3, <3>4 DEF Records
    <3>6. Accounted(s)
      BY <2>2, <2>3, <3>3, <3>5 DEF Accounted, Groups
    <3> QED BY <1>2, <2>3, <2>4, <2>5, <3>3, <3>5, <3>6 DEF Loose, Keeping, Grown
  <2>6. CASE ~ t.ok
    <3>1. PICK v : v = [t EXCEPT !.ok = TRUE]
      OBVIOUS
    <3>2. PICK u : u = Restored(v, g)
      OBVIOUS
    <3>3. s = [u EXCEPT !.ok = FALSE]
      BY <1>2, <2>1, <2>6, <3>1, <3>2 DEF InstallFunctions
    <3>4. /\ v \in Records /\ v.ok /\ v.value = t.value /\ v.patches = t.patches
          /\ v.ready = t.ready
      BY <2>3, <3>1 DEF Records
    <3>5. Topmost(v.patches, g) /\ Undoable(v.value, v.patches) /\ Loose(v)
          /\ (value \in Bindings /\ Keeping(r) => Keeping(v))
      BY <2>2, <2>3, <2>4, <3>4, TopmostSame DEF Loose, Keeping
    <3>6. /\ u \in Records /\ u.ready = v.ready
          /\ \A h \in Groups \ {g} : u.patches[h] = v.patches[h]
          /\ u.patches[g] = <<>> /\ Loose(u)
          /\ Undoable(u.value, u.patches)
          /\ value \in Bindings /\ Keeping(v) => Keeping(u)
      BY <2>2, <3>2, <3>4, <3>5, RestoredKeeps
    <3>7. /\ s \in Records /\ s.value = u.value /\ s.patches = u.patches /\ ~ s.ok
          /\ s.ready = u.ready
      BY <3>3, <3>6 DEF Records
    <3>8. Accounted(s)
      BY <2>2, <2>3, <3>4, <3>6, <3>7 DEF Accounted, Groups
    <3> QED BY <2>3, <3>4, <3>5, <3>6, <3>7, <3>8 DEF Loose, Keeping
  <2> QED BY <2>5, <2>6
<1> QED BY <1>1, <1>2

LEMMA InstallWarpKeeps ==
    ASSUME NEW r \in Records, Topmost(r.patches, "warp"),
           starts \in Nat, stuck \subseteq Fragile, Undoable(r.value, r.patches), Accounted(r),
           Loose(r), NEW warp \in WarpInstalls, NEW s, s = InstallWarp(r, warp)
    PROVE  /\ s \in Records /\ Accounted(s) /\ Loose(s)
           /\ \A h \in Groups \ {"warp"} : s.patches[h] = r.patches[h] /\ (s.ready[h] <=> r.ready[h])
           /\ Undoable(s.value, s.patches)
           /\ s.ok => /\ r.ok /\ Grown(r, s)
                      /\ warp = "installs" =>
                            \A a \in OwnCallables(r) : Intercepting(s.value[a], starts)
           /\ value \in Bindings /\ Keeping(r) => Keeping(s)
<1>1. CASE warp = "absent" \/ ~ r.ok
  BY <1>1 DEF InstallWarp, Grown
<1>2. CASE ~ (warp = "absent" \/ ~ r.ok)
  <2>1. PICK t : t = Each(r, "warp", OwnCallables(r))
    OBVIOUS
  <2>2. PICK u : u = Each(t, "warp", LoadedAliases(r))
    OBVIOUS
  <2>3. warp = "installs" => s = [u EXCEPT !.ready["warp"] = TRUE]
    BY <1>2, <2>1, <2>2 DEF InstallWarp
  <2>4. /\ OwnCallables(r) \subseteq WarpAttrs \cup Aliases
        /\ LoadedAliases(r) \subseteq WarpAttrs \cup Aliases
        /\ WarpAttrs \cup Aliases \subseteq Attrs
    BY DEF OwnCallables, LoadedAliases, Attrs
  <2>5. "warp" \in Groups /\ "warp" \in Defaults /\ "user" # "warp"
    BY DEF Groups, Defaults
  <2>6. /\ t \in Records /\ t.ready = r.ready
        /\ \A h \in Groups \ {"warp"} : t.patches[h] = r.patches[h]
        /\ t.ok => r.ok
        /\ Undoable(t.value, t.patches)
        /\ Loose(t)
        /\ \A b \in Attrs : Ends(r.value[b], t.value[b])
        /\ \A b \in Attrs : \A n : Intercepting(r.value[b], n) => Intercepting(t.value[b], n)
        /\ t.ok => \A a \in OwnCallables(r) : Intercepting(t.value[a], starts)
    BY <2>1, <2>4, <2>5, EachKeeps
  <2>7. Topmost(t.patches, "warp")
    BY <2>5, <2>6, TopmostSame
  <2>8. /\ u \in Records /\ u.ready = t.ready
        /\ \A h \in Groups \ {"warp"} : u.patches[h] = t.patches[h]
        /\ u.ok => t.ok
        /\ Undoable(u.value, u.patches)
        /\ Loose(u)
        /\ \A b \in Attrs : Ends(t.value[b], u.value[b])
        /\ \A b \in Attrs : \A n : Intercepting(t.value[b], n) => Intercepting(u.value[b], n)
    BY <2>2, <2>4, <2>5, <2>6, <2>7, EachKeeps
  <2>9. value \in Bindings /\ Keeping(r) => Keeping(u)
    BY <2>6, <2>8, KeepingGrown
  <2>10. CASE warp = "installs"
    <3>1. PICK q \in [Groups -> BOOLEAN] : q = [u.ready EXCEPT !["warp"] = TRUE]
      BY <2>8 DEF Records
    <3>2. q["warp"] /\ \A h \in Groups \ {"warp"} : q[h] = r.ready[h]
      BY <2>5, <2>6, <2>8, <3>1 DEF Records
    <3>3. s = [u EXCEPT !.ready = q]
      BY <2>3, <2>10, <3>1
    <3>4. /\ s \in Records /\ s.value = u.value /\ s.patches = u.patches /\ (s.ok <=> u.ok)
          /\ s.ready = q
      BY <2>8, <3>3 DEF Records
    <3>5. Accounted(s)
      BY <2>5, <2>6, <2>8, <3>2, <3>4 DEF Accounted, Groups
    <3>6. s.ok => \A a \in OwnCallables(r) : Intercepting(s.value[a], starts)
      BY <2>4, <2>6, <2>8, <3>4
    <3> QED BY <1>2, <2>6, <2>8, <2>9, <3>2, <3>4, <3>5, <3>6 DEF Loose, Keeping, Grown
  <2>11. CASE warp # "installs"
    <3>1. PICK v : v = [t EXCEPT !.ok = TRUE]
      OBVIOUS
    <3>2. PICK w : w = Restored(v, "warp")
      OBVIOUS
    <3>3. s = [w EXCEPT !.ok = FALSE]
      BY <1>2, <2>1, <2>11, <3>1, <3>2 DEF InstallWarp
    <3>4. /\ v \in Records /\ v.ok /\ v.value = t.value /\ v.patches = t.patches
          /\ v.ready = t.ready
      BY <2>6, <3>1 DEF Records
    <3>5. value \in Bindings /\ Keeping(r) => Keeping(t)
      BY <2>6, KeepingGrown
    <3>6. Topmost(v.patches, "warp") /\ Undoable(v.value, v.patches) /\ Loose(v)
          /\ (value \in Bindings /\ Keeping(r) => Keeping(v))
      BY <2>6, <2>7, <3>4, <3>5 DEF Loose, Keeping
    <3>7. /\ w \in Records /\ w.ready = v.ready
          /\ \A h \in Groups \ {"warp"} : w.patches[h] = v.patches[h]
          /\ w.patches["warp"] = <<>> /\ Loose(w)
          /\ Undoable(w.value, w.patches)
          /\ value \in Bindings /\ Keeping(v) => Keeping(w)
      BY <2>5, <3>2, <3>4, <3>6, RestoredKeeps
    <3>8. /\ s \in Records /\ s.value = w.value /\ s.patches = w.patches /\ ~ s.ok
          /\ s.ready = w.ready
      BY <3>3, <3>7 DEF Records
    <3>9. Accounted(s)
      BY <2>5, <2>6, <3>4, <3>7, <3>8 DEF Accounted, Groups
    <3> QED BY <2>6, <3>4, <3>6, <3>7, <3>8, <3>9 DEF Loose, Keeping
  <2> QED BY <2>10, <2>11
<1> QED BY <1>1, <1>2

LEMMA InstallAllKeeps ==
    ASSUME State \in Records, Blank(State), starts \in Nat, stuck \subseteq Fragile,
           Undoable(value, patches), NEW users, users \subseteq Attrs, NEW warp \in WarpInstalls,
           NEW s, s = InstallAll(users, warp)
    PROVE  /\ s \in Records /\ Accounted(s) /\ Loose(s) /\ Keeping(s)
           /\ Undoable(s.value, s.patches)
           /\ s.ok => \A a \in Targets(users, warp) \ (Fragile \cap WarpAttrs) :
                         Intercepting(s.value[a], starts)
<1>1. PICK z : z = State
  OBVIOUS
<1>2. z \in Records /\ z.value = value /\ z.patches = patches /\ z.ready = ready /\ z.ok
  BY <1>1 DEF State
<1>3. \A h \in Groups : z.patches[h] = <<>> /\ ~ z.ready[h]
  BY <1>1 DEF Blank
<1>4. value \in Bindings
  BY <1>2 DEF Records
<1>5. [z EXCEPT !.patches["warp"] = <<>>, !.ready["warp"] = FALSE] = z
  <2>1. z.patches \in [Groups -> Seq(AllEntries)] /\ z.ready \in [Groups -> BOOLEAN]
    BY <1>2 DEF Records, Registries
  <2>2. "warp" \in Groups
    BY GroupNames
  <2>3. [z.patches EXCEPT !["warp"] = <<>>] = z.patches
    BY <1>3, <2>1, <2>2
  <2>4. z.ready["warp"] = FALSE
    BY <1>3, <2>1, <2>2
  <2>5. [z.ready EXCEPT !["warp"] = FALSE] = z.ready
    BY <2>1, <2>2, <2>4
  <2>6. [z EXCEPT !.patches = z.patches, !.ready = z.ready] = z
    BY <1>2 DEF Records
  <2>7. [z EXCEPT !.patches["warp"] = <<>>, !.ready["warp"] = FALSE]
          = [z EXCEPT !.patches = [z.patches EXCEPT !["warp"] = <<>>],
                      !.ready = [z.ready EXCEPT !["warp"] = FALSE]]
    BY <1>2 DEF Records
  <2> QED BY <2>3, <2>5, <2>6, <2>7
<1>6. PICK t : t = InstallFunctions(z, "torch", TorchAttrs)
  OBVIOUS
<1>7. PICK n : n = InstallFunctions(t, "numpy", NumpyAttrs)
  OBVIOUS
<1>8. PICK w : w = InstallWarp(n, warp)
  OBVIOUS
<1>9. s = Each(w, "user", users)
  BY <1>1, <1>5, <1>6, <1>7, <1>8 DEF InstallAll
<1>10. Accounted(z) /\ Loose(z) /\ Keeping(z)
  <2>1. Accounted(z)
    BY <1>3, GroupNames DEF Accounted, Groups
  <2>2. Loose(z)
    BY <1>3 DEF Loose
  <2>3. \A b \in Attrs : value[b] \in Callables(b)
    BY <1>4 DEF Bindings
  <2>4. Keeping(z)
    BY <1>2, <2>3, EndsSelf DEF Keeping
  <2> QED BY <2>1, <2>2, <2>4
<1>11. /\ t \in Records /\ Accounted(t) /\ Loose(t)
       /\ \A h \in Groups \ {"torch"} : t.patches[h] = z.patches[h] /\ (t.ready[h] <=> z.ready[h])
       /\ Undoable(t.value, t.patches)
       /\ t.ok => /\ \A b \in Attrs \ TorchAttrs : t.value[b] = z.value[b]
                  /\ \A a \in TorchAttrs : Intercepting(t.value[a], starts)
       /\ Keeping(t)
  <2>1. Topmost(z.patches, "torch")
    BY <1>3, GroupNames DEF Topmost, Above
  <2>2. "torch" \in Defaults /\ "torch" # "warp" /\ TorchAttrs \subseteq Attrs
    BY DEF Defaults, Attrs
  <2>3. Undoable(z.value, z.patches) /\ ~ z.ready["torch"]
    BY <1>2, <1>3, GroupNames
  <2> QED BY <1>2, <1>4, <1>6, <1>10, <2>1, <2>2, <2>3, InstallFunctionsKeeps
<1>12. /\ n \in Records /\ Accounted(n) /\ Loose(n)
       /\ \A h \in Groups \ {"numpy"} : n.patches[h] = t.patches[h] /\ (n.ready[h] <=> t.ready[h])
       /\ Undoable(n.value, n.patches)
       /\ n.ok => /\ t.ok /\ Grown(t, n)
                  /\ \A b \in Attrs \ NumpyAttrs : n.value[b] = t.value[b]
                  /\ \A a \in NumpyAttrs : Intercepting(n.value[a], starts)
       /\ Keeping(n)
  <2>1. Topmost(t.patches, "numpy")
    BY <1>3, <1>11, GroupNames DEF Topmost, Above
  <2>2. "numpy" \in Defaults /\ "numpy" # "warp" /\ NumpyAttrs \subseteq Attrs
    BY DEF Defaults, Attrs
  <2>3. ~ t.ready["numpy"]
    BY <1>3, <1>11, GroupNames
  <2> QED BY <1>4, <1>7, <1>11, <2>1, <2>2, <2>3, InstallFunctionsKeeps
<1>13. /\ w \in Records /\ Accounted(w) /\ Loose(w)
       /\ w.patches["user"] = <<>>
       /\ Undoable(w.value, w.patches)
       /\ w.ok => /\ n.ok /\ Grown(n, w)
                  /\ warp = "installs" =>
                        \A a \in OwnCallables(n) : Intercepting(w.value[a], starts)
       /\ Keeping(w)
  <2>1. n.patches["user"] = <<>>
    BY <1>3, <1>11, <1>12, GroupNames
  <2>2. Topmost(n.patches, "warp")
    BY <2>1 DEF Topmost, Above
  <2>3. "user" \in Groups \ {"warp"}
    BY GroupNames
  <2> QED BY <1>4, <1>8, <1>12, <2>1, <2>2, <2>3, InstallWarpKeeps
<1>14. /\ s \in Records /\ s.ready = w.ready
       /\ \A h \in Groups \ {"user"} : s.patches[h] = w.patches[h]
       /\ s.ok => w.ok
       /\ Undoable(s.value, s.patches)
       /\ Loose(s)
       /\ \A b \in Attrs : Ends(w.value[b], s.value[b])
       /\ Grown(w, s)
       /\ s.ok => \A a \in users : Intercepting(s.value[a], starts)
  <2>1. Topmost(w.patches, "user") /\ "user" \in Groups /\ "user" # "warp"
    BY GroupNames DEF Topmost, Above
  <2> QED BY <1>9, <1>13, <2>1, EachKeeps DEF Grown
<1>15. Keeping(s)
  BY <1>4, <1>13, <1>14, KeepingGrown
<1>16. Accounted(s)
  BY <1>13, <1>14 DEF Accounted, Defaults, Groups
<1>17. ASSUME s.ok, NEW a \in Targets(users, warp) \ (Fragile \cap WarpAttrs)
       PROVE  Intercepting(s.value[a], starts)
  <2>1. s.ok /\ w.ok /\ n.ok /\ t.ok /\ Grown(t, n) /\ Grown(n, w) /\ Grown(w, s)
    BY <1>12, <1>13, <1>14, <1>17
  <2>2. TorchAttrs \subseteq Attrs /\ NumpyAttrs \subseteq Attrs /\ WarpAttrs \subseteq Attrs
    BY DEF Attrs
  <2>3. CASE a \in users
    BY <1>14, <2>1, <2>3
  <2>4. CASE a \in TorchAttrs
    <3>1. Intercepting(t.value[a], starts)
      BY <1>11, <2>1, <2>4
    <3> QED BY <2>1, <2>2, <2>4, <3>1 DEF Grown
  <2>5. CASE a \in NumpyAttrs
    <3>1. Intercepting(n.value[a], starts)
      BY <1>12, <2>1, <2>5
    <3> QED BY <2>1, <2>2, <2>5, <3>1 DEF Grown
  <2>6. CASE warp = "installs" /\ a \in WarpAttrs \ (TorchAttrs \cup NumpyAttrs) /\ value[a] = <<Original[a]>>
    <3>1. n.value[a] = <<Original[a]>> /\ a \notin stuck
      BY <1>2, <1>11, <1>12, <2>1, <2>2, <2>6
    <3>2. Intercepting(w.value[a], starts)
      BY <1>13, <2>1, <2>6, <3>1 DEF OwnCallables
    <3> QED BY <2>1, <2>2, <2>6, <3>2 DEF Grown
  <2> QED BY <2>3, <2>4, <2>5, <2>6 DEF Targets
<1> QED BY <1>14, <1>15, <1>16, <1>17

-----------------------------------------------------------------------------
(* The inductive invariant                                                 *)

Typed ==
    /\ State \in Records
    /\ installed \in BOOLEAN /\ clean \in BOOLEAN
    /\ session \subseteq Attrs
    /\ starts \in 0 .. MaxStarts
    /\ stuck \subseteq Fragile /\ overlaid \subseteq Attrs
    /\ saved \in [Attrs -> Seq(Parts)]
    /\ \A a \in Attrs : saved[a] = <<>> \/ saved[a] \in Callables(a)

\* Taking the entries back, last first, gives every free attribute what it
\* was bound to, and whatever is installed is accounted for.
Restorable == Undoable(value, patches) /\ Accounted(State) /\ (~ installed => Blank(State))

\* The second conjunct of Intercepted, with the layers counted from the front.
Covered ==
    Interpreting /\ clean => \A a \in session \ (Fragile \cap WarpAttrs) :
        Intercepting(value[a], starts - 1)

PatchInv == Typed /\ Restorable /\ Covered

LEMMA BareChain ==
    ASSUME NEW p, \A g \in Groups : p[g] = <<>>, NEW a, NEW f
    PROVE  Chain(Stack(p), a, f) <=> Bare(f)
<1>1. Stack(p) = <<>>
  BY GroupNames DEF Stack
<1>2. Len(<<>>) = 0 /\ 1 .. 0 = {}
  OBVIOUS
<1> QED BY <1>1, <1>2 DEF Chain, Under

LEMMA BecomesFacts ==
    ASSUME NEW r \in Records, Becomes(r)
    PROVE  /\ (State \in Records)'
           /\ Accounted(r) => Accounted(State)'
           /\ Blank(r) => Blank(State)'
<1>1. State' = [value |-> r.value, patches |-> r.patches, ready |-> r.ready, ok |-> TRUE]
  BY DEF Becomes, State
<1>2. PICK z : z = State'
  OBVIOUS
<1>3. z.value = r.value /\ z.patches = r.patches /\ z.ready = r.ready /\ z \in Records
  BY <1>1, <1>2 DEF Records
<1>4. Accounted(r) => Accounted(z)
  BY <1>3 DEF Accounted
<1>5. Blank(r) => Blank(z)
  BY <1>3 DEF Blank
<1> QED BY <1>2, <1>3, <1>4, <1>5 DEF Accounted, Blank, Records

LEMMA StateFacts ==
    ASSUME Typed
    PROVE  /\ value \in Bindings /\ patches \in Registries /\ ready \in [Groups -> BOOLEAN]
           /\ State.value = value /\ State.patches = patches /\ State.ready = ready /\ State.ok
           /\ \A a \in Attrs : value[a] \in Callables(a)
           /\ starts \in Nat
<1>1. /\ State.value = value /\ State.patches = patches /\ State.ready = ready /\ State.ok
      /\ State \in Records
  BY DEF Typed, State
<1>2. value \in Bindings /\ patches \in Registries /\ ready \in [Groups -> BOOLEAN]
  BY <1>1 DEF Records
<1> QED BY <1>1, <1>2, PatchAssumption DEF Typed, Bindings

LEMMA InvInit == Init => PatchInv
<1> SUFFICES ASSUME Init PROVE PatchInv
  OBVIOUS
<1>1. \A a \in Attrs : /\ value[a] = <<Original[a]>> /\ value[a] \in Callables(a) /\ Bare(value[a])
                       /\ value[a] \in Seq(Parts)
  <2> TAKE a \in Attrs
  <2>1. value[a] = <<Original[a]>> /\ Original[a] \in Parts
    BY DEF Init, Parts
  <2>2. value[a] \in Seq(Parts) /\ Len(value[a]) = 1 /\ value[a][1] = Original[a] /\ value[a] # <<>>
    BY <2>1
  <2> QED BY <2>1, <2>2 DEF Callables, Last, Bare
<1>2. value \in Bindings
  BY <1>1 DEF Init, Bindings
<1>3. patches \in Registries
  <2>1. \A g \in Groups : patches[g] = <<>> /\ Len(patches[g]) = 0
    BY DEF Init
  <2>2. patches \in [Groups -> Seq(AllEntries)]
    BY DEF Init
  <2> QED BY <2>1, <2>2 DEF Registries
<1>4. State \in Records /\ Blank(State) /\ Accounted(State)
  <2>1. ready \in [Groups -> BOOLEAN] /\ \A g \in Groups : ~ ready[g] /\ patches[g] = <<>>
    BY DEF Init
  <2> QED BY <1>2, <1>3, <2>1, GroupNames DEF State, Records, Blank, Accounted, Groups
<1>5. Typed
  <2>1. saved \in [Attrs -> Seq(Parts)] /\ \A a \in Attrs : saved[a] = <<>>
    BY DEF Init
  <2>2. /\ installed = FALSE /\ session = {} /\ clean = TRUE /\ starts = 0
        /\ stuck = {} /\ overlaid = {}
    BY DEF Init
  <2>3. 0 \in 0 .. MaxStarts
    BY PatchAssumption
  <2> QED BY <1>4, <2>1, <2>2, <2>3 DEF Typed
<1>6. Undoable(value, patches)
  <2>1. \A g \in Groups : patches[g] = <<>>
    BY DEF Init
  <2> QED BY <1>1, <2>1, BareChain DEF Undoable, Free
<1> QED BY <1>4, <1>5, <1>6 DEF PatchInv, Restorable, Covered, Init, Interpreting

LEMMA StartStep ==
    ASSUME PatchInv, NEW users \in SUBSET (UserAttrs \cup TorchAttrs), NEW warp \in WarpInstalls,
           Start(users, warp)
    PROVE  /\ PatchInv'
           /\ \A a \in Attrs : value[a][1] = Program => Ends(value[a], value'[a])
<1>1. Typed /\ Restorable /\ users \subseteq Attrs
  BY DEF PatchInv, Attrs
<1>2. starts + 1 \in 0 .. MaxStarts /\ starts' = starts + 1 /\ starts' - 1 = starts
  BY <1>1, PatchAssumption DEF Typed, Start
<1>3. /\ stuck' = stuck /\ saved' = saved /\ overlaid' = overlaid /\ ~ Interpreting
      /\ clean' = ~ installed
  BY DEF Start
<1>4. CASE installed
  <2>1. value' = value /\ patches' = patches /\ ready' = ready /\ installed' = installed
        /\ session' = Targets(users, warp)
    BY <1>4 DEF Start
  <2>2. Targets(users, warp) \subseteq Attrs
    BY <1>1 DEF Targets, Attrs
  <2>3. Typed'
    BY <1>1, <1>2, <1>3, <2>1, <2>2 DEF Typed, State
  <2>4. Restorable'
    BY <1>1, <1>3, <1>4, <2>1 DEF Restorable, Undoable, Free, State
  <2>5. Covered'
    BY <1>3, <1>4 DEF Covered
  <2>6. \A a \in Attrs : Ends(value[a], value'[a])
    BY <1>1, <2>1, StateFacts, EndsSelf
  <2> QED BY <2>3, <2>4, <2>5, <2>6 DEF PatchInv
<1>5. CASE ~ installed
  <2>1. PICK r : r = InstallAll(users, warp)
    OBVIOUS
  <2>2. /\ r \in Records /\ Accounted(r) /\ Loose(r) /\ Keeping(r)
        /\ Undoable(r.value, r.patches)
        /\ r.ok => \A a \in Targets(users, warp) \ (Fragile \cap WarpAttrs) :
                      Intercepting(r.value[a], starts)
    <3>1. State \in Records /\ Blank(State) /\ stuck \subseteq Fragile /\ Undoable(value, patches)
      BY <1>1, <1>5 DEF Typed, Restorable
    <3> QED BY <1>1, <2>1, <3>1, StateFacts, InstallAllKeeps
  <2>3. CASE r.ok
    <3>1. Becomes(r) /\ session' = Targets(users, warp) /\ installed'
      BY <1>5, <2>1, <2>3 DEF Start
    <3>2. Targets(users, warp) \subseteq Attrs
      BY <1>1 DEF Targets, Attrs
    <3>3. (State \in Records)' /\ Accounted(State)' /\ value' = r.value /\ patches' = r.patches
      BY <2>2, <3>1, BecomesFacts DEF Becomes
    <3>4. Typed'
      <4>1. installed' \in BOOLEAN
        BY <1>5, <2>1, <2>3 DEF Start
      <4> QED BY <1>1, <1>2, <1>3, <3>1, <3>2, <3>3, <4>1 DEF Typed
    <3>5. Restorable'
      BY <1>3, <2>2, <3>1, <3>3 DEF Restorable, Undoable, Free
    <3>6. Covered'
      BY <1>2, <2>2, <2>3, <3>1, <3>3 DEF Covered
    <3> QED BY <2>2, <3>3, <3>4, <3>5, <3>6 DEF PatchInv, Keeping
  <2>4. CASE ~ r.ok
    <3>1. PICK q : q = [r EXCEPT !.ok = TRUE]
      OBVIOUS
    <3>2. q \in Records /\ q.ok /\ q.value = r.value /\ q.patches = r.patches /\ q.ready = r.ready
      BY <2>2, <3>1 DEF Records
    <3>3. Accounted(q) /\ Loose(q) /\ Keeping(q) /\ Undoable(q.value, q.patches)
      BY <2>2, <3>2 DEF Accounted, Loose, Keeping
    <3>4. PICK u : u = UninstallAll(q)
      OBVIOUS
    <3>5. /\ u \in Records /\ Accounted(u) /\ Blank(u) /\ Keeping(u)
          /\ Undoable(u.value, u.patches)
      <4>1. value \in Bindings /\ stuck \subseteq Fragile
        BY <1>1, StateFacts DEF Typed
      <4> QED BY <3>2, <3>3, <3>4, <4>1, UninstallAllKeeps
    <3>6. Becomes(u) /\ session' = session /\ installed' = installed
      BY <1>5, <2>1, <2>4, <3>1, <3>4 DEF Start
    <3>7. /\ (State \in Records)' /\ Accounted(State)' /\ Blank(State)'
          /\ value' = u.value /\ patches' = u.patches
      BY <3>5, <3>6, BecomesFacts DEF Becomes
    <3>8. Typed'
      BY <1>1, <1>2, <1>3, <3>6, <3>7 DEF Typed
    <3>9. Restorable'
      BY <1>3, <3>5, <3>7 DEF Restorable, Undoable, Free
    <3>10. Covered'
      BY <1>3, <3>6 DEF Covered, Interpreting
    <3> QED BY <3>5, <3>7, <3>8, <3>9, <3>10 DEF PatchInv, Keeping
  <2> QED BY <2>3, <2>4
<1> QED BY <1>4, <1>5

LEMMA StopStep ==
    ASSUME PatchInv, Stop
    PROVE  /\ PatchInv'
           /\ \A a \in Attrs : value[a][1] = Program => Ends(value[a], value'[a])
<1>1. Typed /\ Restorable
  BY DEF PatchInv
<1>2. /\ stuck' = stuck /\ saved' = saved /\ overlaid' = overlaid /\ session' = {}
      /\ clean' = clean /\ starts' = starts
  BY DEF Stop
<1>3. Covered'
  BY <1>2 DEF Covered, Interpreting
<1>4. \A a \in Attrs : Ends(value[a], value[a])
  BY <1>1, StateFacts, EndsSelf
<1>5. CASE ~ installed
  <2>1. value' = value /\ patches' = patches /\ ready' = ready /\ installed' = installed
    BY <1>5 DEF Stop
  <2>2. Typed'
    BY <1>1, <1>2, <2>1 DEF Typed, State
  <2>3. Restorable'
    BY <1>1, <1>2, <1>5, <2>1 DEF Restorable, Undoable, Free, State, Blank, Accounted
  <2> QED BY <1>3, <1>4, <2>1, <2>2, <2>3 DEF PatchInv
<1>6. CASE installed
  <2>1. PICK r : r = UninstallAll(State)
    OBVIOUS
  <2>2. Becomes(r) /\ installed' = ~ r.ok
    BY <1>6, <2>1 DEF Stop
  <2>3. Keeping(State)
    BY <1>1, <1>4, StateFacts DEF Keeping
  <2>4. /\ r \in Records /\ Accounted(r) /\ Keeping(r)
        /\ r.ok => Blank(r)
        /\ Undoable(r.value, r.patches)
    <3>1. State \in Records /\ Accounted(State) /\ stuck \subseteq Fragile
      BY <1>1 DEF Typed, Restorable
    <3>2. Undoable(State.value, State.patches) /\ value \in Bindings
      BY <1>1, StateFacts DEF Restorable
    <3> QED BY <2>1, <2>3, <3>1, <3>2, UninstallAllKeeps
  <2>5. /\ (State \in Records)' /\ Accounted(State)' /\ (r.ok => Blank(State)')
        /\ value' = r.value /\ patches' = r.patches
    BY <2>2, <2>4, BecomesFacts DEF Becomes
  <2>6. Typed'
    BY <1>1, <1>2, <2>2, <2>5 DEF Typed
  <2>7. Restorable'
    BY <1>2, <2>2, <2>4, <2>5 DEF Restorable, Undoable, Free
  <2> QED BY <1>3, <2>4, <2>5, <2>6, <2>7 DEF PatchInv, Keeping
<1> QED BY <1>5, <1>6

LEMMA WrappedBare ==
    ASSUME NEW a \in Attrs, value[a] \in Callables(a)
    PROVE  Wrapped(a) <=> ~ Bare(value[a])
<1>1. DOMAIN Front(value[a]) = 1 .. Len(value[a]) - 1
  BY CallableFacts
<1>2. \A k \in 1 .. Len(value[a]) - 1 : Front(value[a])[k] = value[a][k]
  BY CallableFacts
<1> QED BY <1>1, <1>2 DEF Wrapped, Layers, Bare

\* An attribute without a wrapper of LEAPP, or with the program's outermost,
\* has no entry, and may be given any value without one.
LEMMA NoEntries ==
    ASSUME NEW S \in Seq(AllEntries), NEW a \in Attrs, NEW f, Chain(S, a, f),
           Bare(f) \/ f[1] = Program
    PROVE  /\ Bare(f)
           /\ \A h : Bare(h) => Chain(S, a, h)
<1>1. \A i \in 1 .. Len(S) : S[i].wrapper # f
  <2> TAKE i \in 1 .. Len(S)
  <2>1. PICK g \in Groups : S[i] \in Entries(g)
    BY DEF AllEntries
  <2>2. S[i].wrapper[1] # Program /\ ~ Bare(S[i].wrapper)
    BY <2>1, EntryFacts
  <2> QED BY <2>2
<1>2. Bare(f) /\ \A i \in 1 .. Len(S) : S[i].attr # a
  BY <1>1 DEF Chain, Under
<1> QED BY <1>2 DEF Chain, Under

LEMMA RebindStep == ASSUME PatchInv, NEW a \in Attrs \ Fragile, Rebind(a) PROVE PatchInv'
<1>1. Typed /\ Restorable /\ Covered /\ a \in Attrs
  BY DEF PatchInv
<1>2. /\ value \in Bindings /\ patches \in Registries /\ ready \in [Groups -> BOOLEAN]
      /\ value[a] \in Callables(a) /\ \A b \in Attrs : value[b] \in Callables(b)
  BY <1>1, StateFacts
<1>3. Program \in Layer
  BY DEF Program, Layer
<1>4. PICK w : w = <<Program>> \o value[a]
  OBVIOUS
<1>5. /\ w \in Callables(a) /\ Len(w) = Len(value[a]) + 1 /\ Len(value[a]) \in Nat \ {0}
      /\ w[1] = Program /\ \A k \in 2 .. Len(value[a]) + 1 : w[k] = value[a][k-1]
      /\ \A n : Intercepting(value[a], n) => Intercepting(w, n)
  <2>1. Len(value[a]) \in Nat \ {0}
    BY <1>1, <1>2, CallableFacts
  <2>2. /\ w \in Callables(a) /\ Len(w) = Len(value[a]) + 1
        /\ w[1] = Program /\ \A k \in 2 .. Len(value[a]) + 1 : w[k] = value[a][k-1]
    <3>1. PICK f \in Callables(a) : f = value[a]
      BY <1>2
    <3>2. PICK l \in Layer : l = Program
      BY <1>3
    <3>3. /\ <<l>> \o f \in Callables(a) /\ Len(<<l>> \o f) = Len(f) + 1
          /\ (<<l>> \o f)[1] = l /\ \A k \in 2 .. Len(f) + 1 : (<<l>> \o f)[k] = f[k-1]
      BY <1>1, PushFacts, Zenon
    <3>4. w = <<l>> \o f
      BY <1>4, <3>1, <3>2
    <3> HIDE DEF Program
    <3> QED BY <3>1, <3>2, <3>3, <3>4, Zenon
  <2>3. \A n : Intercepting(value[a], n) => Intercepting(w, n)
    BY <1>1, <1>2, <1>3, <1>4, PushIntercepts, Zenon
  <2> QED BY <2>1, <2>2, <2>3
<1>6. /\ patches' = patches /\ ready' = ready /\ installed' = installed /\ session' = session
      /\ clean' = clean /\ starts' = starts /\ stuck' = stuck
      /\ value' = [value EXCEPT ![a] = w]
      /\ saved' = [saved EXCEPT ![a] = value[a]]
      /\ overlaid' = IF Wrapped(a) THEN overlaid \cup {a} ELSE overlaid
  BY <1>4 DEF Rebind
<1>7. value' \in Bindings /\ value'[a] = w /\ \A b \in Attrs \ {a} : value'[b] = value[b]
  <2>1. w \in Seq(Parts) /\ value \in [Attrs -> Seq(Parts)]
    BY <1>2, <1>5 DEF Callables, Bindings
  <2>2. value' \in [Attrs -> Seq(Parts)] /\ value'[a] = w /\ \A b \in Attrs \ {a} : value'[b] = value[b]
    BY <1>1, <1>6, <2>1
  <2> QED BY <1>2, <1>5, <2>2 DEF Bindings
<1>8. (State \in Records)'
  BY <1>1, <1>2, <1>6, <1>7 DEF State, Records
<1>9. Typed'
  <2>1. value[a] \in Seq(Parts) /\ saved \in [Attrs -> Seq(Parts)]
    BY <1>1, <1>2 DEF Callables, Typed
  <2>2. saved' \in [Attrs -> Seq(Parts)] /\ saved'[a] = value[a]
        /\ \A b \in Attrs \ {a} : saved'[b] = saved[b]
    BY <1>1, <1>6, <2>1
  <2>3. overlaid' \subseteq Attrs
    BY <1>1, <1>6 DEF Typed
  <2>4. \A b \in Attrs : saved'[b] = <<>> \/ saved'[b] \in Callables(b)
    BY <1>1, <1>2, <2>2 DEF Typed
  <2> QED BY <1>1, <1>6, <1>8, <2>2, <2>3, <2>4 DEF Typed
<1>10. Undoable(value, patches)'
  <2> SUFFICES ASSUME NEW b \in Free' PROVE Chain(Stack(patches), b, value'[b])
    BY <1>6 DEF Undoable
  <2>1. b \in Free /\ b \in Attrs /\ (b = a => ~ Wrapped(a))
    BY <1>6 DEF Free
  <2>2. Chain(Stack(patches), b, value[b])
    BY <1>1, <2>1 DEF Restorable, Undoable
  <2>3. CASE b = a
    <3>1. Bare(value[a])
      BY <1>1, <1>2, <2>1, <2>3, WrappedBare
    <3>2. Bare(w)
      <4> SUFFICES ASSUME NEW k \in 1 .. Len(w) - 1 PROVE w[k] = Program
        BY DEF Bare
      <4>1. CASE k = 1
        BY <1>5, <4>1
      <4>2. CASE k # 1
        <5>1. k \in 2 .. Len(value[a]) + 1 /\ k - 1 \in 1 .. Len(value[a]) - 1
          BY <1>5, <4>2
        <5> QED BY <1>5, <3>1, <5>1 DEF Bare
      <4> QED BY <4>1, <4>2
    <3>3. Stack(patches) \in Seq(AllEntries)
      BY <1>2, StackSeq
    <3> QED BY <1>1, <1>7, <2>2, <2>3, <3>1, <3>2, <3>3, NoEntries
  <2>4. CASE b # a
    BY <1>7, <2>1, <2>2, <2>4
  <2> QED BY <2>3, <2>4
<1>11. Restorable'
  <2>1. Accounted(State)' /\ (~ installed' => Blank(State)')
    BY <1>1, <1>6 DEF Restorable, Accounted, Blank, State
  <2> QED BY <1>10, <2>1 DEF Restorable, Undoable, Free
<1>12. Covered'
  <2> SUFFICES ASSUME Interpreting, clean, NEW b \in session \ (Fragile \cap WarpAttrs)
               PROVE  Intercepting(value'[b], starts - 1)
    BY <1>6 DEF Covered, Interpreting
  <2>1. Intercepting(value[b], starts - 1) /\ b \in Attrs
    BY <1>1 DEF Covered, Typed
  <2> QED BY <1>5, <1>7, <2>1
<1> QED BY <1>9, <1>11, <1>12 DEF PatchInv

LEMMA UnbindStep == ASSUME PatchInv, NEW a \in Attrs \ Fragile, Unbind(a) PROVE PatchInv'
<1>1. Typed /\ Restorable /\ Covered /\ a \in Attrs
  BY DEF PatchInv
<1>2. /\ value \in Bindings /\ patches \in Registries /\ ready \in [Groups -> BOOLEAN]
      /\ \A b \in Attrs : value[b] \in Callables(b)
  BY <1>1, StateFacts
<1>3. Program \in Layer
  BY DEF Program, Layer
<1>4. PICK f : f = saved[a]
  OBVIOUS
<1>5. /\ patches' = patches /\ ready' = ready /\ installed' = installed /\ session' = session
      /\ clean' = clean /\ starts' = starts /\ stuck' = stuck /\ overlaid' = overlaid
      /\ value' = [value EXCEPT ![a] = f]
      /\ saved' = [saved EXCEPT ![a] = <<>>]
      /\ value[a] = <<Program>> \o f /\ f # <<>>
  BY <1>4 DEF Unbind
<1>6. f \in Callables(a)
  BY <1>1, <1>4, <1>5 DEF Typed
<1>7. /\ Len(value[a]) = Len(f) + 1 /\ Len(f) \in Nat \ {0}
      /\ value[a][1] = Program /\ \A k \in 2 .. Len(f) + 1 : value[a][k] = f[k-1]
  <2>1. Len(f) \in Nat \ {0}
    BY <1>1, <1>6, CallableFacts
  <2> QED BY <1>1, <1>3, <1>5, <1>6, <2>1, PushFacts
<1>8. value' \in Bindings /\ value'[a] = f /\ \A b \in Attrs \ {a} : value'[b] = value[b]
  <2>1. f \in Seq(Parts) /\ value \in [Attrs -> Seq(Parts)]
    BY <1>2, <1>6 DEF Callables, Bindings
  <2>2. value' \in [Attrs -> Seq(Parts)] /\ value'[a] = f /\ \A b \in Attrs \ {a} : value'[b] = value[b]
    BY <1>1, <1>5, <2>1
  <2> QED BY <1>2, <1>6, <2>2 DEF Bindings
<1>9. (State \in Records)'
  BY <1>1, <1>2, <1>5, <1>8 DEF State, Records
<1>10. Typed'
  <2>1. <<>> \in Seq(Parts) /\ saved \in [Attrs -> Seq(Parts)]
    BY <1>1 DEF Typed
  <2>2. saved' \in [Attrs -> Seq(Parts)] /\ saved'[a] = <<>>
        /\ \A b \in Attrs \ {a} : saved'[b] = saved[b]
    BY <1>1, <1>5, <2>1
  <2>3. \A b \in Attrs : saved'[b] = <<>> \/ saved'[b] \in Callables(b)
    BY <1>1, <2>2 DEF Typed
  <2> QED BY <1>1, <1>5, <1>9, <2>2, <2>3 DEF Typed
<1>11. Undoable(value, patches)'
  <2> SUFFICES ASSUME NEW b \in Free PROVE Chain(Stack(patches), b, value'[b])
    BY <1>5 DEF Undoable, Free
  <2>1. b \in Attrs /\ Chain(Stack(patches), b, value[b])
    BY <1>1 DEF Restorable, Undoable, Free
  <2>2. CASE b = a
    <3>1. Stack(patches) \in Seq(AllEntries)
      BY <1>2, StackSeq
    <3>2. /\ Bare(value[a])
          /\ \A h : Bare(h) => Chain(Stack(patches), a, h)
      BY <1>1, <1>7, <2>1, <2>2, <3>1, NoEntries
    <3>3. Bare(f)
      <4> SUFFICES ASSUME NEW k \in 1 .. Len(f) - 1 PROVE f[k] = Program
        BY DEF Bare
      <4>1. k + 1 \in 2 .. Len(f) + 1 /\ k + 1 \in 1 .. Len(value[a]) - 1 /\ (k + 1) - 1 = k
        BY <1>7
      <4> QED BY <1>7, <3>2, <4>1 DEF Bare
    <3> QED BY <1>8, <2>2, <3>2, <3>3
  <2>3. CASE b # a
    BY <1>8, <2>1, <2>3
  <2> QED BY <2>2, <2>3
<1>12. Restorable'
  <2>1. Accounted(State)' /\ (~ installed' => Blank(State)')
    BY <1>1, <1>5 DEF Restorable, Accounted, Blank, State
  <2> QED BY <1>11, <2>1 DEF Restorable, Undoable, Free
<1>13. Covered'
  <2> SUFFICES ASSUME Interpreting, clean, NEW b \in session \ (Fragile \cap WarpAttrs)
               PROVE  Intercepting(value'[b], starts - 1)
    BY <1>5 DEF Covered, Interpreting
  <2>1. Intercepting(value[b], starts - 1) /\ b \in Attrs
    BY <1>1 DEF Covered, Typed
  <2>2. CASE b = a
    <3>1. PICK k \in 1 .. Len(value[a]) - 1 : value[a][k] # Program /\ value[a][k].start = starts - 1
      BY <2>1, <2>2 DEF Intercepting
    <3>2. k \in 2 .. Len(f) + 1 /\ k - 1 \in 1 .. Len(f) - 1
      BY <1>7, <3>1
    <3>3. f[k - 1] # Program /\ f[k - 1].start = starts - 1
      BY <1>7, <3>1, <3>2
    <3> QED BY <1>8, <2>2, <3>2, <3>3 DEF Intercepting
  <2>3. CASE b # a
    BY <1>8, <2>1, <2>3
  <2> QED BY <2>2, <2>3
<1> QED BY <1>10, <1>12, <1>13 DEF PatchInv

LEMMA FreezeStep == ASSUME PatchInv, NEW a \in Fragile, Freeze(a) PROVE PatchInv'
<1>1. /\ patches' = patches /\ ready' = ready /\ installed' = installed /\ session' = session
      /\ clean' = clean /\ starts' = starts /\ overlaid' = overlaid /\ value' = value
      /\ saved' = saved /\ stuck' \subseteq Fragile
  BY DEF Freeze, PatchInv, Typed
<1>2. Typed'
  BY <1>1 DEF PatchInv, Typed, State
<1>3. Restorable'
  BY <1>1 DEF PatchInv, Restorable, Undoable, Free, State, Accounted, Blank
<1>4. Covered'
  BY <1>1 DEF PatchInv, Covered, Interpreting
<1> QED BY <1>2, <1>3, <1>4 DEF PatchInv

LEMMA InvNext == PatchInv /\ [Next]_vars => PatchInv'
<1> SUFFICES ASSUME PatchInv, [Next]_vars PROVE PatchInv'
  OBVIOUS
<1>1. ASSUME NEW users \in SUBSET (UserAttrs \cup TorchAttrs), NEW warp \in WarpInstalls,
             Start(users, warp)
      PROVE  PatchInv'
  BY <1>1, StartStep
<1>2. CASE Stop
  BY <1>2, StopStep
<1>3. ASSUME NEW a \in Attrs \ Fragile, Rebind(a) PROVE PatchInv'
  BY <1>3, RebindStep
<1>4. ASSUME NEW a \in Attrs \ Fragile, Unbind(a) PROVE PatchInv'
  BY <1>4, UnbindStep
<1>5. ASSUME NEW a \in Fragile, Freeze(a) PROVE PatchInv'
  BY <1>5, FreezeStep
<1>6. CASE UNCHANGED vars
  BY <1>6 DEF vars, PatchInv, Typed, Restorable, Covered, State, Undoable, Free, Accounted,
              Blank, Interpreting
<1> QED BY <1>1, <1>2, <1>3, <1>4, <1>5, <1>6 DEF Next

\* PatchInv holds in every reachable state: the patches of a session can be
\* taken back, whatever the program has rebound and whatever refuses it.
THEOREM PatchInvAlways == Spec => []PatchInv
<1> QED BY InvInit, InvNext, PTL DEF Spec

-----------------------------------------------------------------------------
(* The properties of the run                                               *)

\* The type invariant: every attribute still ends in the function it was
\* defined with, and every undo entry belongs to the group that holds it.
THEOREM TypeCorrect == Spec => []TypeOK
<1>1. PatchInv => TypeOK
  <2> SUFFICES ASSUME PatchInv PROVE TypeOK
    OBVIOUS
  <2>1. Typed /\ Restorable
    BY DEF PatchInv
  <2>2. /\ patches \in Registries /\ ready \in [Groups -> BOOLEAN]
        /\ \A a \in Attrs : value[a] \in Callables(a)
    BY <2>1, StateFacts
  <2>3. \A a \in Attrs : Last(value[a]) = Original[a]
    BY <2>2 DEF Callables
  <2>4. ASSUME NEW g \in Groups, NEW k \in DOMAIN patches[g]
        PROVE  patches[g][k].attr \in Attrs /\ Head(patches[g][k].wrapper).by = g
    <3>1. patches[g] \in Seq(AllEntries)
      BY <2>2 DEF Registries
    <3>2. k \in 1 .. Len(patches[g])
      BY <3>1
    <3>3. patches[g][k] \in Entries(g)
      BY <2>2, <3>2 DEF Registries
    <3> QED BY <3>3 DEF Entries
  <2>5. ~ ready["user"] /\ \A g \in Defaults : ready[g] \/ patches[g] = <<>>
    BY <2>1, StateFacts DEF Restorable, Accounted
  <2> QED BY <2>1, <2>2, <2>3, <2>4, <2>5 DEF TypeOK, Typed
<1> QED BY <1>1, PatchInvAlways, PTL

\* Once nothing is installed, by a stop(), a stop() that was retried or a
\* start() that failed, no wrapper of LEAPP is left, but where the program had
\* rebound the attribute over one and where Warp refuses to be restored.
THEOREM OriginalsAlways == Spec => []OriginalsBack
<1>1. PatchInv => OriginalsBack
  <2> SUFFICES ASSUME PatchInv, ~ installed, NEW a \in Attrs, Wrapped(a), a \in Free PROVE FALSE
    BY DEF OriginalsBack, Free
  <2>1. Typed /\ Blank(State) /\ Undoable(value, patches)
    BY DEF PatchInv, Restorable
  <2>2. \A g \in Groups : patches[g] = <<>>
    BY <2>1, StateFacts DEF Blank
  <2>3. Bare(value[a])
    BY <2>1, <2>2, BareChain DEF Undoable
  <2> QED BY <2>1, <2>3, StateFacts, WrappedBare
<1> QED BY <1>1, PatchInvAlways, PTL

\* A session that began with nothing installed keeps intercepting every
\* function it is to trace, whatever the program puts over its wrappers.
THEOREM InterceptedAlways == Spec => []Intercepted
<1>1. PatchInv => Intercepted
  <2> SUFFICES ASSUME PatchInv, Interpreting, clean, NEW a \in session \ (Fragile \cap WarpAttrs)
               PROVE  \E k \in DOMAIN Layers(a) :
                         Layers(a)[k] # Program /\ Layers(a)[k].start = starts - 1
    BY DEF Intercepted
  <2>1. Typed /\ Intercepting(value[a], starts - 1) /\ a \in Attrs
    BY DEF PatchInv, Covered, Typed
  <2>2. value[a] \in Callables(a)
    BY <2>1, StateFacts
  <2>3. /\ DOMAIN Front(value[a]) = 1 .. Len(value[a]) - 1
        /\ \A k \in 1 .. Len(value[a]) - 1 : Front(value[a])[k] = value[a][k]
    BY <2>1, <2>2, CallableFacts
  <2> QED BY <2>1, <2>3 DEF Intercepting, Layers
<1> QED BY <1>1, PatchInvAlways, PTL

\* No start() and no stop(), whether it succeeds or fails halfway, takes away
\* what the program has bound: it stays, under what LEAPP may have put on it.
THEOREM KeptAlways == Spec => ProgramKept
<1> DEFINE Kept == \A a \in Attrs :
               Head(value[a]) = Program /\ saved' = saved => IsSuffix(value[a], value'[a])
<1>1. ASSUME PatchInv, PatchInv', [Next]_vars PROVE [Kept]_vars
  <2> SUFFICES ASSUME Next, NEW a \in Attrs, Head(value[a]) = Program, saved' = saved
               PROVE  IsSuffix(value[a], value'[a])
    BY <1>1
  <2>1. value[a] \in Callables(a) /\ value'[a] \in Callables(a)
    <3>1. Typed /\ Typed'
      BY <1>1 DEF PatchInv
    <3>2. value'[a] \in Callables(a)
      <4>1. (State \in Records)'
        BY <3>1 DEF Typed
      <4>2. value' \in Bindings
        BY <4>1 DEF State, Records
      <4> QED BY <4>2 DEF Bindings
    <3> QED BY <3>1, <3>2, StateFacts
  <2>2. value[a][1] = Program
    BY <2>1, CallableFacts
  <2>3. Ends(value[a], value'[a])
    <3>1. ASSUME NEW users \in SUBSET (UserAttrs \cup TorchAttrs), NEW warp \in WarpInstalls,
                 Start(users, warp)
          PROVE  Ends(value[a], value'[a])
      BY <1>1, <2>2, <3>1, StartStep
    <3>2. CASE Stop
      BY <1>1, <2>2, <3>2, StopStep
    <3>3. ASSUME NEW b \in Attrs \ Fragile, Rebind(b) \/ Unbind(b) PROVE FALSE
      <4>1. saved \in [Attrs -> Seq(Parts)] /\ b \in Attrs /\ value[b] \in Callables(b)
        BY <1>1, StateFacts DEF PatchInv, Typed
      <4>2. CASE Rebind(b)
        <5>1. saved[b] = <<>> /\ saved' = [saved EXCEPT ![b] = value[b]]
          BY <4>2 DEF Rebind
        <5>2. saved'[b] = value[b] /\ value[b] # <<>>
          BY <4>1, <5>1 DEF Callables
        <5> QED BY <2>1, <5>1, <5>2
      <4>3. CASE Unbind(b)
        <5>1. saved[b] # <<>> /\ saved' = [saved EXCEPT ![b] = <<>>]
          BY <4>3 DEF Unbind
        <5>2. saved'[b] = <<>>
          BY <4>1, <5>1
        <5> QED BY <5>1, <5>2
      <4> QED BY <3>3, <4>2, <4>3
    <3>4. ASSUME NEW b \in Fragile, Freeze(b) PROVE Ends(value[a], value'[a])
      BY <2>1, <3>4, EndsSelf DEF Freeze
    <3> QED BY <3>1, <3>2, <3>3, <3>4 DEF Next
  <2> QED BY <2>1, <2>3, EndsSuffix
<1>2. Spec => [][Kept]_vars
  BY <1>1, PatchInvAlways, PTL DEF Spec
<1> QED BY <1>2 DEF ProgramKept
=============================================================================
